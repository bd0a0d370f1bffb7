------------------------------ MODULE TomlScan ------------------------------
(***************************************************************************)
(* The scanner of the configuration file: next_token and scan_string       *)
(* (src/src/toml.c:1581-1859), and the functions that take a string out of *)
(* its quotes (toml_rtos, norm_lit_str, norm_basic_str).                   *)
(*                                                                         *)
(* The characters of a text are strings of length one.  The scanner looks  *)
(* at escapes to find where a string ends and whether it is one, and the   *)
(* decoder looks at them again, much later, when parse_config asks for the *)
(* value: two pieces of code that have to agree.                           *)
(***************************************************************************)
EXTENDS Integers, Sequences, SequencesExt

CONSTANTS
  Texts,     \* the files, sequences of characters
  Control,   \* the control characters that no string may hold
  ShortHex,  \* the digits after \u, 4 in the code
  LongHex,   \* the digits after \U, 8 in the code
  BadCodes   \* the sequences of digits that are no code point

ASSUME HexAssumption == ShortHex \in Nat \ {0} /\ LongHex \in Nat \ {0}

VARIABLES
  text,    \* the file
  tok,     \* the token the parser looks at
  status   \* "scanning", or "failed" after a syntax error

vars == <<text, tok, status>>

Newline == "\n"
Return == "\r"
Blank == {" ", "\t", Return}
Digit == {"0", "1", "2", "3", "4", "5", "6", "7", "8", "9"}
Hex == Digit \cup {"A", "B", "C", "D", "E", "F"}
Escapable == {"b", "t", "n", "f", "r", "\"", "\\"}

\* What a token of one character is.
Punctuation ==
  [c \in {",", "=", "{", "}", "[", "]", Newline} |->
     CASE c = "," -> "COMMA"    [] c = "=" -> "EQUAL"    [] c = "{" -> "LBRACE"
       [] c = "}" -> "RBRACE"   [] c = "[" -> "LBRACKET" [] c = "]" -> "RBRACKET"
       [] c = Newline -> "NEWLINE"]

\* The characters that are not part of a literal, of those in the texts.
EndsLiteral == DOMAIN Punctuation \cup Blank \cup Control \cup {"\"", "'", "\\", "#", "?", ":"}

-----------------------------------------------------------------------------
(***************************************************************************)
(* Reading the text.                                                       *)
(***************************************************************************)
End == Len(text) + 1

\* The character at i; the text ends with a NUL.
At(i) == IF i < End THEN text[i] ELSE "NUL"

Starts(i, word) == \A k \in DOMAIN word : At(i + k - 1) = word[k]

Thrice(quote) == <<quote, quote, quote>>

\* The first of the places, or 0 if there is none.
First(places) == IF places = {} THEN 0 ELSE Min(places)

\* The first place from i on whose character is not one of `chars`.
After(i, chars) == Min({k \in i .. End : At(k) \notin chars})

\* After the backslash of s[k - 1] there is nothing but the end of the line.
LineEnds(s, k) ==
  \E m \in k .. Len(s) : s[m] = Newline /\ \A n \in k .. m - 1 : s[n] \in Blank

-----------------------------------------------------------------------------
(***************************************************************************)
(* scan_string.  Each of its parts gives the place after the token, or 0   *)
(* for a syntax error.                                                     *)
(***************************************************************************)
\* '''...''' with the quotes that follow the first three.
ScanTripleLiteral(p) ==
  LET q == First({k \in p + 3 .. End : Starts(k, Thrice("'"))})
  IN IF q = 0 THEN 0 ELSE After(q, {"'"})

\* How far the scanner is in an escape: the hex digits it waits for, or
Plain == 0
Escape == -1
Wrong == -2

\* One character of a string between double quotes; `folded` says that a line
\* may end after the backslash.
Scanned(state, c, folded) ==
  CASE state = Wrong  -> Wrong
    [] state = Plain  -> IF c = "\\" THEN Escape ELSE Plain
    [] state = Escape -> (CASE c \in Escapable -> Plain
                            [] c = "u" -> ShortHex
                            [] c = "U" -> LongHex
                            [] OTHER -> IF folded THEN Plain ELSE Wrong)
    [] OTHER          -> IF c \in Hex THEN state - 1 ELSE Wrong

\* """...""" : ends at three quotes with no backslash before them, and then
\* looks at the escapes between.
ScanTripleBasic(p) ==
  LET q == First({k \in p + 3 .. End : Starts(k, Thrice("\"")) /\ At(k - 1) # "\\"})
      after == After(q, {"\""})
      state == FoldLeft(LAMBDA s, k : Scanned(s, text[k], LineEnds(text, k)),
                        Plain, [k \in 1 .. after - p - 6 |-> p + 2 + k])
  IN IF q = 0 THEN 0 ELSE IF state = Plain THEN after ELSE 0

\* '...' on one line.
ScanLiteral(p) ==
  LET q == First({k \in p + 1 .. End : At(k) \in {"'", Newline, "NUL"}})
  IN IF At(q) = "'" THEN q + 1 ELSE 0

\* Variant of ScanBasic: the quote that ends the string is the first one.
ScanToFirstQuote(p) ==
  LET q == First({k \in p + 1 .. End : At(k) \in {"\"", Newline, "NUL"}})
  IN IF At(q) = "\"" THEN q + 1 ELSE 0

\* "..." on one line.
ScanBasic(p) ==
  LET state[k \in p + 1 .. End] ==
        IF k = p + 1 THEN Plain ELSE Scanned(state[k - 1], At(k - 1), FALSE)
      stops(k) == \/ At(k) = "NUL"
                  \/ state[k] = Wrong
                  \/ state[k] = Plain /\ (At(k) \in {"\"", Newline} \/ Starts(k, Thrice("'")))
      q == First({k \in p + 1 .. End : stops(k)})
  IN IF state[q] # Wrong /\ At(q) = "\"" THEN q + 1 ELSE 0

\* `pattern` at p, where "0" is any digit.
Matches(p, pattern) ==
  \A k \in DOMAIN pattern : IF pattern[k] = "0" THEN At(p + k - 1) \in Digit
                            ELSE At(p + k - 1) = pattern[k]

scan_date(p) == Matches(p, <<"0", "0", "0", "0", "-", "0", "0", "-", "0", "0">>)
scan_time(p) == Matches(p, <<"0", "0", ":", "0", "0", ":", "0", "0">>)

\* A date or a time, without the spaces after it.
ScanTimestamp(p) ==
  LET q == After(p, Digit \cup {".", ":", "+", "-", "T", "t", " ", "Z", "z"})
  IN Max({k \in p + 1 .. q : At(k - 1) # " "})

\* Anything else: a bare key or a value, which is empty before a stray character.
ScanBare(p, dotisspecial) ==
  Min({k \in p .. End : At(k) \in EndsLiteral \cup {"NUL"} \/ (At(k) = "." /\ dotisspecial)})

scan_string(p, dotisspecial) ==
  CASE At(p) = "'"  -> IF Starts(p, Thrice("'")) THEN ScanTripleLiteral(p) ELSE ScanLiteral(p)
    [] At(p) = "\"" -> IF Starts(p, Thrice("\"")) THEN ScanTripleBasic(p) ELSE ScanBasic(p)
    [] scan_date(p) \/ scan_time(p) -> ScanTimestamp(p)
    [] OTHER -> ScanBare(p, dotisspecial)

-----------------------------------------------------------------------------
(***************************************************************************)
(* next_token.                                                             *)
(***************************************************************************)
Token(kind, lineno, ptr, len) ==
  [tok |-> kind, lineno |-> lineno, ptr |-> ptr, len |-> len, eof |-> ptr = End]

\* toml_parse starts with an artificial newline of length 0.
Init ==
  /\ text \in Texts
  /\ tok = [Token("NEWLINE", 1, 1, 0) EXCEPT !.eof = FALSE]
  /\ status = "scanning"

\* Variant of LinesEaten: a string is on one line.
LinesOfNewline(t) == IF t.tok = "NEWLINE" THEN t.len ELSE 0

\* The lines that the token ends.
LinesEaten(t) == Cardinality({k \in t.ptr .. t.ptr + t.len - 1 : text[k] = Newline})

\* A comment and the blanks before a token are skipped, up to the end of a line.
InComment(from, k) ==
  \E c \in from .. k : text[c] = "#" /\ \A m \in c .. k : text[m] # Newline

SkipTo(from) ==
  Min({k \in from .. End : k = End \/ (text[k] \notin Blank /\ ~InComment(from, k))})

next_token(dotisspecial) ==
  LET lineno == tok.lineno + LinesEaten(tok)
      p == SkipTo(tok.ptr + tok.len)
      q == scan_string(p, dotisspecial)
  IN /\ status = "scanning" /\ ~tok.eof
     /\ CASE p = End ->
               tok' = Token("NEWLINE", lineno, End, 0) /\ UNCHANGED status
          [] p < End /\ At(p) = "." /\ dotisspecial ->
               tok' = Token("DOT", lineno, p, 1) /\ UNCHANGED status
          [] At(p) \in DOMAIN Punctuation ->
               tok' = Token(Punctuation[At(p)], lineno, p, 1) /\ UNCHANGED status
          [] OTHER ->
               IF q = 0 THEN status' = "failed" /\ UNCHANGED tok
               ELSE tok' = Token("STRING", lineno, p, q - p) /\ UNCHANGED status
     /\ UNCHANGED text

\* The parser asks for the dot as a token of its own except where it expects a
\* value; it stops at the end of the text and at the first error.
Over == (status = "failed" \/ tok.eof) /\ UNCHANGED vars

Next == (\E dotisspecial \in BOOLEAN : next_token(dotisspecial)) \/ Over

Spec == Init /\ [][Next]_vars

-----------------------------------------------------------------------------
(***************************************************************************)
(* The decoder.  It says "ok", or why it gives no string.                  *)
(***************************************************************************)
Forbidden(c, multiline) ==
  c \in Control \/ (c \in {Newline, Return} /\ ~multiline)

norm_lit_str(s, multiline) ==
  IF \E k \in DOMAIN s : Forbidden(s[k], multiline) THEN "control" ELSE "ok"

\* One character: `mode` is where the loop is, `code` the digits of a \u so far,
\* `left` those that are to come.
Decoded(d, s, k, multiline) ==
  LET c == s[k]
      go(mode) == [mode |-> mode, code |-> << >>, left |-> 0]
      hex(n) == [mode |-> "hex", code |-> << >>, left |-> n]
      code == Append(d.code, c)
  IN CASE d.mode \in {"control", "code", "escape char", "hex char"} -> d
       [] d.mode = "skip" /\ c \in Blank \cup {Newline} -> d
       [] d.mode = "plain" \/ (d.mode = "skip" /\ c \notin Blank \cup {Newline}) ->
            IF c = "\\" THEN go(IF multiline /\ LineEnds(s, k + 1) THEN "skip" ELSE "escape")
            ELSE go(IF Forbidden(c, multiline) THEN "control" ELSE "plain")
       [] d.mode = "escape" ->
            (CASE c = "u" -> hex(ShortHex)
               [] c = "U" -> hex(LongHex)
               [] OTHER -> go(IF c \in Escapable THEN "plain" ELSE "escape char"))
       [] d.mode = "hex" ->
            (CASE c \notin Hex -> go("hex char")
               [] c \in Hex /\ d.left > 1 -> [d EXCEPT !.code = code, !.left = @ - 1]
               [] OTHER -> go(IF code \in BadCodes THEN "code" ELSE "plain"))

norm_basic_str(s, multiline) ==
  LET start == [mode |-> "plain", code |-> << >>, left |-> 0]
      d == FoldLeft(LAMBDA x, k : Decoded(x, s, k, multiline), start, [k \in DOMAIN s |-> k])
  IN IF d.mode \in {"plain", "skip"} THEN "ok" ELSE d.mode

\* A newline right after three quotes is not part of the string.
WithoutFirstNewline(s) ==
  CASE s # << >> /\ s[1] = Newline -> Tail(s)
    [] Len(s) > 1 /\ SubSeq(s, 1, 2) = <<Return, Newline>> -> Tail(Tail(s))
    [] OTHER -> s

toml_rtos(src) ==
  LET qchar == Head(src)
      n == Len(src)
      multiline == n > 2 /\ SubSeq(src, 1, 3) = Thrice(qchar)
      closed == IF multiline THEN n > 5 /\ SubSeq(src, n - 2, n) = Thrice(qchar)
                ELSE n > 1 /\ Last(src) = qchar
      s == IF multiline THEN WithoutFirstNewline(SubSeq(src, 4, n - 3)) ELSE SubSeq(src, 2, n - 1)
  IN CASE src = << >> \/ Head(src) \notin {"'", "\""} -> "no string"
       [] ~closed -> "quotes"
       [] qchar = "'" -> norm_lit_str(s, multiline)
       [] OTHER -> norm_basic_str(s, multiline)

-----------------------------------------------------------------------------
(***************************************************************************)
(* Properties.                                                             *)
(***************************************************************************)
Raw == SubSeq(text, tok.ptr, tok.ptr + tok.len - 1)

Quoted == tok.tok = "STRING" /\ At(tok.ptr) \in {"'", "\""}

\* What the scanner takes for a quoted string the decoder can take apart, but
\* for a control character or a number that is no code point: the two readings
\* of quotes and escapes agree.  (parse_config is told of neither failure: it
\* leaves the string out and counts it.)
ScannedStringsDecode == Quoted => toml_rtos(Raw) \in {"ok", "control", "code"}

\* The line number of a token, which is all an error message says of the place,
\* counts the newlines before it, in strings and after comments too.
LinesAreCounted ==
  tok.lineno = 1 + Cardinality({k \in 1 .. tok.ptr - 1 : text[k] = Newline})
=============================================================================
