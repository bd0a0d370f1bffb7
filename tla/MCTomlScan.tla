----------------------------- MODULE MCTomlScan -----------------------------
(***************************************************************************)
(* Short texts for TomlScan: everything that fits between the four kinds   *)
(* of quotes, and every short row of tokens.                               *)
(***************************************************************************)
EXTENDS TomlScan

UpTo(n, chars) == UNION {[1 .. k -> chars] : k \in 0 .. n}

Quotes == {<<"'">>, <<"\"">>, Thrice("'"), Thrice("\"")}

InQuotes ==
  {q \o body \o q \o <<Newline>> :
     q \in Quotes, body \in UpTo(4, {"\"", "'", "\\", Newline, "n", "u", "F", "^"})}
  \cup
  {q \o body \o q \o <<Newline>> : q \in Quotes, body \in UpTo(3, {"\\", Newline, Return, " ", "U", "F", "D"})}

\* A complete \U, with a code that is one and with one that is none, and what follows.
LongEscapes ==
  {q \o <<"\\", "U">> \o code \o rest \o q \o <<Newline>> :
     q \in Quotes, code \in [1..2 -> {"F", "D"}], rest \in UpTo(2, {"\\", Newline, "\"", "U", "F"})}

Rows ==
  {<<"x">> \o row : row \in UpTo(3, DOMAIN Punctuation \cup {".", " ", "#", "x", "?", "\"", "'"})}

Date == <<"2", "0", "2", "1", "-", "0", "5", "-", "0", "1">>
Time == <<"1", "2", ":", "3", "0", ":", "0", "0">>
Times ==
  {t \o rest : t \in {Date, Date \o <<" ">> \o Time, Time, Tail(Date), Tail(Time)},
               rest \in UpTo(2, {" ", "x", Newline, ".", "Z"})}

MCTexts == InQuotes \cup LongEscapes \cup Rows \cup Times
MCControl == {"^"}
MCBadCodes == {<<"D">>, <<"F", "F">>}
=============================================================================
