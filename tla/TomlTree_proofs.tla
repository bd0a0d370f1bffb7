---------------------------- MODULE TomlTree_proofs -------------------------
(***************************************************************************)
(* Proofs about Toml: every file of independent lines is accepted, and the *)
(* tree it becomes is that of its lines.                                   *)
(*                                                                         *)
(* The invariant labels each table with its path.  The labels are those of *)
(* a tree, each value or array of the tree is that of a line read, and     *)
(* each line read has its entry: then the tables on the way to the next    *)
(* line are there or can be made, and the key at its end is free.          *)
(***************************************************************************)
EXTENDS Toml_proofs

(***************************************************************************)
(* Paths: sequences of keys, and their prefixes.                           *)
(***************************************************************************)
\* A sequence of a set is one of its elements.
LEMMA SeqIn ==
  ASSUME NEW S, NEW s \in Seq(S)
  PROVE  IsSeq(s)
<1>1. DOMAIN s = 1..Len(s) /\ Len(s) \in Nat /\ s \in [1..Len(s) -> S]
  BY LenProperties
<1>2. s = [n \in 1..Len(s) |-> s[n]] /\ \A n \in 1..Len(s) : s[n] \in ToSet(s)
  BY <1>1 DEF ToSet
<1>3. s \in [1..Len(s) -> ToSet(s)]
  BY <1>1, <1>2
<1> QED BY <1>1, <1>3, SeqDef DEF IsSeq

\* Two sequences with the same elements are the same.
LEMMA SeqEq ==
  ASSUME NEW s, IsSeq(s), NEW t, IsSeq(t), Len(s) = Len(t), \A n \in 1..Len(s) : s[n] = t[n]
  PROVE  s = t
<1> DEFINE S == ToSet(s) \cup ToSet(t)
<1>1. s \in Seq(S) /\ t \in Seq(S)
  BY SeqMonotonic DEF IsSeq
<1> QED BY <1>1, SeqEqual

\* One sequence after another.
LEMMA SeqConcat ==
  ASSUME NEW s, IsSeq(s), NEW t, IsSeq(t)
  PROVE  /\ IsSeq(s \o t)
         /\ Len(s \o t) = Len(s) + Len(t) /\ Len(s) \in Nat /\ Len(t) \in Nat
         /\ \A n \in 1..Len(s) : (s \o t)[n] = s[n]
         /\ \A n \in 1..Len(t) : (s \o t)[Len(s) + n] = t[n]
<1> DEFINE S == ToSet(s) \cup ToSet(t)
<1>1. s \in Seq(S) /\ t \in Seq(S) /\ Len(s) \in Nat /\ Len(t) \in Nat
  BY SeqMonotonic, SeqIs DEF IsSeq
<1>2. /\ s \o t \in Seq(S) /\ Len(s \o t) = Len(s) + Len(t)
      /\ \A n \in 1..Len(s) + Len(t) : (s \o t)[n] = IF n <= Len(s) THEN s[n] ELSE t[n - Len(s)]
  BY <1>1, ConcatProperties
<1>3. IsSeq(s \o t)
  BY <1>2, SeqIn
<1>4. \A n \in 1..Len(s) : (s \o t)[n] = s[n]
  BY <1>1, <1>2
<1>5. \A n \in 1..Len(t) : (s \o t)[Len(s) + n] = t[n]
  <2> TAKE n \in 1..Len(t)
  <2>1. Len(s) + n \in 1..Len(s) + Len(t) /\ ~(Len(s) + n <= Len(s)) /\ Len(s) + n - Len(s) = n
    BY <1>1
  <2> QED BY <1>2, <2>1
<1> QED BY <1>1, <1>2, <1>3, <1>4, <1>5

\* A sequence without its first element.
LEMMA SeqTail ==
  ASSUME NEW s, IsSeq(s), s # << >>
  PROVE  /\ IsSeq(Tail(s)) /\ Head(s) = s[1] /\ 1 \in DOMAIN s
         /\ Len(Tail(s)) = Len(s) - 1 /\ Len(s) \in Nat /\ Len(s) >= 1
         /\ \A n \in 1..Len(Tail(s)) : Tail(s)[n] = s[n + 1]
<1>1. s \in Seq(ToSet(s)) /\ DOMAIN s = 1..Len(s) /\ Len(s) \in Nat /\ Len(s) # 0
  BY SeqIs DEF IsSeq
<1>2. /\ Head(s) = s[1] /\ Tail(s) \in Seq(ToSet(s))
      /\ Len(Tail(s)) = Len(s) - 1 /\ \A n \in 1..Len(Tail(s)) : Tail(s)[n] = s[n + 1]
  BY <1>1, HeadTailProperties
<1>3. IsSeq(Tail(s))
  BY <1>2, SeqIn
<1> QED BY <1>1, <1>2, <1>3

\* A prefix, element by element.
LEMMA PrefixIs ==
  ASSUME NEW p, IsSeq(p), NEW q, IsSeq(q)
  PROVE  IsPrefix(p, q) <=> Len(p) <= Len(q) /\ \A n \in 1..Len(p) : p[n] = q[n]
<1> DEFINE a == SubSeq(p, 1, Len(p))
           b == SubSeq(q, 1, Len(p))
<1>1. Len(p) \in Nat /\ Len(q) \in Nat /\ DOMAIN p = 1..Len(p) /\ DOMAIN q = 1..Len(q)
  BY SeqIs
<1>2. /\ a \in Seq(ToSet(p)) /\ Len(a) = Len(p) /\ \A n \in 1..Len(p) : a[n] = p[n]
  <2>1. \A n \in 1..Len(p) : p[n] \in ToSet(p)
    BY <1>1 DEF ToSet
  <2>2. /\ a \in Seq(ToSet(p))
        /\ Len(a) = IF 1 <= Len(p) THEN Len(p) - 1 + 1 ELSE 0
        /\ \A n \in 1..Len(p) - 1 + 1 : a[n] = p[1 + n - 1]
    BY <1>1, <2>1, SubSeqProperties
  <2>3. \A n \in 1..Len(p) : a[n] = p[n]
    BY <1>1, <2>2
  <2> QED BY <1>1, <2>2, <2>3
<1>3. ASSUME Len(p) <= Len(q)
      PROVE  b \in Seq(ToSet(q)) /\ Len(b) = Len(p) /\ \A n \in 1..Len(p) : b[n] = q[n]
  <2>1. \A n \in 1..Len(p) : q[n] \in ToSet(q)
    BY <1>1, <1>3 DEF ToSet
  <2>2. /\ b \in Seq(ToSet(q))
        /\ Len(b) = IF 1 <= Len(p) THEN Len(p) - 1 + 1 ELSE 0
        /\ \A n \in 1..Len(p) - 1 + 1 : b[n] = q[1 + n - 1]
    BY <1>1, <2>1, SubSeqProperties
  <2>3. \A n \in 1..Len(p) : b[n] = q[n]
    BY <1>1, <2>2
  <2> QED BY <1>1, <2>2, <2>3
<1>4. IsPrefix(p, q) <=> Len(p) <= Len(q) /\ a = b
  BY DEF IsPrefix
<1> HIDE DEF a, b
<1>5. ASSUME Len(p) <= Len(q), \A n \in 1..Len(p) : p[n] = q[n] PROVE a = b
  <2>1. IsSeq(a) /\ IsSeq(b) /\ Len(a) = Len(b) /\ \A n \in 1..Len(a) : a[n] = b[n]
    BY <1>2, <1>3, <1>5, SeqIn
  <2> QED BY <2>1, SeqEq
<1>6. ASSUME Len(p) <= Len(q), a = b PROVE \A n \in 1..Len(p) : p[n] = q[n]
  BY <1>2, <1>3, <1>6
<1> QED BY <1>4, <1>5, <1>6

\* One key more: the path and the key are what they were.
LEMMA PathAppend ==
  ASSUME NEW p, IsSeq(p), NEW k, NEW q, IsSeq(q), NEW l, Append(p, k) = Append(q, l)
  PROVE  p = q /\ k = l
<1> DEFINE r == Append(p, k)
           s == Append(q, l)
<1>0. r = s
  OBVIOUS
<1>1. /\ Len(r) = Len(p) + 1 /\ DOMAIN p = 1..Len(p) /\ Len(p) \in Nat
      /\ (\A n \in DOMAIN p : r[n] = p[n]) /\ r[Len(p) + 1] = k
  BY SeqAppend
<1>2. /\ Len(s) = Len(q) + 1 /\ DOMAIN q = 1..Len(q) /\ Len(q) \in Nat
      /\ (\A n \in DOMAIN q : s[n] = q[n]) /\ s[Len(q) + 1] = l
  BY SeqAppend
<1> HIDE DEF r, s
<1>3. Len(p) = Len(q)
  <2>1. Len(p) + 1 = Len(q) + 1
    BY <1>0, <1>1, <1>2
  <2>2. Len(p) \in Nat /\ Len(q) \in Nat
    BY <1>1, <1>2
  <2> QED BY <2>1, <2>2
<1>4. \A n \in 1..Len(p) : p[n] = q[n]
  BY <1>0, <1>1, <1>2, <1>3
<1> QED BY <1>0, <1>1, <1>2, <1>3, <1>4, SeqEq

\* A path is on the way to itself and to one key more, and not the other way.
LEMMA PathMore ==
  ASSUME NEW p, IsSeq(p), NEW k
  PROVE  /\ IsSeq(Append(p, k)) /\ Append(p, k) # << >> /\ Append(p, k) # p
         /\ IsPrefix(p, p) /\ IsPrefix(p, Append(p, k)) /\ ~IsPrefix(Append(p, k), p)
<1>1. /\ IsSeq(Append(p, k)) /\ Append(p, k) # << >>
      /\ Len(Append(p, k)) = Len(p) + 1 /\ DOMAIN p = 1..Len(p) /\ Len(p) \in Nat
      /\ \A n \in DOMAIN p : Append(p, k)[n] = p[n]
  BY SeqAppend
<1>2. IsPrefix(p, p)
  BY <1>1, PrefixIs
<1>3. IsPrefix(p, Append(p, k))
  <2>1. Len(p) <= Len(Append(p, k)) /\ \A n \in 1..Len(p) : p[n] = Append(p, k)[n]
    BY <1>1
  <2> HIDE <1>1
  <2>2. IsSeq(Append(p, k))
    BY <1>1
  <2> QED BY <2>1, <2>2, PrefixIs
<1>4. ~IsPrefix(Append(p, k), p)
  <2>1. ~(Len(Append(p, k)) <= Len(p))
    BY <1>1
  <2> QED BY <2>1 DEF IsPrefix
<1> QED BY <1>1, <1>2, <1>3, <1>4

\* What is on the way to a path is on the way to where that leads.
LEMMA PrefixTrans ==
  ASSUME NEW p, IsSeq(p), NEW q, IsSeq(q), NEW r, IsSeq(r), IsPrefix(p, q), IsPrefix(q, r)
  PROVE  IsPrefix(p, r)
<1>1. Len(p) \in Nat /\ Len(q) \in Nat /\ Len(r) \in Nat
  BY SeqIs
<1>2. Len(p) <= Len(q) /\ \A n \in 1..Len(p) : p[n] = q[n]
  BY PrefixIs
<1>3. Len(q) <= Len(r) /\ \A n \in 1..Len(q) : q[n] = r[n]
  BY PrefixIs
<1>4. Len(p) <= Len(r) /\ \A n \in 1..Len(p) : p[n] = r[n]
  BY <1>1, <1>2, <1>3
<1> QED BY <1>4, PrefixIs

\* What is on the way to one key more is on the way to the path, or all of it.
LEMMA PrefixAppend ==
  ASSUME NEW p, IsSeq(p), NEW k, NEW q, IsSeq(q), IsPrefix(q, Append(p, k))
  PROVE  IsPrefix(q, p) \/ q = Append(p, k)
<1> DEFINE r == Append(p, k)
<1>1. /\ IsSeq(r)
      /\ Len(r) = Len(p) + 1 /\ DOMAIN p = 1..Len(p) /\ Len(p) \in Nat
      /\ \A n \in DOMAIN p : r[n] = p[n]
  BY SeqAppend
<1> HIDE DEF r
<1>2. IsPrefix(q, r)
  BY DEF r
<1>3. Len(q) <= Len(r) /\ \A n \in 1..Len(q) : q[n] = r[n]
  BY <1>1, <1>2, PrefixIs
<1>4. Len(q) \in Nat
  BY SeqIs
<1>5. CASE Len(q) = Len(r)
  <2>1. q = r
    BY <1>1, <1>3, <1>5, SeqEq
  <2> QED BY <2>1 DEF r
<1>6. CASE Len(q) # Len(r)
  <2>1. Len(q) <= Len(p) /\ \A n \in 1..Len(q) : q[n] = p[n]
    BY <1>1, <1>3, <1>4, <1>6
  <2>2. IsPrefix(q, p)
    BY <2>1, PrefixIs
  <2> QED BY <2>2
<1> QED BY <1>5, <1>6

\* Two paths to one place, one of them not all the way: the next key is on the
\* way, and the last one leads there.
LEMMA PathStep ==
  ASSUME NEW p, IsSeq(p), NEW path, IsSeq(path), path # << >>
  PROVE  LET full == p \o path
             q == Append(p, Head(path))
         IN /\ IsSeq(full) /\ IsSeq(q) /\ IsPrefix(p, full) /\ IsPrefix(q, full)
            /\ Len(path) = 1 => full = q
            /\ Len(path) > 1 => /\ q # full /\ q \o Tail(path) = full
                                /\ IsSeq(Tail(path)) /\ Tail(path) # << >>
<1> DEFINE full == p \o path
           q == Append(p, Head(path))
           rest == Tail(path)
<1>1. /\ IsSeq(full) /\ Len(full) = Len(p) + Len(path) /\ Len(p) \in Nat /\ Len(path) \in Nat
      /\ \A n \in 1..Len(p) : full[n] = p[n]
      /\ \A n \in 1..Len(path) : full[Len(p) + n] = path[n]
  BY SeqConcat
<1>2. /\ IsSeq(rest) /\ Head(path) = path[1]
      /\ Len(rest) = Len(path) - 1 /\ Len(path) >= 1
      /\ \A n \in 1..Len(rest) : rest[n] = path[n + 1]
  BY SeqTail
<1>3. /\ IsSeq(q) /\ Len(q) = Len(p) + 1 /\ DOMAIN p = 1..Len(p)
      /\ (\A n \in DOMAIN p : q[n] = p[n]) /\ q[Len(p) + 1] = path[1]
  BY <1>2, SeqAppend
<1> HIDE DEF q, rest
<1>4. /\ IsSeq(q \o rest) /\ Len(q \o rest) = Len(q) + Len(rest)
      /\ \A n \in 1..Len(q) : (q \o rest)[n] = q[n]
      /\ \A n \in 1..Len(rest) : (q \o rest)[Len(q) + n] = rest[n]
  <2>1. IsSeq(q) /\ IsSeq(rest)
    BY <1>2, <1>3
  <2> QED BY <2>1, SeqConcat
<1> HIDE DEF full
<1>5. IsPrefix(p, full)
  <2>1. Len(p) <= Len(full) /\ \A n \in 1..Len(p) : p[n] = full[n]
    BY <1>1, <1>2
  <2> QED BY <1>1, <2>1, PrefixIs
<1>6. full[Len(p) + 1] = path[1]
  BY <1>1, <1>2
<1>7. \A n \in 1..Len(q) : q[n] = full[n]
  <2> TAKE n \in 1..Len(q)
  <2>1. n = Len(p) + 1 \/ n \in 1..Len(p)
    BY <1>1, <1>3
  <2> QED BY <1>1, <1>3, <1>6, <2>1
<1>8. IsPrefix(q, full)
  <2>1. Len(q) <= Len(full)
    BY <1>1, <1>2, <1>3
  <2> QED BY <1>1, <1>3, <1>7, <2>1, PrefixIs
<1>9. ASSUME Len(path) = 1 PROVE full = q
  <2>1. Len(full) = Len(q)
    BY <1>1, <1>3, <1>9
  <2> QED BY <1>1, <1>3, <1>7, <2>1, SeqEq
<1>10. ASSUME Len(path) > 1
       PROVE  q # full /\ q \o rest = full /\ rest # << >>
  <2>1. Len(q) # Len(full) /\ Len(rest) # 0
    BY <1>1, <1>2, <1>3, <1>10
  <2>2. rest # << >>
    BY <1>2, <2>1, SeqIs
  <2>3. Len(q \o rest) = Len(full)
    BY <1>1, <1>2, <1>3, <1>4
  <2>4. \A n \in 1..Len(full) : (q \o rest)[n] = full[n]
    <3> TAKE n \in 1..Len(full)
    <3>1. CASE n \in 1..Len(q)
      BY <1>4, <1>7, <3>1
    <3>2. CASE n \notin 1..Len(q)
      <4> DEFINE m == n - Len(q)
      <4>1. m \in 1..Len(rest) /\ n = Len(q) + m /\ m + 1 \in 1..Len(path) /\ n = Len(p) + (m + 1)
        BY <1>1, <1>2, <1>3, <3>2
      <4> HIDE DEF m
      <4> QED BY <1>1, <1>2, <1>4, <4>1
    <3> QED BY <3>1, <3>2
  <2>5. q \o rest = full
    BY <1>1, <1>4, <2>3, <2>4, SeqEq
  <2> QED BY <2>1, <2>2, <2>5
<1> QED BY <1>1, <1>2, <1>3, <1>5, <1>8, <1>9, <1>10 DEF full, q, rest

-----------------------------------------------------------------------------
(***************************************************************************)
(* Files: sequences of lines.                                              *)
(***************************************************************************)
IsText(text) == IsSeq(text) /\ \A i \in DOMAIN text : IsLine(text[i])

\* The header of a line is one of the lines up to it, and a header its own.
LEMMA HeaderPathIs ==
  ASSUME NEW text, IsText(text), NEW i \in 0..Len(text)
  PROVE  /\ IsSeq(HeaderPath(text, i))
         /\ i # 0 /\ text[i].type # "keyval" => HeaderPath(text, i) = text[i].path
         /\ i # 0 /\ text[i].type = "keyval" => HeaderPath(text, i) = HeaderPath(text, i - 1)
         /\ i = 0 => HeaderPath(text, i) = << >>
<1> DEFINE headers(n) == {j \in 1..n : text[j].type # "keyval"}
<1>1. Len(text) \in Nat /\ DOMAIN text = 1..Len(text) /\ i \in Nat
  BY SeqIs DEF IsText
<1>2. \A n : HeaderPath(text, n) = IF headers(n) = {} THEN << >> ELSE text[Max(headers(n))].path
  BY DEF HeaderPath
<1>3. headers(i) \in SUBSET (0..i)
  BY <1>1
<1>4. headers(i) # {} => Max(headers(i)) \in headers(i) /\ \A y \in headers(i) : y <= Max(headers(i))
  <2> HIDE DEF headers
  <2> QED BY <1>1, <1>3, MaxNat
<1>5. IsSeq(HeaderPath(text, i))
  <2>1. CASE headers(i) = {}
    <3>1. HeaderPath(text, i) = << >>
      BY <1>2, <2>1
    <3> QED BY <3>1, EmptySeq DEF IsSeq
  <2>2. CASE headers(i) # {}
    <3>1. Max(headers(i)) \in DOMAIN text
      BY <1>1, <1>4, <2>2
    <3>2. IsSeq(text[Max(headers(i))].path)
      BY <3>1 DEF IsText, IsLine
    <3> HIDE DEF headers
    <3> QED BY <1>2, <2>2, <3>2
  <2> QED BY <2>1, <2>2
<1>6. ASSUME i # 0, text[i].type # "keyval" PROVE HeaderPath(text, i) = text[i].path
  <2>1. i \in headers(i)
    BY <1>1, <1>6
  <2>2. Max(headers(i)) \in headers(i) /\ i <= Max(headers(i))
    <3> HIDE DEF headers
    <3> QED BY <1>4, <2>1
  <2>3. Max(headers(i)) \in 1..i
    BY <2>2
  <2>4. Max(headers(i)) = i
    <3> HIDE DEF headers
    <3> QED BY <1>1, <2>2, <2>3
  <2> HIDE DEF headers
  <2> QED BY <1>2, <2>1, <2>4
<1>7. ASSUME i # 0, text[i].type = "keyval" PROVE HeaderPath(text, i) = HeaderPath(text, i - 1)
  <2>1. headers(i) = headers(i - 1)
    BY <1>1, <1>7
  <2> HIDE DEF headers
  <2> QED BY <1>2, <2>1
<1>8. ASSUME i = 0 PROVE HeaderPath(text, i) = << >>
  <2>1. headers(i) = {}
    BY <1>8
  <2> HIDE DEF headers
  <2> QED BY <1>2, <2>1
<1> QED BY <1>5, <1>6, <1>7, <1>8

\* A line is below its header.
LEMMA FullPathIs ==
  ASSUME NEW text, IsText(text), NEW i \in DOMAIN text
  PROVE  /\ IsSeq(HeaderPath(text, i)) /\ IsSeq(FullPath(text, i))
         /\ text[i].type # "keyval" => FullPath(text, i) = text[i].path
         /\ text[i].type = "keyval" => /\ FullPath(text, i) = HeaderPath(text, i) \o text[i].path
                                       /\ IsPrefix(HeaderPath(text, i), FullPath(text, i))
<1>1. DOMAIN text = 1..Len(text) /\ Len(text) \in Nat
  BY SeqIs DEF IsText
<1>2. i \in 0..Len(text) /\ i # 0
  BY <1>1
<1>3. IsSeq(text[i].path) /\ text[i].path # << >>
  BY DEF IsText, IsLine
<1>4. /\ IsSeq(HeaderPath(text, i))
      /\ text[i].type # "keyval" => HeaderPath(text, i) = text[i].path
  BY <1>2, HeaderPathIs
<1>5. /\ IsSeq(HeaderPath(text, i) \o text[i].path)
      /\ IsPrefix(HeaderPath(text, i), HeaderPath(text, i) \o text[i].path)
  BY <1>3, <1>4, PathStep
<1> QED BY <1>4, <1>5 DEF FullPath

\* The lines of `text` are the first lines of `more`.
Begins(text, more) ==
  /\ IsText(text) /\ IsText(more) /\ Len(text) <= Len(more)
  /\ \A i \in DOMAIN text : more[i] = text[i]

\* Where a line belongs does not depend on the lines after it.
LEMMA BeginsIs ==
  ASSUME NEW text, NEW more, Begins(text, more)
  PROVE  /\ DOMAIN text \subseteq DOMAIN more
         /\ \A i \in 0..Len(text) : HeaderPath(more, i) = HeaderPath(text, i)
         /\ \A i \in DOMAIN text : FullPath(more, i) = FullPath(text, i)
         /\ \A i \in DOMAIN text : \A p : Passes(more, i, p) <=> Passes(text, i, p)
         /\ Independent(more) => Independent(text)
<1>1. /\ Len(text) \in Nat /\ Len(more) \in Nat /\ DOMAIN text = 1..Len(text) /\ DOMAIN more = 1..Len(more)
      /\ DOMAIN text \subseteq DOMAIN more
  <2>1. IsSeq(text) /\ IsSeq(more) /\ Len(text) <= Len(more)
    BY DEF Begins, IsText
  <2>2. Len(text) \in Nat /\ Len(more) \in Nat /\ DOMAIN text = 1..Len(text) /\ DOMAIN more = 1..Len(more)
    BY <2>1, SeqIs
  <2> QED BY <2>1, <2>2
<1>2. ASSUME NEW i \in 0..Len(text) PROVE HeaderPath(more, i) = HeaderPath(text, i)
  <2> DEFINE H == {j \in 1..i : text[j].type # "keyval"}
             G == {j \in 1..i : more[j].type # "keyval"}
  <2>1. \A j \in 1..i : more[j] = text[j]
    BY <1>1 DEF Begins
  <2>2. G = H
    BY <2>1
  <2>3. HeaderPath(text, i) = IF H = {} THEN << >> ELSE text[Max(H)].path
    BY DEF HeaderPath
  <2>4. HeaderPath(more, i) = IF G = {} THEN << >> ELSE more[Max(G)].path
    BY DEF HeaderPath
  <2>5. H # {} => Max(H) \in 1..i
    <3>1. H \in SUBSET (0..i) /\ i \in Nat
      BY <1>1
    <3>2. H # {} => Max(H) \in H
      <4> HIDE DEF H
      <4> QED BY <3>1, MaxNat
    <3> QED BY <3>2
  <2> HIDE DEF H, G
  <2> QED BY <2>1, <2>2, <2>3, <2>4, <2>5
<1>3. ASSUME NEW i \in DOMAIN text PROVE FullPath(more, i) = FullPath(text, i)
  <2>1. i \in 0..Len(text) /\ more[i] = text[i]
    BY <1>1 DEF Begins
  <2> QED BY <1>2, <2>1 DEF FullPath
<1>4. ASSUME NEW i \in DOMAIN text, NEW p PROVE Passes(more, i, p) <=> Passes(text, i, p)
  <2>1. i \in 0..Len(text) /\ more[i] = text[i]
    BY <1>1 DEF Begins
  <2> QED BY <1>2, <1>3, <2>1 DEF Passes
<1>5. ASSUME Independent(more) PROVE Independent(text)
  <2>1. \A i \in DOMAIN text : i \in DOMAIN more /\ more[i] = text[i]
    BY <1>1 DEF Begins
  <2>2. \A i \in DOMAIN text :
          /\ text[i].type \in {"table", "keyval"}
          /\ text[i].type = "keyval" => IsPlain(text[i].value)
          /\ text[i].type = "table"  => Len(text[i].path) <= MaxPath
    BY <1>5, <2>1 DEF Independent
  <2>3. ASSUME NEW i \in DOMAIN text, NEW j \in DOMAIN text, i # j
        PROVE  /\ text[i].type = "table" /\ text[j].type = "table" => text[i].path # text[j].path
               /\ text[i].type = "keyval" => ~IsPrefix(FullPath(text, i), FullPath(text, j))
               /\ text[j].type = "table" => ~Passes(text, i, text[j].path)
    <3>1. /\ i \in DOMAIN more /\ j \in DOMAIN more /\ more[i] = text[i] /\ more[j] = text[j]
          /\ FullPath(more, i) = FullPath(text, i) /\ FullPath(more, j) = FullPath(text, j)
          /\ Passes(more, i, text[j].path) <=> Passes(text, i, text[j].path)
      BY <1>3, <1>4, <2>1
    <3>2. /\ more[i].type = "table" /\ more[j].type = "table" => more[i].path # more[j].path
          /\ more[i].type = "keyval" => ~IsPrefix(FullPath(more, i), FullPath(more, j))
          /\ more[j].type = "table" => ~Passes(more, i, more[j].path)
      BY <1>5, <2>3, <3>1 DEF Independent
    <3> QED BY <3>1, <3>2
  <2> QED BY <2>2, <2>3 DEF Independent
<1> QED BY <1>1, <1>2, <1>3, <1>4, <1>5

\* One line more.
LEMMA LineMore ==
  ASSUME NEW text, IsText(text), NEW line, IsLine(line)
  PROVE  LET more == Append(text, line)
         IN /\ Begins(text, more) /\ more # << >>
            /\ Len(more) = Len(text) + 1 /\ Len(more) \in DOMAIN more /\ more[Len(more)] = line
<1> DEFINE more == Append(text, line)
<1>1. /\ IsSeq(more) /\ more # << >>
      /\ Len(more) = Len(text) + 1 /\ DOMAIN more = 1..Len(text) + 1 /\ DOMAIN text = 1..Len(text) /\ Len(text) \in Nat
      /\ \A n \in DOMAIN text : more[n] = text[n]
      /\ more[Len(text) + 1] = line
  BY SeqAppend DEF IsText
<1> HIDE DEF more
<1>2. \A i \in DOMAIN more : IsLine(more[i])
  <2> TAKE i \in DOMAIN more
  <2>1. i \in DOMAIN text \/ i = Len(text) + 1
    BY <1>1
  <2> QED BY <1>1, <2>1 DEF IsText
<1>3. Len(text) <= Len(more) /\ Len(more) \in DOMAIN more
  BY <1>1
<1> QED BY <1>1, <1>2, <1>3 DEF Begins, IsText, more

-----------------------------------------------------------------------------
(***************************************************************************)
(* The labelled tree.  For a file of independent lines, each table has the *)
(* path of keys that leads to it: P[t].                                    *)
(***************************************************************************)
\* Table t has an entry for k.
Edge(h, t, k, ref) ==
  \E n \in DOMAIN h.table[t].entry : h.table[t].entry[n].key = k /\ h.table[t].entry[n].ref = ref

\* P labels the tables of h: no two alike, and with a table all those on the
\* way to it.  No table is closed.
Shape(h, P) ==
  /\ DOMAIN P = DOMAIN h.table /\ 1 \in DOMAIN P /\ P[1] = << >>
  /\ \A t \in DOMAIN P : IsSeq(P[t]) /\ ~h.table[t].readonly
  /\ \A t \in DOMAIN P : \A k, ref : Edge(h, t, k, ref) /\ ref.kind = "t" =>
       ref.to \in DOMAIN P /\ P[ref.to] = Append(P[t], k)
  /\ \A u \in DOMAIN P : u # 1 => \E t \in DOMAIN P : \E k : Edge(h, t, k, Ref("t", u))
  /\ \A t, u \in DOMAIN P : P[t] = P[u] => t = u
  /\ \A u \in DOMAIN P : \A p : IsSeq(p) /\ IsPrefix(p, P[u]) => \E t \in DOMAIN P : P[t] = p

\* Array a holds the values of `elements`, but those that are still to come.
Holds(h, a, elements, todo) ==
  LET item == h.array[a].item
  IN /\ Len(item) + Len(todo) = Len(elements)
     /\ \A n \in DOMAIN item : item[n] = Ref("v", elements[n].val)
     /\ \A n \in DOMAIN todo : todo[n] = elements[Len(item) + n]

\* What a value has become, while array b is still to take the elements `todo`.
Gives(h, ref, value, b, todo) ==
  \/ ref.kind = "v" /\ value.type = "value" /\ ref.to = value.val
  \/ /\ ref.kind = "a" /\ value.type = "array" /\ ref.to \in DOMAIN h.array
     /\ Holds(h, ref.to, value.elements, IF ref.to = b THEN todo ELSE << >>)

\* The value of line i is the entry of a key.
Lands(P, text, i, t, k) ==
  text[i].type = "keyval" /\ FullPath(text, i) = Append(P[t], k)

\* The tree is that of the first m lines of the text and of the way to line m + 1.
Means(h, P, text, m, b, todo) ==
  /\ \A t \in DOMAIN P : \A k, ref : Edge(h, t, k, ref) /\ ref.kind # "t" =>
       \E i \in 1..m : Lands(P, text, i, t, k) /\ Gives(h, ref, text[i].value, b, todo)
  /\ \A u \in DOMAIN P : u # 1 /\ ~h.table[u].implicit =>
       \/ \E i \in 1..m : text[i].type = "table" /\ text[i].path = P[u]
       \/ \E i \in DOMAIN text : Passes(text, i, P[u])
  /\ \A u \in DOMAIN P : u # 1 =>
       \E i \in DOMAIN text : /\ IsPrefix(P[u], FullPath(text, i))
                              /\ text[i].type = "keyval" => P[u] # FullPath(text, i)
  /\ \A i \in 1..m :
       /\ text[i].type = "keyval" =>
            \E t \in DOMAIN P : \E k, ref : Edge(h, t, k, ref) /\ ref.kind # "t" /\ Lands(P, text, i, t, k)
       /\ text[i].type = "table" => \E t \in DOMAIN P : P[t] = text[i].path

\* The walk along the header that is the last line.
OnHeader(h, P, text, call) ==
  LET c == Len(text)
  IN /\ call.in = "walk_tabpath" /\ text[c].type = "table" /\ call.todo = "table"
     /\ call.at \in DOMAIN P /\ IsSeq(call.path) /\ call.path # << >>
     /\ P[call.at] \o call.path = FullPath(text, c)
     /\ Means(h, P, text, c - 1, 0, << >>)

\* The way along the key of the last line.
OnKey(h, P, text, call) ==
  LET c == Len(text)
  IN /\ call.in = "parse_keyval" /\ text[c].type = "keyval" /\ call.todo = text[c].value
     /\ call.at \in DOMAIN P /\ IsSeq(call.path) /\ call.path # << >>
     /\ P[call.at] \o call.path = FullPath(text, c)
     /\ IsPrefix(HeaderPath(text, c), P[call.at])
     /\ Means(h, P, text, c - 1, 0, << >>)

\* The array that is the value of the last line.
OnArray(h, P, text, call) ==
  LET c == Len(text)
  IN /\ call.in = "parse_array" /\ text[c].type = "keyval"
     /\ call.at \in DOMAIN h.array
     /\ IsSeq(call.todo) /\ \A n \in DOMAIN call.todo : call.todo[n].type = "value"
     /\ Means(h, P, text, c, call.at, call.todo)

\* The table that keys go to is that of the header, but while a header is read.
AtHeader(P, text, cur) == P[cur] = HeaderPath(text, Len(text))

\* The tree of the lines read so far.
IsTree(h, P, text, cur, s) ==
  /\ Shape(h, P)
  /\ \/ s = << >> /\ AtHeader(P, text, cur) /\ Means(h, P, text, Len(text), 0, << >>)
     \/ \E f : /\ s = <<f>> /\ text # << >>
               /\ \/ OnHeader(h, P, text, f)
                  \/ AtHeader(P, text, cur) /\ (OnKey(h, P, text, f) \/ OnArray(h, P, text, f))

TreeInv ==
  /\ IsText(read)
  /\ status = "parsed" => stack = << >>
  /\ Independent(read) => status # "failed" /\ \E P : IsTree(heap, P, read, curtab, stack)

-----------------------------------------------------------------------------
(***************************************************************************)
(* The builders, by the entries they make.                                 *)
(***************************************************************************)
\* Heap g is h with one entry more in table t, and with what it refers to.
Enters(h, g, t, k, ref) ==
  /\ DOMAIN g.table = DOMAIN h.table \cup (IF ref.kind = "t" THEN {ref.to} ELSE {})
  /\ DOMAIN g.array = DOMAIN h.array \cup (IF ref.kind = "a" THEN {ref.to} ELSE {})
  /\ ref.kind = "t" => ref.to \notin DOMAIN h.table /\ ~g.table[ref.to].readonly
  /\ ref.kind = "a" => ref.to \notin DOMAIN h.array /\ g.array[ref.to].item = << >>
  /\ \A u \in DOMAIN h.table : /\ g.table[u].implicit = h.table[u].implicit
                               /\ g.table[u].readonly = h.table[u].readonly
  /\ \A a \in DOMAIN h.array : g.array[a] = h.array[a]
  /\ \A u \in DOMAIN g.table : \A l, r :
       Edge(g, u, l, r) <=> (u \in DOMAIN h.table /\ Edge(h, u, l, r)) \/ (u = t /\ l = k /\ r = ref)

\* check_key finds the one entry of the key, if there is one.
LEMMA check_keyEdge ==
  ASSUME NEW h, IsHeap(h), NEW t \in DOMAIN h.table, NEW key
  PROVE  LET old == check_key(h, t, key)
         IN /\ \/ old = NoRef /\ old.kind = "none" /\ \A ref : ~Edge(h, t, key, ref)
               \/ Edge(h, t, key, old) /\ IsRef(h, old) /\ old.kind # "none" /\ old # NoRef
            /\ \A p, q : Edge(h, t, key, p) /\ Edge(h, t, key, q) => p = q
<1> DEFINE entry == h.table[t].entry
           found == {n \in DOMAIN entry : entry[n].key = key}
           old == check_key(h, t, key)
<1>1. IsTable(h, t) /\ IsSeq(entry)
  BY DEF IsHeap, IsTable
<1>2. \A p, q : Edge(h, t, key, p) /\ Edge(h, t, key, q) => p = q
  BY <1>1 DEF IsTable, Edge
<1>3. CASE found = {}
  <2>1. old = NoRef /\ old.kind = "none"
    BY <1>3 DEF check_key, NoRef, Ref
  <2>2. \A ref : ~Edge(h, t, key, ref)
    BY <1>3 DEF Edge
  <2> QED BY <1>2, <2>1, <2>2
<1>4. CASE found # {}
  <2>1. DOMAIN entry = 1..Len(entry) /\ Len(entry) \in Nat
    BY <1>1, SeqIs
  <2>2. \E n \in found : \A m \in found : n <= m
    <3>1. found \in SUBSET Nat
      BY <2>1
    <3> HIDE DEF found
    <3> QED BY <1>4, <3>1, MinNat
  <2>3. PICK n \in found : n = CHOOSE k \in found : \A m \in found : k <= m
    BY <2>2
  <2>4. old = entry[n].ref
    BY <1>4, <2>3 DEF check_key
  <2>5. Edge(h, t, key, old)
    BY <2>3, <2>4 DEF Edge
  <2>6. IsRef(h, old)
    BY <1>1, <2>3, <2>4 DEF IsTable
  <2>7. old.kind # "none" /\ old # NoRef
    BY <2>6 DEF IsRef, NoRef, Ref
  <2> QED BY <1>2, <2>5, <2>6, <2>7
<1> QED BY <1>3, <1>4

\* The fields of the heap after an entry.
LEMMA EnterFields ==
  ASSUME NEW h, IsHeap(h), NEW t \in DOMAIN h.table, NEW key, NEW ref
  PROVE  LET x == h.table[t]
             y == [implicit |-> x.implicit, readonly |-> x.readonly,
                   entry |-> Append(x.entry, [key |-> key, ref |-> ref])]
             h2 == Enter(h, t, key, ref)
         IN /\ h2.table = [h.table EXCEPT ![t] = y] /\ h2.array = h.array
            /\ h2 = [table |-> h2.table, array |-> h2.array]
<1> DEFINE x == h.table[t]
           E == Append(x.entry, [key |-> key, ref |-> ref])
           y == [implicit |-> x.implicit, readonly |-> x.readonly, entry |-> E]
           T == [h.table EXCEPT ![t] = y]
           h2 == Enter(h, t, key, ref)
<1> SUFFICES h2.table = T /\ h2.array = h.array /\ h2 = [table |-> h2.table, array |-> h2.array]
  OBVIOUS
<1>1. x = [implicit |-> x.implicit, readonly |-> x.readonly, entry |-> x.entry]
  BY DEF IsHeap, IsTable
<1>2. [x EXCEPT !.entry = E] = y
  <2> HIDE DEF x, E
  <2> QED BY <1>1
<1>3. h2 = [h EXCEPT !.table = [h.table EXCEPT ![t] = [x EXCEPT !.entry = E]]]
  BY DEF Enter
<1> HIDE DEF y, E, x, h2
<1>4. h2 = [h EXCEPT !.table = T]
  BY <1>2, <1>3
<1> HIDE DEF T
<1>5. h = [table |-> h.table, array |-> h.array]
  BY DEF IsHeap
<1> QED BY <1>4, <1>5

\* An entry more, and what it refers to is there.
LEMMA EnterEdge ==
  ASSUME NEW h, IsHeap(h), NEW t \in DOMAIN h.table, NEW key, NEW ref
  PROVE  LET g == Enter(h, t, key, ref)
         IN /\ DOMAIN g.table = DOMAIN h.table /\ g.array = h.array
            /\ \A u \in DOMAIN h.table : /\ g.table[u].implicit = h.table[u].implicit
                                         /\ g.table[u].readonly = h.table[u].readonly
            /\ \A u \in DOMAIN h.table : \A l, r :
                 Edge(g, u, l, r) <=> Edge(h, u, l, r) \/ (u = t /\ l = key /\ r = ref)
<1> DEFINE x == h.table[t]
           last == [key |-> key, ref |-> ref]
           E == Append(x.entry, last)
           y == [implicit |-> x.implicit, readonly |-> x.readonly, entry |-> E]
           g == Enter(h, t, key, ref)
<1>1. g.table = [h.table EXCEPT ![t] = y] /\ g.array = h.array
  BY EnterFields
<1>2. /\ DOMAIN E = 1..Len(x.entry) + 1 /\ DOMAIN x.entry = 1..Len(x.entry) /\ Len(x.entry) \in Nat
      /\ \A n \in DOMAIN x.entry : E[n] = x.entry[n]
      /\ E[Len(x.entry) + 1] = last
  BY SeqAppend DEF IsHeap, IsTable
<1>3. last.key = key /\ last.ref = ref
  OBVIOUS
<1>4. y.implicit = x.implicit /\ y.readonly = x.readonly /\ y.entry = E
  OBVIOUS
<1> HIDE DEF E, y, g, last
<1>5. /\ DOMAIN g.table = DOMAIN h.table
      /\ \A u \in DOMAIN h.table : g.table[u] = IF u = t THEN y ELSE h.table[u]
  BY <1>1
<1>6. ASSUME NEW l, NEW r
      PROVE  (\E n \in DOMAIN E : E[n].key = l /\ E[n].ref = r)
               <=> (\E n \in DOMAIN x.entry : x.entry[n].key = l /\ x.entry[n].ref = r) \/ (l = key /\ r = ref)
  <2>1. \A n \in DOMAIN E : n \in DOMAIN x.entry \/ n = Len(x.entry) + 1
    BY <1>2
  <2>2. Len(x.entry) + 1 \in DOMAIN E /\ \A n \in DOMAIN x.entry : n \in DOMAIN E
    BY <1>2
  <2> HIDE DEF x
  <2> QED BY <1>2, <1>3, <2>1, <2>2
<1>7. \A u \in DOMAIN h.table : \A l, r :
        Edge(g, u, l, r) <=> Edge(h, u, l, r) \/ (u = t /\ l = key /\ r = ref)
  BY <1>4, <1>5, <1>6 DEF Edge
<1> QED BY <1>1, <1>4, <1>5, <1>7 DEF g

\* A value of a key that was not there.
LEMMA create_keyvalEdge ==
  ASSUME NEW h, IsHeap(h), NEW t \in DOMAIN h.table, NEW key, NEW val, check_key(h, t, key) = NoRef
  PROVE  LET r == create_keyval_in_table(h, t, key, val)
         IN r.ok /\ Enters(h, r.heap, t, key, Ref("v", val))
<1> DEFINE r == create_keyval_in_table(h, t, key, val)
           ref == Ref("v", val)
           g == Enter(h, t, key, ref)
<1>1. r.ok /\ r.heap = g
  BY DEF create_keyval_in_table, Done
<1>2. /\ DOMAIN g.table = DOMAIN h.table /\ g.array = h.array
      /\ \A u \in DOMAIN h.table : /\ g.table[u].implicit = h.table[u].implicit
                                   /\ g.table[u].readonly = h.table[u].readonly
      /\ \A u \in DOMAIN h.table : \A l, q :
           Edge(g, u, l, q) <=> Edge(h, u, l, q) \/ (u = t /\ l = key /\ q = ref)
  BY EnterEdge
<1>3. ref.kind = "v"
  BY DEF Ref
<1> HIDE DEF g, ref
<1>4. Enters(h, g, t, key, ref)
  BY <1>2, <1>3 DEF Enters
<1> HIDE DEF r
<1>5. r.ok /\ Enters(h, r.heap, t, key, ref)
  BY <1>1, <1>4
<1> QED BY <1>5 DEF r, ref

\* A new array for a key that was not there.
LEMMA create_keyarrayEdge ==
  ASSUME NEW h, IsHeap(h), NEW t \in DOMAIN h.table, NEW key, NEW kind, check_key(h, t, key) = NoRef
  PROVE  LET r == create_keyarray_in_table(h, t, key, kind)
         IN r.ok /\ Enters(h, r.heap, t, key, Ref("a", r.at))
<1> DEFINE r == create_keyarray_in_table(h, t, key, kind)
           new == Len(h.array) + 1
           ref == Ref("a", new)
           h1 == AddArray(h, kind)
           g == Enter(h1, t, key, ref)
<1>1. r.ok /\ r.heap = g /\ r.at = new
  BY DEF create_keyarray_in_table, Done
<1>2. /\ IsHeap(h1) /\ h1.table = h.table
      /\ new \notin DOMAIN h.array /\ DOMAIN h1.array = DOMAIN h.array \cup {new}
      /\ \A u \in DOMAIN h.array : h1.array[u] = h.array[u]
      /\ h1.array[new] = [kind |-> kind, item |-> << >>]
  BY AddArrayIs
<1>3. ref.kind = "a" /\ ref.to = new
  BY DEF Ref
<1> HIDE DEF h1, ref, g, new
<1>4. /\ DOMAIN g.table = DOMAIN h1.table /\ g.array = h1.array
      /\ \A u \in DOMAIN h1.table : /\ g.table[u].implicit = h1.table[u].implicit
                                    /\ g.table[u].readonly = h1.table[u].readonly
      /\ \A u \in DOMAIN h1.table : \A l, q :
           Edge(g, u, l, q) <=> Edge(h1, u, l, q) \/ (u = t /\ l = key /\ q = ref)
  BY <1>2, EnterEdge DEF g
<1>5. \A u, l, q : Edge(h1, u, l, q) <=> Edge(h, u, l, q)
  BY <1>2 DEF Edge
<1>6. Enters(h, g, t, key, ref)
  BY <1>2, <1>3, <1>4, <1>5 DEF Enters
<1> HIDE DEF r
<1>7. r.ok /\ Enters(h, r.heap, t, key, Ref("a", r.at))
  BY <1>1, <1>6 DEF ref
<1> QED BY <1>7 DEF r

\* A new table for a key that was not there, made by the way or for itself.
LEMMA NewTableEdge ==
  ASSUME NEW h, IsHeap(h), NEW t \in DOMAIN h.table, 1 \in DOMAIN h.table, NEW key, NEW b \in BOOLEAN
  PROVE  LET new == Len(h.table) + 1
             g == Enter(AddTable(h, b), t, key, Ref("t", new))
         IN Enters(h, g, t, key, Ref("t", new)) /\ g.table[new].implicit = b
<1> DEFINE new == Len(h.table) + 1
           ref == Ref("t", new)
           h1 == AddTable(h, b)
           g == Enter(h1, t, key, ref)
<1>1. /\ IsHeap(h1) /\ h1.array = h.array
      /\ new \notin DOMAIN h.table /\ DOMAIN h1.table = DOMAIN h.table \cup {new}
      /\ \A u \in DOMAIN h.table : h1.table[u] = h.table[u]
      /\ h1.table[new] = NewTable(b)
  BY AddTableIs
<1>2. ref.kind = "t" /\ ref.to = new
  BY DEF Ref
<1> HIDE DEF h1, ref, g, new
<1>3. /\ DOMAIN g.table = DOMAIN h1.table /\ g.array = h1.array
      /\ \A u \in DOMAIN h1.table : /\ g.table[u].implicit = h1.table[u].implicit
                                    /\ g.table[u].readonly = h1.table[u].readonly
      /\ \A u \in DOMAIN h1.table : \A l, q :
           Edge(g, u, l, q) <=> Edge(h1, u, l, q) \/ (u = t /\ l = key /\ q = ref)
  BY <1>1, EnterEdge DEF g
<1>4. NewTable(b).implicit = b /\ NewTable(b).readonly = FALSE /\ DOMAIN NewTable(b).entry = {}
  BY DEF NewTable
<1>5. \A l, q : ~Edge(h1, new, l, q)
  BY <1>1, <1>4 DEF Edge
<1>6. \A u \in DOMAIN h.table : \A l, q : Edge(h1, u, l, q) <=> Edge(h, u, l, q)
  BY <1>1 DEF Edge
<1>7. g.table[new].implicit = b /\ ~g.table[new].readonly
  BY <1>1, <1>3, <1>4
<1>8. Enters(h, g, t, key, ref)
  <2>1. \A u \in DOMAIN g.table : \A l, q :
          Edge(g, u, l, q) <=> (u \in DOMAIN h.table /\ Edge(h, u, l, q)) \/ (u = t /\ l = key /\ q = ref)
    BY <1>1, <1>3, <1>5, <1>6
  <2>2. \A u \in DOMAIN h.table : /\ g.table[u].implicit = h.table[u].implicit
                                  /\ g.table[u].readonly = h.table[u].readonly
    BY <1>1, <1>3
  <2> QED BY <1>1, <1>2, <1>3, <1>7, <2>1, <2>2 DEF Enters
<1> QED BY <1>7, <1>8 DEF g, h1, ref, new

\* Heap g is h with table u taken over.
TakenOver(h, g, u) ==
  /\ DOMAIN g.table = DOMAIN h.table /\ g.array = h.array
  /\ \A w \in DOMAIN h.table : /\ w # u => g.table[w].implicit = h.table[w].implicit
                               /\ g.table[w].readonly = h.table[w].readonly
  /\ \A w \in DOMAIN h.table : \A l, r : Edge(g, w, l, r) <=> Edge(h, w, l, r)

\* The table of a key: new, or taken over.
LEMMA create_keytableEdge ==
  ASSUME NEW h, IsHeap(h), NEW t \in DOMAIN h.table, 1 \in DOMAIN h.table, NEW key
  PROVE  LET r == create_keytable_in_table(h, t, key)
             old == check_key(h, t, key)
         IN /\ old = NoRef => r.ok /\ Enters(h, r.heap, t, key, Ref("t", r.at))
            /\ old.kind = "t" /\ h.table[old.to].implicit =>
                 r.ok /\ r.at = old.to /\ TakenOver(h, r.heap, old.to)
<1> DEFINE r == create_keytable_in_table(h, t, key)
           old == check_key(h, t, key)
           new == Len(h.table) + 1
<1>1. ASSUME old = NoRef PROVE r.ok /\ Enters(h, r.heap, t, key, Ref("t", r.at))
  <2> DEFINE g == Enter(AddTable(h, FALSE), t, key, Ref("t", new))
  <2>1. r.ok /\ r.heap = g /\ r.at = new
    BY <1>1 DEF create_keytable_in_table, Done
  <2>2. Enters(h, g, t, key, Ref("t", new))
    BY NewTableEdge
  <2> HIDE DEF g, r, new
  <2> QED BY <2>1, <2>2
<1>2. ASSUME old.kind = "t", h.table[old.to].implicit
      PROVE  r.ok /\ r.at = old.to /\ TakenOver(h, r.heap, old.to)
  <2> DEFINE x == h.table[old.to]
             y == [implicit |-> FALSE, readonly |-> x.readonly, entry |-> x.entry]
             g == [h EXCEPT !.table = [h.table EXCEPT ![old.to] = y]]
  <2>1. IsRef(h, old) /\ old # NoRef
    BY <1>2, check_keyEdge DEF NoRef, Ref
  <2>2. r.ok /\ r.at = old.to /\ r.heap = [h EXCEPT !.table[old.to].implicit = FALSE]
    BY <1>2, <2>1 DEF create_keytable_in_table, TakesOver, Done
  <2>3. old.to \in DOMAIN h.table
    BY <1>2, <2>1 DEF IsRef
  <2>4. IsTable(h, old.to)
    BY <2>3 DEF IsHeap
  <2>5. [x EXCEPT !.implicit = FALSE] = y
    BY <2>4, TableFields DEF IsTable
  <2>6. r.heap = g
    <3>1. r.heap = [h EXCEPT !.table = [h.table EXCEPT ![old.to] = [x EXCEPT !.implicit = FALSE]]]
      BY <2>2
    <3> QED BY <2>5, <3>1
  <2>7. y.readonly = x.readonly /\ y.entry = x.entry
    OBVIOUS
  <2> HIDE DEF y
  <2>8. /\ DOMAIN g.table = DOMAIN h.table /\ g.array = h.array
        /\ \A w \in DOMAIN h.table : g.table[w] = IF w = old.to THEN y ELSE h.table[w]
    <3>1. h = [table |-> h.table, array |-> h.array]
      BY DEF IsHeap
    <3> DEFINE T == [h.table EXCEPT ![old.to] = y]
    <3>2. DOMAIN T = DOMAIN h.table /\ \A w \in DOMAIN h.table : T[w] = IF w = old.to THEN y ELSE h.table[w]
      OBVIOUS
    <3>3. g = [h EXCEPT !.table = T]
      OBVIOUS
    <3> HIDE DEF T, g
    <3>4. g.table = T /\ g.array = h.array
      BY <3>1, <3>3
    <3> QED BY <3>2, <3>4
  <2> HIDE DEF g, r, old
  <2>9. TakenOver(h, g, old.to)
    BY <2>7, <2>8 DEF TakenOver, Edge
  <2> QED BY <2>2, <2>6, <2>9
<1> QED BY <1>1, <1>2

\* A turn of the loop: to the table that is there, or to a new one.
LEMMA TableOfKeyEdge ==
  ASSUME NEW h, IsHeap(h), NEW t \in DOMAIN h.table, 1 \in DOMAIN h.table, NEW key
  PROVE  LET r == TableOfKey(h, t, key)
             old == check_key(h, t, key)
         IN /\ old = NoRef => /\ r.ok /\ Enters(h, r.heap, t, key, Ref("t", r.at))
                              /\ r.heap.table[r.at].implicit
            /\ old.kind = "t" => r.ok /\ r.heap = h /\ r.at = old.to
<1> DEFINE r == TableOfKey(h, t, key)
           old == check_key(h, t, key)
           new == Len(h.table) + 1
<1>1. ASSUME old = NoRef
      PROVE  r.ok /\ Enters(h, r.heap, t, key, Ref("t", r.at)) /\ r.heap.table[r.at].implicit
  <2> DEFINE g == Enter(AddTable(h, TRUE), t, key, Ref("t", new))
  <2>1. r.ok /\ r.heap = g /\ r.at = new
    BY <1>1 DEF TableOfKey, Done, NoRef, Ref
  <2>2. Enters(h, g, t, key, Ref("t", new)) /\ g.table[new].implicit = TRUE
    BY NewTableEdge
  <2> HIDE DEF g, r, new
  <2> QED BY <2>1, <2>2
<1>2. ASSUME old.kind = "t" PROVE r.ok /\ r.heap = h /\ r.at = old.to
  BY <1>2 DEF TableOfKey, Done
<1> QED BY <1>1, <1>2

-----------------------------------------------------------------------------
(***************************************************************************)
(* The labels and the meaning, entry by entry.                             *)
(***************************************************************************)
\* Labels Q are P and that of a new table, one key further.
Labels(P, Q, t, k, ref) ==
  /\ DOMAIN Q = DOMAIN P \cup (IF ref.kind = "t" THEN {ref.to} ELSE {})
  /\ \A u \in DOMAIN P : Q[u] = P[u]
  /\ ref.kind = "t" => Q[ref.to] = Append(P[t], k)

\* There are such labels.
LEMMA LabelsExist ==
  ASSUME NEW P, NEW t, NEW k, NEW ref, ref.kind = "t" => ref.to \notin DOMAIN P
  PROVE  \E Q : Labels(P, Q, t, k, ref)
<1> DEFINE Q == [u \in DOMAIN P \cup (IF ref.kind = "t" THEN {ref.to} ELSE {}) |->
                  IF u \in DOMAIN P THEN P[u] ELSE Append(P[t], k)]
<1>1. Labels(P, Q, t, k, ref)
  BY DEF Labels
<1> QED BY <1>1

\* A new entry leaves the tables and their labels in order.
LEMMA ShapeEnters ==
  ASSUME NEW h, NEW P, Shape(h, P), NEW g, NEW t \in DOMAIN P, NEW k, NEW ref,
         Enters(h, g, t, k, ref), \A r : ~Edge(h, t, k, r), ref = Ref(ref.kind, ref.to),
         NEW Q, Labels(P, Q, t, k, ref)
  PROVE  Shape(g, Q)
<1> DEFINE q == Append(P[t], k)
<1>0. /\ DOMAIN Q = DOMAIN P \cup (IF ref.kind = "t" THEN {ref.to} ELSE {})
      /\ \A u \in DOMAIN P : Q[u] = P[u]
      /\ ref.kind = "t" => Q[ref.to] = q
  BY DEF Labels
<1>1. /\ DOMAIN P \subseteq DOMAIN Q /\ \A u \in DOMAIN P : Q[u] = P[u]
      /\ \A u \in DOMAIN Q : u \notin DOMAIN P => ref.kind = "t" /\ u = ref.to /\ Q[u] = q
  <2> HIDE DEF q
  <2> QED BY <1>0
<1>2. /\ DOMAIN P = DOMAIN h.table /\ 1 \in DOMAIN P /\ P[1] = << >>
      /\ \A u \in DOMAIN P : IsSeq(P[u]) /\ ~h.table[u].readonly
      /\ \A u \in DOMAIN P : \A l, r : Edge(h, u, l, r) /\ r.kind = "t" =>
           r.to \in DOMAIN P /\ P[r.to] = Append(P[u], l)
      /\ \A u \in DOMAIN P : u # 1 => \E w \in DOMAIN P : \E l : Edge(h, w, l, Ref("t", u))
      /\ \A u, w \in DOMAIN P : P[u] = P[w] => u = w
      /\ \A u \in DOMAIN P : \A p : IsSeq(p) /\ IsPrefix(p, P[u]) => \E w \in DOMAIN P : P[w] = p
  BY DEF Shape
<1>3. /\ DOMAIN g.table = DOMAIN h.table \cup (IF ref.kind = "t" THEN {ref.to} ELSE {})
      /\ ref.kind = "t" => ref.to \notin DOMAIN h.table /\ ~g.table[ref.to].readonly
      /\ \A u \in DOMAIN h.table : g.table[u].readonly = h.table[u].readonly
      /\ \A u \in DOMAIN g.table : \A l, r :
           Edge(g, u, l, r) <=> (u \in DOMAIN h.table /\ Edge(h, u, l, r)) \/ (u = t /\ l = k /\ r = ref)
  BY DEF Enters
<1>4. IsSeq(P[t]) /\ IsSeq(q) /\ q # << >>
  BY <1>2, PathMore
<1>5. \A u \in DOMAIN P : P[u] # q
  <2> SUFFICES ASSUME NEW u \in DOMAIN P, P[u] = q PROVE FALSE
    OBVIOUS
  <2>1. u # 1
    BY <1>2, <1>4
  <2>2. PICK w \in DOMAIN P : \E l : Edge(h, w, l, Ref("t", u))
    BY <1>2, <2>1
  <2>6. PICK l : Edge(h, w, l, Ref("t", u))
    BY <2>2
  <2>3. Ref("t", u).kind = "t" /\ Ref("t", u).to = u
    BY DEF Ref
  <2>4. P[u] = Append(P[w], l)
    BY <1>2, <2>6, <2>3
  <2>7. IsSeq(P[w]) /\ Append(P[w], l) = Append(P[t], k)
    BY <1>2, <2>4
  <2>5. P[w] = P[t] /\ l = k
    BY <1>4, <2>7, PathAppend
  <2> QED BY <1>2, <2>6, <2>5
<1>6. \A u \in DOMAIN Q : u \in DOMAIN P \/ (ref.kind = "t" /\ u = ref.to /\ u \notin DOMAIN P /\ Q[u] = q)
  <2> HIDE DEF q
  <2> QED BY <1>1
<1>7. DOMAIN Q = DOMAIN g.table /\ 1 \in DOMAIN Q /\ Q[1] = << >>
  BY <1>0, <1>1, <1>2, <1>3
<1>8. \A u \in DOMAIN Q : IsSeq(Q[u]) /\ ~g.table[u].readonly
  <2> HIDE DEF q
  <2> QED BY <1>1, <1>2, <1>3, <1>4, <1>6
<1>9. ref.kind = "t" => ref.to \in DOMAIN Q /\ Q[ref.to] = q
  BY <1>0
<1>10. ASSUME NEW u \in DOMAIN Q, NEW l, NEW r, Edge(g, u, l, r), r.kind = "t"
       PROVE  r.to \in DOMAIN Q /\ Q[r.to] = Append(Q[u], l)
  <2>1. CASE u \in DOMAIN h.table /\ Edge(h, u, l, r)
    <3>1. r.to \in DOMAIN P /\ P[r.to] = Append(P[u], l) /\ u \in DOMAIN P
      BY <1>2, <1>10, <2>1
    <3> QED BY <1>1, <3>1
  <2>2. CASE u = t /\ l = k /\ r = ref
    BY <1>1, <1>9, <1>10, <2>2
  <2> QED BY <1>3, <1>7, <1>10, <2>1, <2>2
<1>11. ASSUME NEW u \in DOMAIN Q, u # 1 PROVE \E w \in DOMAIN Q : \E l : Edge(g, w, l, Ref("t", u))
  <2>1. CASE u \in DOMAIN P
    <3>1. PICK w \in DOMAIN P : \E l : Edge(h, w, l, Ref("t", u))
      BY <1>2, <1>11, <2>1
    <3>3. PICK l : Edge(h, w, l, Ref("t", u))
      BY <3>1
    <3>2. w \in DOMAIN Q /\ Edge(g, w, l, Ref("t", u))
      BY <1>1, <1>2, <1>3, <1>7, <3>3
    <3> QED BY <3>2
  <2>2. CASE u \notin DOMAIN P
    <3>1. ref = Ref("t", u)
      BY <1>6, <2>2
    <3>2. t \in DOMAIN Q /\ Edge(g, t, k, ref)
      BY <1>1, <1>3, <1>7
    <3> QED BY <3>1, <3>2
  <2> QED BY <2>1, <2>2
<1>12. \A u, w \in DOMAIN Q : Q[u] = Q[w] => u = w
  <2> HIDE DEF q
  <2> QED BY <1>1, <1>2, <1>5, <1>6
<1>13. ASSUME NEW u \in DOMAIN Q, NEW p, IsSeq(p), IsPrefix(p, Q[u])
       PROVE  \E w \in DOMAIN Q : Q[w] = p
  <2>1. ASSUME NEW w \in DOMAIN P, IsPrefix(p, P[w]) PROVE \E v \in DOMAIN Q : Q[v] = p
    <3>1. PICK v \in DOMAIN P : P[v] = p
      BY <1>2, <1>13, <2>1
    <3> QED BY <1>1, <3>1
  <2>2. CASE u \in DOMAIN P
    BY <1>1, <1>13, <2>1, <2>2
  <2>3. CASE u \notin DOMAIN P
    <3>1. IsPrefix(p, P[t]) \/ p = q
      BY <1>4, <1>6, <1>13, <2>3, PrefixAppend
    <3> QED BY <1>6, <2>1, <2>3, <3>1
  <2> QED BY <2>2, <2>3
<1> QED BY <1>7, <1>8, <1>10, <1>11, <1>12, <1>13 DEF Shape

\* An array that is there is not touched by a new entry.
LEMMA GivesEnters ==
  ASSUME NEW h, NEW g, NEW t, NEW k, NEW ref, Enters(h, g, t, k, ref), NEW b, NEW todo,
         todo = << >> \/ b \notin DOMAIN h.array,
         NEW r, NEW value, Gives(h, r, value, 0, << >>)
  PROVE  Gives(g, r, value, b, todo)
<1>1. \A a \in DOMAIN h.array : a \in DOMAIN g.array /\ g.array[a] = h.array[a]
  BY DEF Enters
<1>2. CASE r.kind = "v" /\ value.type = "value" /\ r.to = value.val
  BY <1>2 DEF Gives
<1>3. CASE /\ r.kind = "a" /\ value.type = "array" /\ r.to \in DOMAIN h.array
           /\ Holds(h, r.to, value.elements, << >>)
  <2>1. Holds(g, r.to, value.elements, << >>)
    BY <1>1, <1>3 DEF Holds
  <2>2. (IF r.to = b THEN todo ELSE << >>) = << >>
    BY <1>3
  <2> QED BY <1>1, <1>3, <2>1, <2>2 DEF Gives
<1> QED BY <1>2, <1>3 DEF Gives

\* The line whose value is the new entry has been read.
LEMMA MeansEnters ==
  ASSUME NEW h, NEW P, Shape(h, P), NEW text, NEW m \in Nat, Means(h, P, text, m, 0, << >>),
         NEW t \in DOMAIN P, NEW g, NEW k, NEW ref, Enters(h, g, t, k, ref), ref.kind \in {"v", "a"},
         Lands(P, text, m + 1, t, k), NEW b, NEW todo, todo = << >> \/ b \notin DOMAIN h.array,
         Gives(g, ref, text[m + 1].value, b, todo)
  PROVE  Means(g, P, text, m + 1, b, todo)
<1>1. /\ DOMAIN P = DOMAIN h.table /\ DOMAIN g.table = DOMAIN h.table
      /\ \A u \in DOMAIN P : g.table[u].implicit = h.table[u].implicit
      /\ \A u \in DOMAIN P : \A l, r : Edge(g, u, l, r) <=> Edge(h, u, l, r) \/ (u = t /\ l = k /\ r = ref)
  BY DEF Enters, Shape
<1>2. 1..m \subseteq 1..(m + 1) /\ m + 1 \in 1..(m + 1) /\ \A i \in 1..(m + 1) : i \in 1..m \/ i = m + 1
  OBVIOUS
<1>3. ASSUME NEW u \in DOMAIN P, NEW l, NEW r, Edge(g, u, l, r), r.kind # "t"
      PROVE  \E i \in 1..(m + 1) : Lands(P, text, i, u, l) /\ Gives(g, r, text[i].value, b, todo)
  <2>1. CASE Edge(h, u, l, r)
    <3>1. PICK i \in 1..m : Lands(P, text, i, u, l) /\ Gives(h, r, text[i].value, 0, << >>)
      BY <1>3, <2>1 DEF Means
    <3> QED BY <1>2, <3>1, GivesEnters
  <2>2. CASE u = t /\ l = k /\ r = ref
    BY <1>2, <2>2
  <2> QED BY <1>1, <1>3, <2>1, <2>2
<1>4. \A u \in DOMAIN P : u # 1 /\ ~g.table[u].implicit =>
        \/ \E i \in 1..(m + 1) : text[i].type = "table" /\ text[i].path = P[u]
        \/ \E i \in DOMAIN text : Passes(text, i, P[u])
  BY <1>1, <1>2 DEF Means
<1>5. \A u \in DOMAIN P : u # 1 =>
        \E i \in DOMAIN text : /\ IsPrefix(P[u], FullPath(text, i))
                               /\ text[i].type = "keyval" => P[u] # FullPath(text, i)
  BY DEF Means
<1>6. ASSUME NEW i \in 1..(m + 1), text[i].type = "keyval"
      PROVE  \E u \in DOMAIN P : \E l, r : Edge(g, u, l, r) /\ r.kind # "t" /\ Lands(P, text, i, u, l)
  <2>1. CASE i \in 1..m
    <3>1. PICK u \in DOMAIN P : \E l, r : Edge(h, u, l, r) /\ r.kind # "t" /\ Lands(P, text, i, u, l)
      BY <1>6, <2>1 DEF Means
    <3> QED BY <1>1, <3>1
  <2>2. CASE i = m + 1
    <3>1. Edge(g, t, k, ref) /\ ref.kind # "t"
      BY <1>1
    <3> QED BY <2>2, <3>1
  <2> QED BY <1>2, <2>1, <2>2
<1>7. ASSUME NEW i \in 1..(m + 1), text[i].type = "table"
      PROVE  \E u \in DOMAIN P : P[u] = text[i].path
  <2>1. i \in 1..m
    BY <1>2, <1>7 DEF Lands
  <2> QED BY <1>7, <2>1 DEF Means
<1> QED BY <1>3, <1>4, <1>5, <1>6, <1>7 DEF Means

\* A new table: on the way to a line, implicit, that of a dotted key, or that of
\* the header that has been read.
LEMMA MeansTable ==
  ASSUME NEW h, NEW P, Shape(h, P), NEW text, NEW m \in Nat, Means(h, P, text, m, 0, << >>),
         NEW t \in DOMAIN P, NEW g, NEW k, NEW ref, Enters(h, g, t, k, ref), ref.kind = "t",
         NEW Q, Labels(P, Q, t, k, ref),
         NEW n \in {m, m + 1}, n = m + 1 => text[n].type = "table" /\ text[n].path = Q[ref.to],
         NEW c \in DOMAIN text, IsPrefix(Q[ref.to], FullPath(text, c)),
         text[c].type = "keyval" => Q[ref.to] # FullPath(text, c),
         g.table[ref.to].implicit \/ Passes(text, c, Q[ref.to]) \/ n = m + 1
  PROVE  Means(g, Q, text, n, 0, << >>)
<1>1. /\ DOMAIN P = DOMAIN h.table /\ DOMAIN g.table = DOMAIN h.table \cup {ref.to}
      /\ ref.to \notin DOMAIN h.table
      /\ \A u \in DOMAIN P : g.table[u].implicit = h.table[u].implicit
      /\ \A u \in DOMAIN g.table : \A l, r :
           Edge(g, u, l, r) <=> (u \in DOMAIN P /\ Edge(h, u, l, r)) \/ (u = t /\ l = k /\ r = ref)
  BY DEF Enters, Shape
<1>2. /\ DOMAIN Q = DOMAIN P \cup {ref.to}
      /\ \A u \in DOMAIN P : Q[u] = P[u]
  BY DEF Labels
<1>3. /\ n \in Nat /\ 1..m \subseteq 1..n /\ \A i \in 1..n : i \in 1..m \/ (i = n /\ n = m + 1)
      /\ n = m + 1 => n \in 1..n
  OBVIOUS
<1>4. \A u \in DOMAIN P : \A l, i : Lands(P, text, i, u, l) <=> Lands(Q, text, i, u, l)
  BY <1>2 DEF Lands
<1>5. ASSUME NEW u \in DOMAIN Q, NEW l, NEW r, Edge(g, u, l, r), r.kind # "t"
      PROVE  \E i \in 1..n : Lands(Q, text, i, u, l) /\ Gives(g, r, text[i].value, 0, << >>)
  <2>1. u \in DOMAIN P /\ Edge(h, u, l, r)
    BY <1>1, <1>2, <1>5
  <2>2. PICK i \in 1..m : Lands(P, text, i, u, l) /\ Gives(h, r, text[i].value, 0, << >>)
    BY <1>5, <2>1 DEF Means
  <2>3. Gives(g, r, text[i].value, 0, << >>)
    BY <2>2, GivesEnters
  <2> QED BY <1>3, <1>4, <2>1, <2>2, <2>3
<1>6. ASSUME NEW u \in DOMAIN Q, u # 1, ~g.table[u].implicit
      PROVE  \/ \E i \in 1..n : text[i].type = "table" /\ text[i].path = Q[u]
             \/ \E i \in DOMAIN text : Passes(text, i, Q[u])
  <2>1. CASE u \in DOMAIN P
    <3>1. \/ \E i \in 1..m : text[i].type = "table" /\ text[i].path = P[u]
          \/ \E i \in DOMAIN text : Passes(text, i, P[u])
      BY <1>1, <1>6, <2>1 DEF Means
    <3> QED BY <1>2, <1>3, <2>1, <3>1
  <2>2. CASE u = ref.to
    BY <1>3, <1>6, <2>2
  <2> QED BY <1>2, <2>1, <2>2
<1>7. ASSUME NEW u \in DOMAIN Q, u # 1
      PROVE  \E i \in DOMAIN text : /\ IsPrefix(Q[u], FullPath(text, i))
                                    /\ text[i].type = "keyval" => Q[u] # FullPath(text, i)
  <2>1. CASE u \in DOMAIN P
    <3>1. \E i \in DOMAIN text : /\ IsPrefix(P[u], FullPath(text, i))
                                 /\ text[i].type = "keyval" => P[u] # FullPath(text, i)
      BY <1>7, <2>1 DEF Means
    <3> QED BY <1>2, <2>1, <3>1
  <2>2. CASE u = ref.to
    BY <2>2
  <2> QED BY <1>2, <2>1, <2>2
<1>8. ASSUME NEW i \in 1..n, text[i].type = "keyval"
      PROVE  \E u \in DOMAIN Q : \E l, r : Edge(g, u, l, r) /\ r.kind # "t" /\ Lands(Q, text, i, u, l)
  <2>1. i \in 1..m
    BY <1>3, <1>8
  <2>2. PICK u \in DOMAIN P : \E l, r : Edge(h, u, l, r) /\ r.kind # "t" /\ Lands(P, text, i, u, l)
    BY <1>8, <2>1 DEF Means
  <2>3. u \in DOMAIN Q /\ u \in DOMAIN g.table
    BY <1>1, <1>2
  <2> QED BY <1>1, <1>4, <2>2, <2>3
<1>9. ASSUME NEW i \in 1..n, text[i].type = "table"
      PROVE  \E u \in DOMAIN Q : Q[u] = text[i].path
  <2>1. CASE i \in 1..m
    <3>1. PICK u \in DOMAIN P : P[u] = text[i].path
      BY <1>9, <2>1 DEF Means
    <3> QED BY <1>2, <3>1
  <2>2. CASE i = n /\ n = m + 1
    BY <1>2, <2>2
  <2> QED BY <1>3, <2>1, <2>2
<1> QED BY <1>5, <1>6, <1>7, <1>8, <1>9 DEF Means

\* The header that has been read names a table that was there.
LEMMA MeansTaken ==
  ASSUME NEW h, NEW P, Shape(h, P), NEW text, NEW m \in Nat, Means(h, P, text, m, 0, << >>),
         NEW u \in DOMAIN P, NEW g, TakenOver(h, g, u),
         text[m + 1].type = "table", text[m + 1].path = P[u]
  PROVE  Shape(g, P) /\ Means(g, P, text, m + 1, 0, << >>)
<1>1. /\ DOMAIN P = DOMAIN h.table /\ DOMAIN g.table = DOMAIN h.table /\ g.array = h.array
      /\ \A w \in DOMAIN P : w # u => g.table[w].implicit = h.table[w].implicit
      /\ \A w \in DOMAIN P : g.table[w].readonly = h.table[w].readonly
      /\ \A w \in DOMAIN P : \A l, r : Edge(g, w, l, r) <=> Edge(h, w, l, r)
  BY DEF TakenOver, Shape
<1>2. 1..m \subseteq 1..(m + 1) /\ m + 1 \in 1..(m + 1) /\ \A i \in 1..(m + 1) : i \in 1..m \/ i = m + 1
  OBVIOUS
<1>3. \A r, value : Gives(h, r, value, 0, << >>) => Gives(g, r, value, 0, << >>)
  BY <1>1 DEF Gives, Holds
<1>4. Shape(g, P)
  BY <1>1 DEF Shape
<1>5. ASSUME NEW w \in DOMAIN P, NEW l, NEW r, Edge(g, w, l, r), r.kind # "t"
      PROVE  \E i \in 1..(m + 1) : Lands(P, text, i, w, l) /\ Gives(g, r, text[i].value, 0, << >>)
  <2>1. PICK i \in 1..m : Lands(P, text, i, w, l) /\ Gives(h, r, text[i].value, 0, << >>)
    BY <1>1, <1>5 DEF Means
  <2> QED BY <1>2, <1>3, <2>1
<1>6. ASSUME NEW w \in DOMAIN P, w # 1, ~g.table[w].implicit
      PROVE  \/ \E i \in 1..(m + 1) : text[i].type = "table" /\ text[i].path = P[w]
             \/ \E i \in DOMAIN text : Passes(text, i, P[w])
  <2>1. CASE w = u
    BY <1>2, <2>1
  <2>2. CASE w # u
    <3>1. \/ \E i \in 1..m : text[i].type = "table" /\ text[i].path = P[w]
          \/ \E i \in DOMAIN text : Passes(text, i, P[w])
      BY <1>1, <1>6, <2>2 DEF Means
    <3> QED BY <1>2, <3>1
  <2> QED BY <2>1, <2>2
<1>7. \A w \in DOMAIN P : w # 1 =>
        \E i \in DOMAIN text : /\ IsPrefix(P[w], FullPath(text, i))
                               /\ text[i].type = "keyval" => P[w] # FullPath(text, i)
  BY DEF Means
<1>8. ASSUME NEW i \in 1..(m + 1), text[i].type = "keyval"
      PROVE  \E w \in DOMAIN P : \E l, r : Edge(g, w, l, r) /\ r.kind # "t" /\ Lands(P, text, i, w, l)
  <2>1. i \in 1..m
    BY <1>2, <1>8
  <2>2. PICK w \in DOMAIN P : \E l, r : Edge(h, w, l, r) /\ r.kind # "t" /\ Lands(P, text, i, w, l)
    BY <1>8, <2>1 DEF Means
  <2> QED BY <1>1, <2>2
<1>9. ASSUME NEW i \in 1..(m + 1), text[i].type = "table"
      PROVE  \E w \in DOMAIN P : P[w] = text[i].path
  <2>1. CASE i \in 1..m
    BY <1>9, <2>1 DEF Means
  <2>2. CASE i = m + 1
    BY <2>2
  <2> QED BY <1>2, <2>1, <2>2
<1> QED BY <1>4, <1>5, <1>6, <1>7, <1>8, <1>9 DEF Means

\* A tree goes on meaning what it does when a line follows.
LEMMA MeansLine ==
  ASSUME NEW text, NEW more, Begins(text, more), NEW h, NEW P, Means(h, P, text, Len(text), 0, << >>)
  PROVE  Means(h, P, more, Len(text), 0, << >>)
<1>1. /\ Len(text) \in Nat /\ DOMAIN text = 1..Len(text) /\ DOMAIN text \subseteq DOMAIN more
      /\ \A i \in DOMAIN text : more[i] = text[i]
  BY BeginsIs DEF Begins, IsText, IsSeq
<1>2. /\ \A i \in DOMAIN text : FullPath(more, i) = FullPath(text, i)
      /\ \A i \in DOMAIN text : \A p : Passes(more, i, p) <=> Passes(text, i, p)
  BY BeginsIs
<1>3. \A i \in 1..Len(text) : \A t, k : Lands(P, more, i, t, k) <=> Lands(P, text, i, t, k)
  BY <1>1, <1>2 DEF Lands
<1>4. \A t \in DOMAIN P : \A k, ref : Edge(h, t, k, ref) /\ ref.kind # "t" =>
       \E i \in 1..Len(text) : Lands(P, more, i, t, k) /\ Gives(h, ref, more[i].value, 0, << >>)
  BY <1>1, <1>3 DEF Means
<1>5. \A u \in DOMAIN P : u # 1 /\ ~h.table[u].implicit =>
       \/ \E i \in 1..Len(text) : more[i].type = "table" /\ more[i].path = P[u]
       \/ \E i \in DOMAIN more : Passes(more, i, P[u])
  <2> SUFFICES ASSUME NEW u \in DOMAIN P, u # 1, ~h.table[u].implicit
               PROVE  \/ \E i \in 1..Len(text) : more[i].type = "table" /\ more[i].path = P[u]
                      \/ \E i \in DOMAIN more : Passes(more, i, P[u])
    OBVIOUS
  <2>1. \/ \E i \in 1..Len(text) : text[i].type = "table" /\ text[i].path = P[u]
        \/ \E i \in DOMAIN text : Passes(text, i, P[u])
    BY DEF Means
  <2> QED BY <1>1, <1>2, <2>1
<1>6. \A u \in DOMAIN P : u # 1 =>
       \E i \in DOMAIN more : /\ IsPrefix(P[u], FullPath(more, i))
                              /\ more[i].type = "keyval" => P[u] # FullPath(more, i)
  <2> SUFFICES ASSUME NEW u \in DOMAIN P, u # 1
               PROVE  \E i \in DOMAIN more : /\ IsPrefix(P[u], FullPath(more, i))
                                             /\ more[i].type = "keyval" => P[u] # FullPath(more, i)
    OBVIOUS
  <2>1. PICK i \in DOMAIN text : /\ IsPrefix(P[u], FullPath(text, i))
                                 /\ text[i].type = "keyval" => P[u] # FullPath(text, i)
    BY DEF Means
  <2> QED BY <1>1, <1>2, <2>1
<1>7. \A i \in 1..Len(text) : more[i].type = "keyval" =>
            \E t \in DOMAIN P : \E k, ref : Edge(h, t, k, ref) /\ ref.kind # "t" /\ Lands(P, more, i, t, k)
  BY <1>1, <1>3 DEF Means
<1>8. \A i \in 1..Len(text) : more[i].type = "table" => \E t \in DOMAIN P : P[t] = more[i].path
  BY <1>1 DEF Means
<1> QED BY <1>4, <1>5, <1>6, <1>7, <1>8 DEF Means

\* One more element of an array.
LEMMA MeansElement ==
  ASSUME NEW h, NEW P, NEW text, NEW m, NEW b \in DOMAIN h.array, NEW todo, IsSeq(todo), todo # << >>,
         todo[1].type = "value", IsSeq(h.array[b].item), Means(h, P, text, m, b, todo),
         NEW g, g.table = h.table, DOMAIN g.array = DOMAIN h.array,
         \A a \in DOMAIN h.array : a # b => g.array[a] = h.array[a],
         g.array[b].item = Append(h.array[b].item, Ref("v", todo[1].val))
  PROVE  Means(g, P, text, m, b, Tail(todo))
<1>1. /\ Len(todo) \in Nat /\ Len(todo) >= 1 /\ DOMAIN Tail(todo) = 1..(Len(todo) - 1)
      /\ Len(Tail(todo)) = Len(todo) - 1
      /\ \A n \in 1..(Len(todo) - 1) : Tail(todo)[n] = todo[n + 1]
      /\ 1 \in DOMAIN todo /\ DOMAIN todo = 1..Len(todo)
  BY SeqTail DEF IsSeq
<1>2. ASSUME NEW elements, Holds(h, b, elements, todo)
      PROVE  Holds(g, b, elements, Tail(todo))
  <2> DEFINE item == h.array[b].item
             new == g.array[b].item
             x == Ref("v", todo[1].val)
  <2>1. /\ Len(item) \in Nat /\ DOMAIN item = 1..Len(item) /\ Len(new) = Len(item) + 1
        /\ DOMAIN new = 1..(Len(item) + 1) /\ new[Len(item) + 1] = x
        /\ \A n \in 1..Len(item) : new[n] = item[n]
    BY DEF IsSeq
  <2>2. /\ Len(item) + Len(todo) = Len(elements)
        /\ \A n \in 1..Len(item) : item[n] = Ref("v", elements[n].val)
        /\ \A n \in 1..Len(todo) : todo[n] = elements[Len(item) + n]
    BY <1>1, <1>2, <2>1 DEF Holds
  <2> HIDE DEF item, new
  <2>3. Len(new) + Len(Tail(todo)) = Len(elements)
    BY <1>1, <2>1, <2>2
  <2>4. todo[1] = elements[Len(item) + 1]
    BY <1>1, <2>2
  <2>5. \A n \in 1..(Len(item) + 1) : new[n] = Ref("v", elements[n].val)
    <3> SUFFICES ASSUME NEW n \in 1..(Len(item) + 1) PROVE new[n] = Ref("v", elements[n].val)
      OBVIOUS
    <3>1. n \in 1..Len(item) \/ n = Len(item) + 1
      BY <2>1
    <3> QED BY <2>1, <2>2, <2>4, <3>1
  <2>6. \A n \in 1..(Len(todo) - 1) : Tail(todo)[n] = elements[Len(new) + n]
    <3> SUFFICES ASSUME NEW n \in 1..(Len(todo) - 1) PROVE Tail(todo)[n] = elements[Len(new) + n]
      OBVIOUS
    <3>1. n + 1 \in 1..Len(todo) /\ Len(item) + (n + 1) = Len(new) + n
      BY <1>1, <2>1
    <3> QED BY <1>1, <2>2, <3>1
  <2> QED BY <1>1, <2>1, <2>3, <2>5, <2>6 DEF Holds, new
<1>3. ASSUME NEW r, NEW value, Gives(h, r, value, b, todo)
      PROVE  Gives(g, r, value, b, Tail(todo))
  <2>1. CASE r.kind = "v" /\ value.type = "value" /\ r.to = value.val
    BY <2>1 DEF Gives
  <2>2. CASE /\ r.kind = "a" /\ value.type = "array" /\ r.to \in DOMAIN h.array
             /\ Holds(h, r.to, value.elements, IF r.to = b THEN todo ELSE << >>)
    <3>1. CASE r.to = b
      BY <1>2, <2>2, <3>1 DEF Gives
    <3>2. CASE r.to # b
      <4>1. Holds(g, r.to, value.elements, << >>)
        BY <2>2, <3>2 DEF Holds
      <4> QED BY <2>2, <3>2, <4>1 DEF Gives
    <3> QED BY <3>1, <3>2
  <2> QED BY <1>3, <2>1, <2>2 DEF Gives
<1>4. \A t \in DOMAIN P : \A k, ref : Edge(g, t, k, ref) <=> Edge(h, t, k, ref)
  BY DEF Edge
<1> QED BY <1>3, <1>4 DEF Means

\* The last element of an array.
LEMMA MeansWhole ==
  ASSUME NEW h, NEW P, NEW text, NEW m, NEW b, Means(h, P, text, m, b, << >>)
  PROVE  Means(h, P, text, m, 0, << >>)
<1>1. \A r, value : Gives(h, r, value, b, << >>) => Gives(h, r, value, 0, << >>)
  BY DEF Gives
<1> QED BY <1>1 DEF Means

\* On the way to the last line there are tables only.
LEMMA OnTheWay ==
  ASSUME NEW h, IsHeap(h), NEW P, Shape(h, P), NEW text, Independent(text), IsText(text), text # << >>,
         Means(h, P, text, Len(text) - 1, 0, << >>),
         NEW t \in DOMAIN P, NEW k, IsPrefix(Append(P[t], k), FullPath(text, Len(text)))
  PROVE  LET old == check_key(h, t, k)
         IN \/ old = NoRef /\ old.kind = "none" /\ \A ref : ~Edge(h, t, k, ref)
            \/ /\ old # NoRef /\ old.kind = "t" /\ Edge(h, t, k, old)
               /\ old.to \in DOMAIN P /\ P[old.to] = Append(P[t], k) /\ old.to # 1
<1> DEFINE old == check_key(h, t, k)
           c == Len(text)
<1>0. t \in DOMAIN h.table /\ DOMAIN P = DOMAIN h.table
  BY DEF Shape
<1>1. \/ old = NoRef /\ old.kind = "none" /\ \A ref : ~Edge(h, t, k, ref)
      \/ Edge(h, t, k, old) /\ old # NoRef
  BY <1>0, check_keyEdge
<1> HIDE DEF old
<1> SUFFICES ASSUME Edge(h, t, k, old), old # NoRef
             PROVE  /\ old.kind = "t"
                    /\ old.to \in DOMAIN P /\ P[old.to] = Append(P[t], k) /\ old.to # 1
  BY <1>1 DEF old
<1>2. old.kind = "t"
  <2> SUFFICES ASSUME old.kind # "t" PROVE FALSE
    OBVIOUS
  <2>1. PICK i \in 1..(c - 1) : Lands(P, text, i, t, k)
    BY DEF Means
  <2>2. i \in DOMAIN text /\ c \in DOMAIN text /\ i # c
    BY DEF IsText, IsSeq
  <2>3. text[i].type = "keyval" /\ FullPath(text, i) = Append(P[t], k)
    BY <2>1 DEF Lands
  <2> QED BY <2>2, <2>3 DEF Independent
<1>3. old.to \in DOMAIN P /\ P[old.to] = Append(P[t], k)
  BY <1>2 DEF Shape
<1>4. P[1] = << >> /\ IsSeq(P[t])
  BY DEF Shape
<1>5. Append(P[t], k) # << >>
  BY <1>4, PathMore
<1> QED BY <1>2, <1>3, <1>4, <1>5

\* One turn of the loop of walk_tabpath.
LEMMA WalkStep ==
  ASSUME NEW h, IsHeap(h), NEW P, Shape(h, P), NEW text, Independent(text), IsText(text), text # << >>,
         NEW call, OnHeader(h, P, text, call), Len(call.path) > 1
  PROVE  LET r == TableOfKey(h, call.at, Head(call.path))
         IN r.ok /\ \E Q : /\ Shape(r.heap, Q)
                           /\ OnHeader(r.heap, Q, text, Walk(r.at, Tail(call.path), call.todo))
<1> DEFINE c == Len(text)
           t == call.at
           k == Head(call.path)
           q == Append(P[t], k)
           r == TableOfKey(h, t, k)
           old == check_key(h, t, k)
<1>1. /\ c \in Nat /\ c \in DOMAIN text /\ c - 1 \in Nat /\ c - 1 < c /\ c - 1 <= Len(text)
  BY DEF IsText, IsSeq
<1>2. /\ text[c].type = "table" /\ call.todo = "table" /\ t \in DOMAIN P
      /\ IsSeq(call.path) /\ call.path # << >>
      /\ P[t] \o call.path = FullPath(text, c)
      /\ Means(h, P, text, c - 1, 0, << >>)
  BY DEF OnHeader
<1>3. /\ IsSeq(P[t]) /\ DOMAIN P = DOMAIN h.table /\ 1 \in DOMAIN h.table
  BY <1>2 DEF Shape
<1>4. /\ IsPrefix(q, FullPath(text, c)) /\ q \o Tail(call.path) = FullPath(text, c)
      /\ IsSeq(Tail(call.path)) /\ Tail(call.path) # << >>
  BY <1>2, <1>3, PathStep
<1>5. \/ old = NoRef /\ \A ref : ~Edge(h, t, k, ref)
      \/ old.kind = "t" /\ old.to \in DOMAIN P /\ P[old.to] = q
  BY <1>2, <1>4, OnTheWay
<1>6. /\ old = NoRef => /\ r.ok /\ Enters(h, r.heap, t, k, Ref("t", r.at))
                        /\ r.heap.table[r.at].implicit
      /\ old.kind = "t" => r.ok /\ r.heap = h /\ r.at = old.to
  BY <1>2, <1>3, TableOfKeyEdge
<1> SUFFICES r.ok /\ \E Q : /\ Shape(r.heap, Q)
                            /\ OnHeader(r.heap, Q, text, Walk(r.at, Tail(call.path), call.todo))
  OBVIOUS
<1> HIDE DEF r, old, q, k
<1>7. ASSUME NEW g, NEW Q, NEW u \in DOMAIN Q, Q[u] = q, Means(g, Q, text, c - 1, 0, << >>)
      PROVE  OnHeader(g, Q, text, Walk(u, Tail(call.path), call.todo))
  BY <1>2, <1>4, <1>7 DEF OnHeader, Walk
<1>8. CASE old = NoRef /\ \A ref : ~Edge(h, t, k, ref)
  <2> DEFINE ref == Ref("t", r.at)
  <2>1. Enters(h, r.heap, t, k, ref) /\ r.ok /\ r.heap.table[r.at].implicit
    BY <1>6, <1>8
  <2>2. ref.kind = "t" /\ ref.to = r.at /\ ref = Ref(ref.kind, ref.to) /\ ref.to \notin DOMAIN P
    BY <1>3, <2>1 DEF Enters, Ref
  <2> HIDE DEF ref
  <2>3. PICK Q : Labels(P, Q, t, k, ref)
    BY <2>2, LabelsExist
  <2>4. Shape(r.heap, Q)
    BY <1>2, <1>8, <2>1, <2>2, <2>3, ShapeEnters
  <2>5. Q[ref.to] = q /\ r.at \in DOMAIN Q
    BY <2>2, <2>3 DEF Labels, q
  <2>6. Means(r.heap, Q, text, c - 1, 0, << >>)
    BY <1>1, <1>2, <1>4, <2>1, <2>2, <2>3, <2>5, MeansTable
  <2> QED BY <1>7, <2>1, <2>2, <2>4, <2>5, <2>6
<1>9. CASE old.kind = "t" /\ old.to \in DOMAIN P /\ P[old.to] = q
  BY <1>2, <1>6, <1>7, <1>9
<1> QED BY <1>5, <1>8, <1>9

\* The end of parse_select: the header's table was never named, or only passed.
LEMMA SelectStep ==
  ASSUME NEW h, IsHeap(h), NEW P, Shape(h, P), NEW text, Independent(text), IsText(text), text # << >>,
         NEW call, OnHeader(h, P, text, call), Len(call.path) = 1
  PROVE  LET r == create_keytable_in_table(h, call.at, Head(call.path))
         IN r.ok /\ \E Q : /\ Shape(r.heap, Q) /\ AtHeader(Q, text, r.at)
                           /\ Means(r.heap, Q, text, Len(text), 0, << >>)
<1> DEFINE c == Len(text)
           t == call.at
           k == Head(call.path)
           q == Append(P[t], k)
           r == create_keytable_in_table(h, t, k)
           old == check_key(h, t, k)
<1>1. /\ c \in Nat /\ c \in DOMAIN text /\ c - 1 \in Nat /\ c - 1 < c /\ c - 1 <= Len(text)
      /\ (c - 1) + 1 = c /\ c \in {c - 1, (c - 1) + 1} /\ 1..(c - 1) \subseteq DOMAIN text /\ c \notin 1..(c - 1)
      /\ c \in 0..Len(text) /\ c # 0
  BY DEF IsText, IsSeq
<1>2. /\ text[c].type = "table" /\ call.todo = "table" /\ t \in DOMAIN P
      /\ IsSeq(call.path) /\ call.path # << >>
      /\ P[t] \o call.path = FullPath(text, c)
      /\ Means(h, P, text, c - 1, 0, << >>)
  BY DEF OnHeader
<1>3. /\ IsSeq(P[t]) /\ DOMAIN P = DOMAIN h.table /\ 1 \in DOMAIN h.table
  BY <1>2 DEF Shape
<1>4. IsPrefix(q, FullPath(text, c)) /\ q = FullPath(text, c)
  BY <1>2, <1>3, PathStep
<1>5. FullPath(text, c) = text[c].path /\ HeaderPath(text, c) = text[c].path
  BY <1>1, <1>2, FullPathIs, HeaderPathIs
<1>6. \/ old = NoRef /\ \A ref : ~Edge(h, t, k, ref)
      \/ old.kind = "t" /\ old.to \in DOMAIN P /\ P[old.to] = q /\ old.to # 1
  BY <1>2, <1>4, OnTheWay
<1>7. /\ old = NoRef => r.ok /\ Enters(h, r.heap, t, k, Ref("t", r.at))
      /\ old.kind = "t" /\ h.table[old.to].implicit =>
                 r.ok /\ r.at = old.to /\ TakenOver(h, r.heap, old.to)
  BY <1>2, <1>3, create_keytableEdge
<1> SUFFICES r.ok /\ \E Q : /\ Shape(r.heap, Q) /\ AtHeader(Q, text, r.at)
                            /\ Means(r.heap, Q, text, c, 0, << >>)
  OBVIOUS
<1> HIDE DEF r, old, q, k
<1>8. CASE old = NoRef /\ \A ref : ~Edge(h, t, k, ref)
  <2> DEFINE ref == Ref("t", r.at)
  <2>1. Enters(h, r.heap, t, k, ref) /\ r.ok
    BY <1>7, <1>8
  <2>2. ref.kind = "t" /\ ref.to = r.at /\ ref = Ref(ref.kind, ref.to) /\ ref.to \notin DOMAIN P
    BY <1>3, <2>1 DEF Enters, Ref
  <2> HIDE DEF ref
  <2>3. PICK Q : Labels(P, Q, t, k, ref)
    BY <2>2, LabelsExist
  <2>4. Shape(r.heap, Q)
    BY <1>2, <1>8, <2>1, <2>2, <2>3, ShapeEnters
  <2>5. Q[ref.to] = q
    BY <2>2, <2>3 DEF Labels, q
  <2>6. Means(r.heap, Q, text, c, 0, << >>)
    BY <1>1, <1>2, <1>4, <1>5, <2>1, <2>2, <2>3, <2>5, MeansTable
  <2> QED BY <1>4, <1>5, <2>1, <2>2, <2>4, <2>5, <2>6 DEF AtHeader
<1>9. CASE old.kind = "t" /\ old.to \in DOMAIN P /\ P[old.to] = q /\ old.to # 1
  <2>1. h.table[old.to].implicit
    <3> SUFFICES ASSUME ~h.table[old.to].implicit PROVE FALSE
      OBVIOUS
    <3>1. CASE \E i \in 1..(c - 1) : text[i].type = "table" /\ text[i].path = P[old.to]
      BY <1>1, <1>2, <1>4, <1>5, <1>9, <3>1 DEF Independent
    <3>2. CASE \E i \in DOMAIN text : Passes(text, i, P[old.to])
      <4>1. PICK i \in DOMAIN text : Passes(text, i, text[c].path)
        BY <1>4, <1>5, <1>9, <3>2
      <4>2. i # c
        BY <1>2, <4>1 DEF Passes
      <4> QED BY <1>1, <1>2, <4>1, <4>2 DEF Independent
    <3> QED BY <1>2, <1>9, <3>1, <3>2 DEF Means
  <2>2. r.ok /\ r.at = old.to /\ TakenOver(h, r.heap, old.to)
    BY <1>7, <1>9, <2>1
  <2>3. Shape(r.heap, P) /\ Means(r.heap, P, text, (c - 1) + 1, 0, << >>)
    BY <1>1, <1>2, <1>4, <1>5, <1>9, <2>2, MeansTaken
  <2> QED BY <1>1, <1>4, <1>5, <1>9, <2>2, <2>3 DEF AtHeader
<1> QED BY <1>6, <1>8, <1>9

\* One part of a dotted key.
LEMMA DottedStep ==
  ASSUME NEW h, IsHeap(h), NEW P, Shape(h, P), NEW text, Independent(text), IsText(text), text # << >>,
         NEW call, OnKey(h, P, text, call), Len(call.path) > 1, NEW cur \in DOMAIN P, AtHeader(P, text, cur)
  PROVE  LET old == check_key(h, call.at, Head(call.path))
             r == IF old.kind = "t" THEN Done(h, old.to)
                  ELSE create_keytable_in_table(h, call.at, Head(call.path))
         IN r.ok /\ \E Q : /\ Shape(r.heap, Q) /\ AtHeader(Q, text, cur)
                           /\ OnKey(r.heap, Q, text, KeyVal(r.at, Tail(call.path), call.todo))
<1> DEFINE c == Len(text)
           t == call.at
           k == Head(call.path)
           q == Append(P[t], k)
           old == check_key(h, t, k)
           r == IF old.kind = "t" THEN Done(h, old.to) ELSE create_keytable_in_table(h, t, k)
<1>1. /\ c \in Nat /\ c \in DOMAIN text /\ c - 1 \in Nat /\ c - 1 < c /\ c - 1 <= Len(text)
  BY DEF IsText, IsSeq
<1>2. /\ text[c].type = "keyval" /\ call.todo = text[c].value /\ t \in DOMAIN P
      /\ IsSeq(call.path) /\ call.path # << >>
      /\ P[t] \o call.path = FullPath(text, c)
      /\ IsPrefix(HeaderPath(text, c), P[t])
      /\ Means(h, P, text, c - 1, 0, << >>)
  BY DEF OnKey
<1>3. /\ IsSeq(P[t]) /\ DOMAIN P = DOMAIN h.table /\ 1 \in DOMAIN h.table
  BY <1>2 DEF Shape
<1>4. /\ IsPrefix(q, FullPath(text, c)) /\ q \o Tail(call.path) = FullPath(text, c) /\ q # FullPath(text, c)
      /\ IsSeq(Tail(call.path)) /\ Tail(call.path) # << >>
  BY <1>2, <1>3, PathStep
<1>5. IsSeq(HeaderPath(text, c))
  BY <1>1, FullPathIs
<1>6. IsSeq(q) /\ IsPrefix(HeaderPath(text, c), q) /\ HeaderPath(text, c) # q
  <2>1. IsSeq(q) /\ IsPrefix(P[t], q) /\ ~IsPrefix(q, P[t])
    BY <1>3, PathMore
  <2> HIDE DEF q
  <2>2. IsPrefix(HeaderPath(text, c), q)
    BY <1>2, <1>3, <1>5, <2>1, PrefixTrans
  <2> QED BY <1>2, <2>1, <2>2
<1>7. Passes(text, c, q)
  BY <1>2, <1>4, <1>6 DEF Passes, IsStrictPrefix
<1>8. \/ old = NoRef /\ old.kind = "none" /\ \A ref : ~Edge(h, t, k, ref)
      \/ old.kind = "t" /\ old.to \in DOMAIN P /\ P[old.to] = q
  BY <1>2, <1>4, OnTheWay
<1>9. LET s == create_keytable_in_table(h, t, k)
      IN old = NoRef => s.ok /\ Enters(h, s.heap, t, k, Ref("t", s.at))
  BY <1>2, <1>3, create_keytableEdge
<1>10. /\ old.kind = "t" => r.ok /\ r.heap = h /\ r.at = old.to
       /\ old = NoRef /\ old.kind = "none" => r.ok /\ Enters(h, r.heap, t, k, Ref("t", r.at))
  BY <1>9 DEF Done
<1> SUFFICES r.ok /\ \E Q : /\ Shape(r.heap, Q) /\ AtHeader(Q, text, cur)
                            /\ OnKey(r.heap, Q, text, KeyVal(r.at, Tail(call.path), call.todo))
  OBVIOUS
<1> HIDE DEF r, old, q, k
<1>11. ASSUME NEW g, NEW Q, NEW u \in DOMAIN Q, Q[u] = q, Means(g, Q, text, c - 1, 0, << >>)
       PROVE  OnKey(g, Q, text, KeyVal(u, Tail(call.path), call.todo))
  BY <1>2, <1>4, <1>6, <1>11 DEF OnKey, KeyVal
<1>12. CASE old = NoRef /\ old.kind = "none" /\ \A ref : ~Edge(h, t, k, ref)
  <2> DEFINE ref == Ref("t", r.at)
  <2>1. Enters(h, r.heap, t, k, ref) /\ r.ok
    BY <1>10, <1>12
  <2>2. ref.kind = "t" /\ ref.to = r.at /\ ref = Ref(ref.kind, ref.to) /\ ref.to \notin DOMAIN P
    BY <1>3, <2>1 DEF Enters, Ref
  <2> HIDE DEF ref
  <2>3. PICK Q : Labels(P, Q, t, k, ref)
    BY <2>2, LabelsExist
  <2>4. Shape(r.heap, Q)
    BY <1>2, <1>12, <2>1, <2>2, <2>3, ShapeEnters
  <2>5. Q[ref.to] = q /\ r.at \in DOMAIN Q /\ Q[cur] = P[cur]
    BY <2>2, <2>3 DEF Labels, q
  <2>6. Means(r.heap, Q, text, c - 1, 0, << >>)
    BY <1>1, <1>2, <1>4, <1>7, <2>1, <2>2, <2>3, <2>5, MeansTable
  <2> QED BY <1>11, <2>1, <2>2, <2>4, <2>5, <2>6 DEF AtHeader
<1>13. CASE old.kind = "t" /\ old.to \in DOMAIN P /\ P[old.to] = q
  BY <1>2, <1>10, <1>11, <1>13
<1> QED BY <1>8, <1>12, <1>13

\* The entry of an independent key is not there yet.
LEMMA KeyIsFree ==
  ASSUME NEW h, IsHeap(h), NEW P, Shape(h, P), NEW text, Independent(text), IsText(text), text # << >>,
         NEW call, OnKey(h, P, text, call), Len(call.path) = 1
  PROVE  /\ call.at \in DOMAIN h.table /\ ~h.table[call.at].readonly
         /\ check_key(h, call.at, Head(call.path)) = NoRef
         /\ Lands(P, text, Len(text), call.at, Head(call.path))
<1> DEFINE c == Len(text)
           t == call.at
           k == Head(call.path)
           q == Append(P[t], k)
           old == check_key(h, t, k)
<1>1. /\ c \in Nat /\ c \in DOMAIN text /\ c - 1 \in Nat /\ c - 1 < c /\ c - 1 <= Len(text)
  BY DEF IsText, IsSeq
<1>2. /\ text[c].type = "keyval" /\ t \in DOMAIN P
      /\ IsSeq(call.path) /\ call.path # << >>
      /\ P[t] \o call.path = FullPath(text, c)
      /\ Means(h, P, text, c - 1, 0, << >>)
  BY DEF OnKey
<1>3. IsSeq(P[t]) /\ DOMAIN P = DOMAIN h.table /\ ~h.table[t].readonly
  BY <1>2 DEF Shape
<1>4. IsPrefix(q, FullPath(text, c)) /\ q = FullPath(text, c)
  BY <1>2, <1>3, PathStep
<1>5. \/ old = NoRef
      \/ old.to \in DOMAIN P /\ P[old.to] = q /\ old.to # 1
  BY <1>2, <1>4, OnTheWay
<1> SUFFICES old = NoRef
  BY <1>2, <1>3, <1>4 DEF Lands
<1> HIDE DEF old, q, k
<1>6. ASSUME old.to \in DOMAIN P, P[old.to] = q, old.to # 1
      PROVE  FALSE
  <2>1. PICK i \in DOMAIN text : /\ IsPrefix(P[old.to], FullPath(text, i))
                                 /\ text[i].type = "keyval" => P[old.to] # FullPath(text, i)
    BY <1>2, <1>6 DEF Means
  <2>2. i # c
    BY <1>2, <1>4, <1>6, <2>1
  <2> QED BY <1>1, <1>2, <1>4, <1>6, <2>1, <2>2 DEF Independent
<1> QED BY <1>5, <1>6

\* The value of a key.
LEMMA ValueStep ==
  ASSUME NEW h, IsHeap(h), NEW P, Shape(h, P), NEW text, Independent(text), IsText(text), text # << >>,
         NEW call, OnKey(h, P, text, call), Len(call.path) = 1, call.todo.type = "value"
  PROVE  LET r == create_keyval_in_table(h, call.at, Head(call.path), call.todo.val)
         IN r.ok /\ Shape(r.heap, P) /\ Means(r.heap, P, text, Len(text), 0, << >>)
<1> DEFINE c == Len(text)
           t == call.at
           k == Head(call.path)
           r == create_keyval_in_table(h, t, k, call.todo.val)
           ref == Ref("v", call.todo.val)
<1>1. c \in Nat /\ c \in DOMAIN text /\ c - 1 \in Nat /\ (c - 1) + 1 = c
  BY DEF IsText, IsSeq
<1>2. t \in DOMAIN P /\ call.todo = text[c].value /\ Means(h, P, text, c - 1, 0, << >>)
  BY DEF OnKey
<1>3. /\ t \in DOMAIN h.table /\ check_key(h, t, k) = NoRef /\ Lands(P, text, c, t, k)
  BY KeyIsFree
<1>4. r.ok /\ Enters(h, r.heap, t, k, ref)
  BY <1>3, create_keyvalEdge
<1>5. \A s : ~Edge(h, t, k, s)
  BY <1>3, check_keyEdge
<1>6. ref.kind = "v" /\ ref.to = call.todo.val /\ ref = Ref(ref.kind, ref.to)
  BY DEF Ref
<1> SUFFICES r.ok /\ Shape(r.heap, P) /\ Means(r.heap, P, text, c, 0, << >>)
  OBVIOUS
<1> HIDE DEF r, ref, k
<1>7. Labels(P, P, t, k, ref)
  BY <1>6 DEF Labels
<1>8. Shape(r.heap, P)
  BY <1>2, <1>4, <1>5, <1>6, <1>7, ShapeEnters
<1>9. Gives(r.heap, ref, text[(c - 1) + 1].value, 0, << >>)
  BY <1>1, <1>2, <1>6 DEF Gives
<1>10. Means(r.heap, P, text, (c - 1) + 1, 0, << >>)
  BY <1>1, <1>2, <1>3, <1>4, <1>6, <1>9, MeansEnters
<1> QED BY <1>1, <1>4, <1>8, <1>10

\* The array of a key.
LEMMA ArrayStep ==
  ASSUME NEW h, IsHeap(h), NEW P, Shape(h, P), NEW text, Independent(text), IsText(text), text # << >>,
         NEW call, OnKey(h, P, text, call), Len(call.path) = 1, call.todo.type = "array"
  PROVE  LET r == create_keyarray_in_table(h, call.at, Head(call.path), "none")
         IN r.ok /\ Shape(r.heap, P) /\ OnArray(r.heap, P, text, InArray(r.at, call.todo.elements))
<1> DEFINE c == Len(text)
           t == call.at
           k == Head(call.path)
           r == create_keyarray_in_table(h, t, k, "none")
           ref == Ref("a", r.at)
           todo == call.todo.elements
<1>1. c \in Nat /\ c \in DOMAIN text /\ c - 1 \in Nat /\ (c - 1) + 1 = c
  BY DEF IsText, IsSeq
<1>2. /\ t \in DOMAIN P /\ call.todo = text[c].value /\ text[c].type = "keyval"
      /\ Means(h, P, text, c - 1, 0, << >>)
  BY DEF OnKey
<1>3. /\ t \in DOMAIN h.table /\ check_key(h, t, k) = NoRef /\ Lands(P, text, c, t, k)
  BY KeyIsFree
<1>4. r.ok /\ Enters(h, r.heap, t, k, ref)
  BY <1>3, create_keyarrayEdge
<1>5. \A s : ~Edge(h, t, k, s)
  BY <1>3, check_keyEdge
<1>6. ref.kind = "a" /\ ref.to = r.at /\ ref = Ref(ref.kind, ref.to)
  BY DEF Ref
<1>7. IsSeq(todo) /\ \A n \in DOMAIN todo : todo[n].type = "value"
  <2>1. IsLine(text[c]) /\ IsPlain(text[c].value)
    BY <1>1, <1>2 DEF IsText, Independent
  <2> QED BY <1>2, <2>1 DEF IsLine, IsPlain
<1> SUFFICES r.ok /\ Shape(r.heap, P) /\ OnArray(r.heap, P, text, InArray(r.at, todo))
  OBVIOUS
<1> HIDE DEF r, ref, k
<1>8. Labels(P, P, t, k, ref)
  BY <1>6 DEF Labels
<1>9. Shape(r.heap, P)
  BY <1>2, <1>4, <1>5, <1>6, <1>8, ShapeEnters
<1>10. r.at \in DOMAIN r.heap.array /\ r.heap.array[r.at].item = << >> /\ r.at \notin DOMAIN h.array
  BY <1>4, <1>6 DEF Enters
<1>11. Holds(r.heap, r.at, todo, todo)
  BY <1>7, <1>10 DEF Holds, IsSeq
<1>12. Gives(r.heap, ref, text[(c - 1) + 1].value, r.at, todo)
  BY <1>1, <1>2, <1>6, <1>10, <1>11 DEF Gives
<1> HIDE DEF todo
<1>13. Means(r.heap, P, text, (c - 1) + 1, r.at, todo)
  BY <1>1, <1>2, <1>3, <1>4, <1>6, <1>10, <1>12, MeansEnters
<1> QED BY <1>1, <1>2, <1>4, <1>7, <1>9, <1>10, <1>13 DEF OnArray, InArray

-----------------------------------------------------------------------------
(***************************************************************************)
(* The steps.                                                              *)
(***************************************************************************)
\* A header begins at the root.
LEMMA HeaderBegins ==
  ASSUME NEW h, NEW P, Shape(h, P), NEW text, IsText(text), Means(h, P, text, Len(text), 0, << >>),
         NEW line, IsLine(line), line.type = "table"
  PROVE  LET more == Append(text, line)
         IN OnHeader(h, P, more, Walk(1, line.path, line.type)) /\ more # << >>
<1> DEFINE more == Append(text, line)
           c == Len(more)
<1>1. /\ Begins(text, more) /\ more # << >> /\ c = Len(text) + 1 /\ c \in DOMAIN more /\ more[c] = line
  BY LineMore
<1>2. IsText(more) /\ Len(text) \in Nat
  BY <1>1 DEF Begins, IsText, IsSeq
<1> HIDE DEF more
<1>3. Means(h, P, more, c - 1, 0, << >>)
  <2>1. c - 1 = Len(text)
    BY <1>1, <1>2
  <2> QED BY <1>1, <2>1, MeansLine
<1>4. FullPath(more, c) = line.path
  BY <1>1, <1>2, FullPathIs
<1>5. 1 \in DOMAIN P /\ P[1] = << >>
  BY DEF Shape
<1>6. IsSeq(line.path) /\ line.path # << >>
  BY DEF IsLine
<1>7. << >> \o line.path = line.path
  BY <1>6, ConcatEmptySeq DEF IsSeq
<1>8. OnHeader(h, P, more, Walk(1, line.path, line.type))
  BY <1>1, <1>3, <1>4, <1>5, <1>6, <1>7 DEF OnHeader, Walk
<1> QED BY <1>1, <1>8 DEF more

\* A key begins at the table of the header.
LEMMA KeyBegins ==
  ASSUME NEW h, NEW P, Shape(h, P), NEW text, IsText(text), Means(h, P, text, Len(text), 0, << >>),
         NEW cur \in DOMAIN P, AtHeader(P, text, cur),
         NEW line, IsLine(line), line.type = "keyval"
  PROVE  LET more == Append(text, line)
         IN /\ more # << >> /\ AtHeader(P, more, cur)
            /\ OnKey(h, P, more, KeyVal(cur, line.path, line.value))
<1> DEFINE more == Append(text, line)
           c == Len(more)
<1>1. /\ Begins(text, more) /\ more # << >> /\ c = Len(text) + 1 /\ c \in DOMAIN more /\ more[c] = line
  BY LineMore
<1>2. IsText(more) /\ Len(text) \in Nat
  BY <1>1 DEF Begins, IsText, IsSeq
<1> HIDE DEF more
<1>3. c - 1 = Len(text) /\ c # 0 /\ c \in 0..Len(more) /\ Len(text) \in 0..Len(text)
  BY <1>1, <1>2
<1>4. Means(h, P, more, c - 1, 0, << >>)
  BY <1>1, <1>3, MeansLine
<1>5. HeaderPath(more, c) = P[cur]
  <2>1. HeaderPath(more, c) = HeaderPath(more, c - 1)
    BY <1>1, <1>2, <1>3, HeaderPathIs
  <2>2. HeaderPath(more, Len(text)) = HeaderPath(text, Len(text))
    BY <1>1, <1>3, BeginsIs
  <2> QED BY <1>3, <2>1, <2>2 DEF AtHeader
<1>6. FullPath(more, c) = P[cur] \o line.path
  BY <1>1, <1>2, <1>5, FullPathIs
<1>7. IsSeq(line.path) /\ line.path # << >> /\ IsSeq(P[cur])
  BY DEF IsLine, Shape
<1>8. IsPrefix(P[cur], P[cur])
  BY <1>7, PathMore
<1>9. AtHeader(P, more, cur) /\ OnKey(h, P, more, KeyVal(cur, line.path, line.value))
  BY <1>1, <1>4, <1>5, <1>6, <1>7, <1>8 DEF OnKey, KeyVal, AtHeader
<1> QED BY <1>1, <1>9 DEF more

\* The only call under way.
LEMMA OneCall ==
  ASSUME NEW f, NEW x
  PROVE  Head(<<f>>) = f /\ Tail(<<f>>) = << >> /\ <<x>> \o << >> = <<x>> /\ <<f>> # << >>
OBVIOUS

\* Inside a line of an independent file.
LEMMA InTree ==
  ASSUME IInv, TreeInv, stack # << >>
  PROVE  /\ status = "parsing"
         /\ Independent(read) =>
              /\ IsHeap(heap) /\ curtab \in DOMAIN heap.table /\ IsText(read) /\ read # << >>
              /\ \A x : <<x>> \o Tail(stack) = <<x>>
              /\ Tail(stack) = << >>
              /\ \E P : /\ Shape(heap, P)
                        /\ \/ OnHeader(heap, P, read, Head(stack))
                           \/ /\ AtHeader(P, read, curtab)
                              /\ \/ OnKey(heap, P, read, Head(stack))
                                 \/ OnArray(heap, P, read, Head(stack))
<1>1. status = "parsing" /\ Sound(heap, curtab, stack)
  BY DEF IInv, TreeInv
<1> SUFFICES ASSUME Independent(read)
             PROVE  /\ IsHeap(heap) /\ curtab \in DOMAIN heap.table /\ IsText(read) /\ read # << >>
                    /\ \A x : <<x>> \o Tail(stack) = <<x>>
                    /\ Tail(stack) = << >>
                    /\ \E P : /\ Shape(heap, P)
                              /\ \/ OnHeader(heap, P, read, Head(stack))
                                 \/ /\ AtHeader(P, read, curtab)
                                    /\ \/ OnKey(heap, P, read, Head(stack))
                                       \/ OnArray(heap, P, read, Head(stack))
  BY <1>1
<1>2. PICK P : IsTree(heap, P, read, curtab, stack)
  BY DEF TreeInv
<1>3. PICK f : /\ stack = <<f>> /\ read # << >>
               /\ \/ OnHeader(heap, P, read, f)
                  \/ AtHeader(P, read, curtab) /\ (OnKey(heap, P, read, f) \/ OnArray(heap, P, read, f))
  BY <1>2 DEF IsTree
<1>4. Shape(heap, P)
  BY <1>2 DEF IsTree
<1>5. Head(stack) = f /\ Tail(stack) = << >> /\ \A x : <<x>> \o Tail(stack) = <<x>>
  BY <1>3, OneCall
<1>6. IsHeap(heap) /\ curtab \in DOMAIN heap.table /\ IsText(read)
  BY <1>1 DEF Sound, TreeInv
<1> QED BY <1>3, <1>4, <1>5, <1>6

\* A step inside a line.
LEMMA TreeStep ==
  ASSUME TreeInv, status = "parsing", UNCHANGED read, status' \in {status, "failed"},
         Independent(read) => status' = status /\ \E P : IsTree(heap', P, read, curtab', stack')
  PROVE  TreeInv'
BY DEF TreeInv

\* What is under way, and what is done, is a tree.
LEMMA TreeCalls ==
  ASSUME NEW h, NEW P, Shape(h, P), NEW text, NEW cur
  PROVE  /\ AtHeader(P, text, cur) /\ Means(h, P, text, Len(text), 0, << >>) => IsTree(h, P, text, cur, << >>)
         /\ text # << >> => \A f :
              /\ OnHeader(h, P, text, f) => IsTree(h, P, text, cur, <<f>>)
              /\ AtHeader(P, text, cur) /\ (OnKey(h, P, text, f) \/ OnArray(h, P, text, f)) =>
                   IsTree(h, P, text, cur, <<f>>)
BY DEF IsTree

\* The parser goes on, or has failed.
LEMMA ContinueStep ==
  ASSUME TreeInv, status = "parsing", UNCHANGED read, NEW r, NEW calls, Continue(r, calls),
         Independent(read) => r.ok /\ \E P : IsTree(r.heap, P, read, curtab, calls)
  PROVE  TreeInv'
<1>1. CASE r.ok
  <2>1. heap' = r.heap /\ stack' = calls /\ UNCHANGED <<curtab, status>>
    BY <1>1 DEF Continue
  <2> QED BY <2>1, TreeStep
<1>2. CASE ~r.ok
  <2>1. status' = "failed" /\ ~Independent(read)
    BY <1>2 DEF Continue, Fail
  <2> QED BY <2>1, TreeStep
<1> QED BY <1>1, <1>2

\* Init.
LEMMA InitTree ==
  ASSUME Init
  PROVE  TreeInv
<1> DEFINE P == [t \in {1} |-> << >>]
<1>1. /\ heap.table = <<NewTable(FALSE)>> /\ DOMAIN heap.table = {1} /\ heap.table[1] = NewTable(FALSE)
      /\ stack = << >> /\ status = "parsing" /\ read = << >> /\ curtab = 1
  <2> DEFINE x == NewTable(FALSE)
  <2>1. DOMAIN <<x>> = {1} /\ <<x>>[1] = x
    OBVIOUS
  <2> QED BY <2>1 DEF Init
<1>2. heap.table[1].entry = << >> /\ ~heap.table[1].readonly
  BY <1>1 DEF NewTable
<1>3. \A t \in {1} : \A k, ref : ~Edge(heap, t, k, ref)
  BY <1>2 DEF Edge
<1>4. IsSeq(<< >>) /\ IsText(read) /\ Len(read) = 0 /\ DOMAIN read = {}
  BY <1>1 DEF IsText, IsSeq
<1>5. \A p : IsSeq(p) /\ IsPrefix(p, << >>) => p = << >>
  <2> SUFFICES ASSUME NEW p, IsSeq(p), IsPrefix(p, << >>) PROVE p = << >>
    OBVIOUS
  <2>1. Len(p) <= Len(<< >>) /\ Len(p) \in Nat
    BY <1>4, PrefixIs, SeqIs
  <2>2. Len(p) = 0
    BY <2>1
  <2> QED BY <2>2, SeqIs
<1>6. Shape(heap, P)
  BY <1>1, <1>2, <1>3, <1>4, <1>5 DEF Shape
<1>7. Means(heap, P, read, Len(read), 0, << >>)
  BY <1>3, <1>4 DEF Means
<1>8. AtHeader(P, read, curtab)
  <2>1. HeaderPath(read, 0) = << >>
    BY <1>4, HeaderPathIs
  <2> QED BY <1>1, <1>4, <2>1 DEF AtHeader
<1>9. IsTree(heap, P, read, curtab, stack)
  BY <1>1, <1>6, <1>7, <1>8 DEF IsTree
<1> QED BY <1>1, <1>4, <1>9 DEF TreeInv

\* An array that notes a kind keeps its elements.
LEMMA NotedItem ==
  ASSUME NEW h, IsHeap(h), NEW a \in DOMAIN h.array, NEW k
  PROVE  LET h1 == Noted(h, a, k)
         IN /\ IsHeap(h1) /\ h1.table = h.table /\ DOMAIN h1.array = DOMAIN h.array
            /\ \A u \in DOMAIN h.array : u # a => h1.array[u] = h.array[u]
            /\ h1.array[a].item = h.array[a].item
<1> DEFINE h1 == Noted(h, a, k)
<1>1. /\ IsHeap(h1) /\ h1.table = h.table /\ DOMAIN h1.array = DOMAIN h.array
      /\ \A u \in DOMAIN h.array : u # a => h1.array[u] = h.array[u]
      /\ h1.array[a] = [kind |-> KindWith(h.array[a].kind, k), item |-> h.array[a].item]
  BY NotedIs
<1> HIDE DEF h1
<1>2. h1.array[a].item = h.array[a].item
  BY <1>1
<1> QED BY <1>1, <1>2 DEF h1

\* An element more changes its array only.
LEMMA ElementItem ==
  ASSUME NEW h, IsHeap(h), NEW a \in DOMAIN h.array, NEW ref, IsRef(h, ref), Fresh(h, ref)
  PROVE  LET g == Element(h, a, ref)
         IN /\ g.table = h.table /\ DOMAIN g.array = DOMAIN h.array
            /\ \A u \in DOMAIN h.array : u # a => g.array[u] = h.array[u]
            /\ g.array[a].item = Append(h.array[a].item, ref)
<1> DEFINE g == Element(h, a, ref)
<1>1. g.table = h.table /\ DOMAIN g.array = DOMAIN h.array
  BY ElementIs
<1>2. \A u \in DOMAIN h.array : u # a => g.array[u] = h.array[u]
  BY ElementIs
<1>3. g.array[a].item = Append(h.array[a].item, ref)
  BY ElementIs
<1> HIDE DEF g
<1> QED BY <1>1, <1>2, <1>3 DEF g

\* A value is one more element.
LEMMA ElementStep ==
  ASSUME NEW h, IsHeap(h), NEW P, Shape(h, P), NEW text, NEW call, OnArray(h, P, text, call),
         call.todo # << >>
  PROVE  LET x == Head(call.todo)
             g == Element(Noted(h, call.at, "v"), call.at, Ref("v", x.val))
         IN /\ x.type = "value" /\ Shape(g, P)
            /\ OnArray(g, P, text, InArray(call.at, Tail(call.todo)))
<1> DEFINE a == call.at
           todo == call.todo
           x == Head(todo)
           ref == Ref("v", x.val)
           h1 == Noted(h, a, "v")
           g == Element(h1, a, ref)
<1>1. /\ text[Len(text)].type = "keyval" /\ a \in DOMAIN h.array
      /\ IsSeq(todo) /\ \A n \in DOMAIN todo : todo[n].type = "value"
      /\ Means(h, P, text, Len(text), a, todo)
  BY DEF OnArray
<1>2. /\ 1 \in DOMAIN todo /\ x = todo[1] /\ IsSeq(Tail(todo))
      /\ \A n \in DOMAIN Tail(todo) : Tail(todo)[n].type = "value"
  <2>1. /\ IsSeq(Tail(todo)) /\ x = todo[1] /\ 1 \in DOMAIN todo
        /\ Len(Tail(todo)) = Len(todo) - 1 /\ Len(todo) \in Nat
        /\ \A n \in 1..Len(Tail(todo)) : Tail(todo)[n] = todo[n + 1]
    BY <1>1, SeqTail
  <2>2. DOMAIN Tail(todo) = 1..Len(Tail(todo)) /\ DOMAIN todo = 1..Len(todo)
    BY <1>1, <2>1, SeqIs
  <2>3. \A n \in 1..Len(Tail(todo)) : n + 1 \in 1..Len(todo)
    BY <2>1
  <2> QED BY <1>1, <2>1, <2>2, <2>3
<1>3. /\ IsHeap(h1) /\ h1.table = h.table /\ DOMAIN h1.array = DOMAIN h.array
      /\ \A u \in DOMAIN h.array : u # a => h1.array[u] = h.array[u]
      /\ h1.array[a].item = h.array[a].item
  BY <1>1, NotedItem
<1>4. IsRef(h1, ref) /\ Fresh(h1, ref) /\ ref = Ref("v", todo[1].val)
  BY <1>2 DEF IsRef, Fresh, Ref, Meet
<1>5. IsSeq(h.array[a].item)
  BY <1>1 DEF IsHeap, IsArray
<1> HIDE DEF h1, ref, x
<1>6. /\ g.table = h1.table /\ DOMAIN g.array = DOMAIN h1.array
      /\ \A u \in DOMAIN h1.array : u # a => g.array[u] = h1.array[u]
      /\ g.array[a].item = Append(h1.array[a].item, ref)
  <2>1. a \in DOMAIN h1.array
    BY <1>1, <1>3
  <2>2. IsHeap(h1) /\ IsRef(h1, ref) /\ Fresh(h1, ref)
    BY <1>3, <1>4
  <2> HIDE DEF a
  <2> QED BY <2>1, <2>2, ElementItem
<1> HIDE DEF g
<1>7. /\ g.table = h.table /\ DOMAIN g.array = DOMAIN h.array
      /\ \A u \in DOMAIN h.array : u # a => g.array[u] = h.array[u]
      /\ g.array[a].item = Append(h.array[a].item, Ref("v", todo[1].val))
  BY <1>3, <1>4, <1>6
<1>8. Means(g, P, text, Len(text), a, Tail(todo))
  BY <1>1, <1>2, <1>5, <1>7, MeansElement
<1>9. Shape(g, P)
  <2>1. \A t \in DOMAIN P : \A k, r : Edge(g, t, k, r) <=> Edge(h, t, k, r)
    BY <1>7 DEF Edge
  <2>2. g.table = h.table
    BY <1>7
  <2> QED BY <2>1, <2>2 DEF Shape
<1>10. OnArray(g, P, text, InArray(a, Tail(todo)))
  BY <1>1, <1>2, <1>7, <1>8 DEF OnArray, InArray
<1> QED BY <1>1, <1>2, <1>9, <1>10 DEF g, h1, ref, x

\* A line that is a header.
LEMMA fill_tabpathTree ==
  ASSUME IInv, TreeInv, NEW line, IsLine(line), fill_tabpath(line)
  PROVE  TreeInv'
<1>1. /\ status = "parsing" /\ stack = << >> /\ read' = Append(read, line)
      /\ IF Len(line.path) <= MaxPath
           THEN stack' = <<Walk(1, line.path, line.type)>> /\ UNCHANGED <<heap, curtab, status>>
           ELSE status' = "failed" /\ stack' = << >>
  BY DEF fill_tabpath, Fail
<1>2. /\ IsText(read) /\ Begins(read, read') /\ read' # << >>
      /\ Len(read') \in DOMAIN read' /\ read'[Len(read')] = line
  BY <1>1, LineMore DEF TreeInv
<1>3. IsText(read')
  BY <1>2 DEF Begins
<1> SUFFICES ASSUME Independent(read')
             PROVE  status' # "failed" /\ \E P : IsTree(heap', P, read', curtab', stack')
  BY <1>1, <1>3 DEF TreeInv
<1>4. line.type = "table" /\ Len(line.path) <= MaxPath
  <2>1. line.type \in {"table", "keyval"} /\ (line.type = "table" => Len(line.path) <= MaxPath)
    BY <1>2 DEF Independent
  <2> QED BY <2>1 DEF fill_tabpath
<1>5. stack' = <<Walk(1, line.path, line.type)>> /\ heap' = heap /\ curtab' = curtab /\ status' = status
  BY <1>1, <1>4
<1>6. Independent(read)
  BY <1>2, BeginsIs
<1>7. PICK P : IsTree(heap, P, read, curtab, stack)
  BY <1>6 DEF TreeInv
<1>8. Shape(heap, P) /\ Means(heap, P, read, Len(read), 0, << >>)
  BY <1>1, <1>7, OneCall DEF IsTree
<1>9. OnHeader(heap, P, read', Walk(1, line.path, line.type))
  BY <1>1, <1>2, <1>4, <1>8, HeaderBegins
<1>10. IsTree(heap, P, read', curtab, stack')
  BY <1>2, <1>5, <1>8, <1>9, TreeCalls
<1> QED BY <1>1, <1>5, <1>10

\* A line that begins with a key.
LEMMA ParseLineTree ==
  ASSUME IInv, TreeInv, NEW line, IsLine(line), ParseLine(line)
  PROVE  TreeInv'
<1>1. /\ status = "parsing" /\ stack = << >> /\ read' = Append(read, line) /\ line.type = "keyval"
      /\ stack' = <<KeyVal(curtab, line.path, line.value)>> /\ UNCHANGED <<heap, curtab, status>>
  BY DEF ParseLine
<1>2. /\ IsText(read) /\ Begins(read, read') /\ read' # << >>
  BY <1>1, LineMore DEF TreeInv
<1>3. IsText(read')
  BY <1>2 DEF Begins
<1> SUFFICES ASSUME Independent(read')
             PROVE  \E P : IsTree(heap, P, read', curtab, stack')
  BY <1>1, <1>3 DEF TreeInv
<1>4. Independent(read)
  BY <1>2, BeginsIs
<1>5. PICK P : IsTree(heap, P, read, curtab, stack)
  BY <1>4 DEF TreeInv
<1>6. Shape(heap, P) /\ AtHeader(P, read, curtab) /\ Means(heap, P, read, Len(read), 0, << >>)
  BY <1>1, <1>5, OneCall DEF IsTree
<1>7. curtab \in DOMAIN P
  BY <1>1, <1>6 DEF IInv, Sound, Shape
<1>8. AtHeader(P, read', curtab) /\ OnKey(heap, P, read', KeyVal(curtab, line.path, line.value))
  BY <1>1, <1>2, <1>6, <1>7, KeyBegins
<1>9. IsTree(heap, P, read', curtab, stack')
  BY <1>1, <1>2, <1>6, <1>8, TreeCalls
<1> QED BY <1>9

\* The walk.
LEMMA walk_tabpathTree ==
  ASSUME IInv, TreeInv, walk_tabpath
  PROVE  TreeInv'
<1> DEFINE call == Head(stack)
           r == TableOfKey(heap, call.at, Head(call.path))
           f == Walk(r.at, Tail(call.path), call.todo)
<1>1. /\ stack # << >> /\ call.in = "walk_tabpath" /\ Len(call.path) > 1
      /\ Continue(r, <<f>> \o Tail(stack)) /\ UNCHANGED read
  BY DEF walk_tabpath
<1>2. status = "parsing"
  BY <1>1, InTree
<1>3. ASSUME Independent(read)
      PROVE  r.ok /\ \E Q : IsTree(r.heap, Q, read, curtab, <<f>> \o Tail(stack))
  <2>1. IsHeap(heap) /\ IsText(read) /\ read # << >> /\ <<f>> \o Tail(stack) = <<f>>
    BY <1>1, <1>3, InTree
  <2>2. PICK P : Shape(heap, P) /\ OnHeader(heap, P, read, call)
    BY <1>1, <1>3, InTree DEF OnKey, OnArray
  <2> HIDE DEF call, f
  <2>3. r.ok /\ \E Q : Shape(r.heap, Q) /\ OnHeader(r.heap, Q, read, f)
    BY <1>1, <1>3, <2>1, <2>2, WalkStep DEF f
  <2>4. PICK Q : Shape(r.heap, Q) /\ OnHeader(r.heap, Q, read, f)
    BY <2>3
  <2>5. IsTree(r.heap, Q, read, curtab, <<f>>)
    BY <2>1, <2>4, TreeCalls
  <2> QED BY <2>1, <2>3, <2>5
<1> HIDE DEF call, f, r
<1> QED BY <1>1, <1>2, <1>3, ContinueStep

\* The table of a header.
LEMMA parse_selectTree ==
  ASSUME IInv, TreeInv, parse_select
  PROVE  TreeInv'
<1> DEFINE call == Head(stack)
           z == Head(call.path)
           r == IF call.todo = "table" THEN create_keytable_in_table(heap, call.at, z)
                ELSE create_element(heap, call.at, z)
           s == create_keytable_in_table(heap, call.at, z)
<1>1. /\ stack # << >> /\ call.in = "walk_tabpath" /\ Len(call.path) = 1 /\ UNCHANGED read
      /\ IF r.ok THEN heap' = r.heap /\ curtab' = r.at /\ stack' = Tail(stack) /\ UNCHANGED status
         ELSE Fail
  BY DEF parse_select
<1>2. status = "parsing"
  BY <1>1, InTree
<1>3. ASSUME Independent(read)
      PROVE  r.ok /\ \E Q : IsTree(r.heap, Q, read, r.at, Tail(stack))
  <2>1. IsHeap(heap) /\ IsText(read) /\ read # << >> /\ Tail(stack) = << >>
    BY <1>1, <1>3, InTree
  <2>2. PICK P : Shape(heap, P) /\ OnHeader(heap, P, read, call)
    BY <1>1, <1>3, InTree DEF OnKey, OnArray
  <2>3. r = s
    BY <2>2 DEF OnHeader
  <2> HIDE DEF call, r
  <2>4. s.ok /\ \E Q : /\ Shape(s.heap, Q) /\ AtHeader(Q, read, s.at)
                       /\ Means(s.heap, Q, read, Len(read), 0, << >>)
    BY <1>1, <1>3, <2>1, <2>2, SelectStep
  <2> HIDE DEF s
  <2>5. PICK Q : /\ Shape(s.heap, Q) /\ AtHeader(Q, read, s.at)
                 /\ Means(s.heap, Q, read, Len(read), 0, << >>)
    BY <2>4
  <2>6. IsTree(s.heap, Q, read, s.at, << >>)
    BY <2>5, TreeCalls
  <2> QED BY <2>1, <2>3, <2>4, <2>6
<1> HIDE DEF call, r
<1>4. CASE r.ok
  BY <1>1, <1>2, <1>3, <1>4, TreeStep
<1>5. CASE ~r.ok
  <2>1. status' = "failed"
    BY <1>1, <1>5 DEF Fail
  <2> QED BY <1>1, <1>2, <1>3, <1>5, <2>1, TreeStep
<1> QED BY <1>4, <1>5

\* A dotted key.
LEMMA DottedKeyTree ==
  ASSUME IInv, TreeInv, DottedKey
  PROVE  TreeInv'
<1> DEFINE call == Head(stack)
           key == Head(call.path)
           old == check_key(heap, call.at, key)
           r == IF old.kind = "t" THEN Done(heap, old.to)
                ELSE create_keytable_in_table(heap, call.at, key)
           f == KeyVal(r.at, Tail(call.path), call.todo)
<1>1. /\ stack # << >> /\ call.in = "parse_keyval" /\ Len(call.path) > 1 /\ UNCHANGED read
      /\ IF IsOpen(call.at) THEN Continue(r, <<f>> \o Tail(stack)) ELSE Fail
  BY DEF DottedKey
<1>2. status = "parsing"
  BY <1>1, InTree
<1>3. ASSUME Independent(read)
      PROVE  /\ IsOpen(call.at) /\ r.ok
             /\ \E Q : IsTree(r.heap, Q, read, curtab, <<f>> \o Tail(stack))
  <2>1. /\ IsHeap(heap) /\ IsText(read) /\ read # << >> /\ <<f>> \o Tail(stack) = <<f>>
        /\ curtab \in DOMAIN heap.table
    BY <1>1, <1>3, InTree
  <2>2. PICK P : Shape(heap, P) /\ AtHeader(P, read, curtab) /\ OnKey(heap, P, read, call)
    BY <1>1, <1>3, InTree DEF OnHeader, OnArray
  <2>3. curtab \in DOMAIN P /\ ~heap.table[call.at].readonly
    BY <2>1, <2>2 DEF Shape, OnKey
  <2> HIDE DEF call, f
  <2>4. r.ok /\ \E Q : /\ Shape(r.heap, Q) /\ AtHeader(Q, read, curtab)
                       /\ OnKey(r.heap, Q, read, f)
    BY <1>1, <1>3, <2>1, <2>2, <2>3, DottedStep DEF f
  <2> HIDE DEF r
  <2>5. PICK Q : Shape(r.heap, Q) /\ AtHeader(Q, read, curtab) /\ OnKey(r.heap, Q, read, f)
    BY <2>4
  <2>6. IsTree(r.heap, Q, read, curtab, <<f>>)
    BY <2>1, <2>5, TreeCalls
  <2> QED BY <2>1, <2>3, <2>4, <2>6 DEF IsOpen
<1> HIDE DEF call, f, r
<1>4. CASE IsOpen(call.at)
  BY <1>1, <1>2, <1>3, <1>4, ContinueStep
<1>5. CASE ~IsOpen(call.at)
  <2>1. status' = "failed"
    BY <1>1, <1>5 DEF Fail
  <2> QED BY <1>1, <1>2, <1>3, <1>5, <2>1, TreeStep
<1> QED BY <1>4, <1>5

\* The value of a key is a value or an array.
LEMMA AssignKeyTree ==
  ASSUME IInv, TreeInv, AssignKey
  PROVE  TreeInv'
<1> DEFINE call == Head(stack)
           key == Head(call.path)
           value == call.todo
           val == create_keyval_in_table(heap, call.at, key, value.val)
           arr == create_keyarray_in_table(heap, call.at, key, "none")
           tab == create_keytable_in_table(heap, call.at, key)
           f == InArray(arr.at, value.elements)
<1>1. /\ stack # << >> /\ call.in = "parse_keyval" /\ Len(call.path) = 1 /\ UNCHANGED read
      /\ \/ ~IsOpen(call.at) /\ Fail
         \/ /\ IsOpen(call.at) /\ value.type = "value"
            /\ Continue(val, Tail(stack))
         \/ /\ IsOpen(call.at) /\ value.type = "array"
            /\ Continue(arr, <<f>> \o Tail(stack))
         \/ /\ IsOpen(call.at) /\ value.type = "inline"
            /\ Continue(tab, <<Inline(tab.at, value.entries)>> \o Tail(stack))
  BY DEF AssignKey
<1>2. status = "parsing"
  BY <1>1, InTree
<1>3. ASSUME Independent(read)
      PROVE  /\ IsOpen(call.at) /\ value.type \in {"value", "array"}
             /\ value.type = "value" => val.ok /\ \E Q : IsTree(val.heap, Q, read, curtab, Tail(stack))
             /\ value.type = "array" =>
                  arr.ok /\ \E Q : IsTree(arr.heap, Q, read, curtab, <<f>> \o Tail(stack))
  <2>1. /\ IsHeap(heap) /\ IsText(read) /\ read # << >> /\ <<f>> \o Tail(stack) = <<f>> /\ Tail(stack) = << >>
    BY <1>1, <1>3, InTree
  <2>2. PICK P : Shape(heap, P) /\ AtHeader(P, read, curtab) /\ OnKey(heap, P, read, call)
    BY <1>1, <1>3, InTree DEF OnHeader, OnArray
  <2> HIDE DEF call, f, val, arr
  <2>3. IsOpen(call.at)
    BY <1>1, <1>3, <2>1, <2>2, KeyIsFree DEF IsOpen
  <2>4. value.type \in {"value", "array"}
    <3>1. /\ Len(read) \in DOMAIN read
          /\ read[Len(read)].type = "keyval" /\ value = read[Len(read)].value
      BY <2>1, <2>2 DEF OnKey, IsText, IsSeq
    <3>2. IsPlain(value)
      BY <1>3, <3>1 DEF Independent
    <3> QED BY <3>2 DEF IsPlain
  <2>5. ASSUME value.type = "value"
        PROVE  val.ok /\ \E Q : IsTree(val.heap, Q, read, curtab, Tail(stack))
    <3>1. val.ok /\ Shape(val.heap, P) /\ Means(val.heap, P, read, Len(read), 0, << >>)
      BY <1>1, <1>3, <2>1, <2>2, <2>5, ValueStep DEF val
    <3>2. IsTree(val.heap, P, read, curtab, << >>)
      BY <2>2, <3>1, TreeCalls
    <3> QED BY <2>1, <3>1, <3>2
  <2>6. ASSUME value.type = "array"
        PROVE  arr.ok /\ \E Q : IsTree(arr.heap, Q, read, curtab, <<f>> \o Tail(stack))
    <3>1. arr.ok /\ Shape(arr.heap, P) /\ OnArray(arr.heap, P, read, f)
      BY <1>1, <1>3, <2>1, <2>2, <2>6, ArrayStep DEF arr, f
    <3>2. IsTree(arr.heap, P, read, curtab, <<f>>)
      BY <2>1, <2>2, <3>1, TreeCalls
    <3> QED BY <2>1, <3>1, <3>2
  <2> QED BY <2>3, <2>4, <2>5, <2>6
<1> HIDE DEF call, f, val, arr, tab, value
<1>4. CASE ~IsOpen(call.at) /\ Fail
  <2>1. status' = "failed"
    BY <1>4 DEF Fail
  <2> QED BY <1>1, <1>2, <1>3, <1>4, <2>1, TreeStep
<1>5. CASE value.type = "value" /\ Continue(val, Tail(stack))
  BY <1>1, <1>2, <1>3, <1>5, ContinueStep
<1>6. CASE value.type = "array" /\ Continue(arr, <<f>> \o Tail(stack))
  BY <1>1, <1>2, <1>3, <1>6, ContinueStep
<1>7. CASE value.type = "inline" /\ Continue(tab, <<Inline(tab.at, value.entries)>> \o Tail(stack))
  <2>1. ~Independent(read)
    BY <1>3, <1>7
  <2> QED BY <1>1, <1>2, <1>7, <2>1, ContinueStep
<1> QED BY <1>1, <1>4, <1>5, <1>6, <1>7

\* There are no inline tables.
LEMMA parse_inline_tableTree ==
  ASSUME IInv, TreeInv, parse_inline_table
  PROVE  TreeInv'
<1>1. /\ stack # << >> /\ Head(stack).in = "parse_inline_table" /\ UNCHANGED <<status, read>>
  BY DEF parse_inline_table
<1>2. status = "parsing"
  BY <1>1, InTree
<1>3. ~Independent(read)
  BY <1>1, InTree DEF OnHeader, OnKey, OnArray
<1> QED BY <1>1, <1>2, <1>3, TreeStep

\* An array has values only.
LEMMA parse_arrayTree ==
  ASSUME IInv, TreeInv, parse_array
  PROVE  TreeInv'
<1> DEFINE call == Head(stack)
           a == call.at
           element == Head(call.todo)
           f == InArray(a, Tail(call.todo))
           rest == <<f>> \o Tail(stack)
           arr == create_array_in_array(Noted(heap, a, "a"), a)
           tab == create_table_in_array(Noted(heap, a, "t"), a)
           val == Done(Element(Noted(heap, a, "v"), a, Ref("v", element.val)), 0)
           end == Done(heap, 0)
<1>1. /\ stack # << >> /\ call.in = "parse_array" /\ UNCHANGED read
      /\ \/ call.todo = << >> /\ Continue(end, Tail(stack))
         \/ /\ call.todo # << >> /\ element.type = "value" /\ Continue(val, rest)
         \/ /\ call.todo # << >> /\ element.type = "array"
            /\ Continue(arr, <<InArray(arr.at, element.elements)>> \o rest)
         \/ /\ call.todo # << >> /\ element.type = "inline"
            /\ Continue(tab, <<Inline(tab.at, element.entries)>> \o rest)
  BY DEF parse_array
<1>2. status = "parsing"
  BY <1>1, InTree
<1>3. ASSUME Independent(read)
      PROVE  /\ call.todo = << >> => end.ok /\ \E Q : IsTree(end.heap, Q, read, curtab, Tail(stack))
             /\ call.todo # << >> => /\ element.type = "value" /\ val.ok
                                     /\ \E Q : IsTree(val.heap, Q, read, curtab, rest)
  <2>1. /\ IsHeap(heap) /\ IsText(read) /\ read # << >> /\ <<f>> \o Tail(stack) = <<f>> /\ Tail(stack) = << >>
    BY <1>1, <1>3, InTree
  <2>2. PICK P : Shape(heap, P) /\ AtHeader(P, read, curtab) /\ OnArray(heap, P, read, call)
    BY <1>1, <1>3, InTree DEF OnHeader, OnKey
  <2>3. end.ok /\ end.heap = heap /\ val.ok /\ val.heap = Element(Noted(heap, a, "v"), a, Ref("v", element.val))
    BY DEF Done
  <2> HIDE DEF call, f, val, end
  <2>4. ASSUME call.todo = << >>
        PROVE  \E Q : IsTree(end.heap, Q, read, curtab, Tail(stack))
    <3>1. Means(heap, P, read, Len(read), 0, << >>)
      BY <2>2, <2>4, MeansWhole DEF OnArray
    <3>2. IsTree(heap, P, read, curtab, << >>)
      BY <2>2, <3>1, TreeCalls
    <3> QED BY <2>1, <2>3, <3>2
  <2>5. ASSUME call.todo # << >>
        PROVE  element.type = "value" /\ \E Q : IsTree(val.heap, Q, read, curtab, rest)
    <3>1. element.type = "value" /\ Shape(val.heap, P) /\ OnArray(val.heap, P, read, f)
      BY <2>1, <2>2, <2>3, <2>5, ElementStep DEF f
    <3>2. IsTree(val.heap, P, read, curtab, <<f>>)
      BY <2>1, <2>2, <3>1, TreeCalls
    <3> QED BY <2>1, <3>1, <3>2
  <2> QED BY <2>3, <2>4, <2>5
<1> HIDE DEF call, f, val, arr, tab, element, end, rest
<1>4. CASE call.todo = << >> /\ Continue(end, Tail(stack))
  BY <1>1, <1>2, <1>3, <1>4, ContinueStep
<1>5. CASE call.todo # << >> /\ element.type = "value" /\ Continue(val, rest)
  BY <1>1, <1>2, <1>3, <1>5, ContinueStep
<1>6. CASE /\ call.todo # << >> /\ element.type = "array"
           /\ Continue(arr, <<InArray(arr.at, element.elements)>> \o rest)
  <2>1. ~Independent(read)
    BY <1>3, <1>6
  <2> QED BY <1>1, <1>2, <1>6, <2>1, ContinueStep
<1>7. CASE /\ call.todo # << >> /\ element.type = "inline"
           /\ Continue(tab, <<Inline(tab.at, element.entries)>> \o rest)
  <2>1. ~Independent(read)
    BY <1>3, <1>7
  <2> QED BY <1>1, <1>2, <1>7, <2>1, ContinueStep
<1> QED BY <1>1, <1>4, <1>5, <1>6, <1>7

\* The end of the file.
LEMMA EofTree ==
  ASSUME TreeInv, Eof
  PROVE  TreeInv'
BY DEF Eof, TreeInv

\* A step inside a line.
LEMMA InsideLineTree ==
  ASSUME IInv, TreeInv, InsideLine
  PROVE  TreeInv'
BY walk_tabpathTree, parse_selectTree, DottedKeyTree, AssignKeyTree, parse_inline_tableTree, parse_arrayTree
   DEF InsideLine

\* A step keeps the meaning of the tree.
LEMMA NextTree ==
  ASSUME IInv, TreeInv, [Next]_vars
  PROVE  TreeInv'
<1>1. ASSUME UNCHANGED vars PROVE TreeInv'
  BY <1>1 DEF vars, TreeInv
<1>2. ASSUME NEW line \in Lines, fill_tabpath(line) PROVE TreeInv'
  BY <1>2, LinesAssumption, fill_tabpathTree
<1>3. ASSUME NEW line \in Lines, ParseLine(line) PROVE TreeInv'
  BY <1>3, LinesAssumption, ParseLineTree
<1>4. CASE Over
  BY <1>1, <1>4 DEF Over
<1> QED BY <1>1, <1>2, <1>3, <1>4, InsideLineTree, EofTree DEF Next

-----------------------------------------------------------------------------
(***************************************************************************)
(* What the accessors find in the tree of a file.                          *)
(***************************************************************************)
\* The tree of a file that has been read to its end.
FileTree(h, P, text) ==
  /\ IsHeap(h) /\ IsText(text) /\ Independent(text)
  /\ Shape(h, P) /\ Means(h, P, text, Len(text), 0, << >>)

\* check_key finds a table by its path.
LEMMA TableFound ==
  ASSUME NEW h, NEW P, NEW text, FileTree(h, P, text), NEW t \in DOMAIN P, NEW k
  PROVE  LET old == check_key(h, t, k)
         IN /\ \A u \in DOMAIN P : P[u] = Append(P[t], k) => old = Ref("t", u)
            /\ old.kind = "t" => old.to \in DOMAIN P /\ P[old.to] = Append(P[t], k)
<1> DEFINE old == check_key(h, t, k)
<1>1. /\ DOMAIN P = DOMAIN h.table /\ IsHeap(h) /\ 1 \in DOMAIN P /\ P[1] = << >>
      /\ \A u \in DOMAIN P : IsSeq(P[u])
      /\ \A u, w \in DOMAIN P : P[u] = P[w] => u = w
  BY DEF FileTree, Shape
<1>2. /\ old.kind # "none" => Edge(h, t, k, old)
      /\ \A p : Edge(h, t, k, p) => old = p
  BY <1>1, check_keyEdge
<1> SUFFICES /\ \A u \in DOMAIN P : P[u] = Append(P[t], k) => old = Ref("t", u)
             /\ old.kind = "t" => old.to \in DOMAIN P /\ P[old.to] = Append(P[t], k)
  OBVIOUS
<1> HIDE DEF old
<1>3. ASSUME NEW u \in DOMAIN P, P[u] = Append(P[t], k)
      PROVE  old = Ref("t", u)
  <2>1. u # 1
    BY <1>1, <1>3, PathMore
  <2>2. PICK w \in DOMAIN P : \E l : Edge(h, w, l, Ref("t", u))
    BY <2>1 DEF FileTree, Shape
  <2>3. PICK l : Edge(h, w, l, Ref("t", u))
    BY <2>2
  <2>4. P[u] = Append(P[w], l)
    BY <2>3 DEF FileTree, Shape, Ref
  <2>5. Append(P[w], l) = Append(P[t], k) /\ IsSeq(P[w]) /\ IsSeq(P[t])
    BY <1>1, <1>3, <2>4
  <2>6. P[w] = P[t] /\ l = k
    BY <2>5, PathAppend
  <2>7. w = t
    BY <1>1, <2>6
  <2> QED BY <1>2, <2>3, <2>6, <2>7
<1>4. old.kind = "t" => old.to \in DOMAIN P /\ P[old.to] = Append(P[t], k)
  BY <1>2 DEF FileTree, Shape
<1> QED BY <1>3, <1>4

\* An entry that is no table is the value of the one line with its path.
LEMMA LineFound ==
  ASSUME NEW h, NEW P, NEW text, FileTree(h, P, text), NEW t \in DOMAIN P, NEW k
  PROVE  LET old == check_key(h, t, k)
             lines == {i \in DOMAIN text : Lands(P, text, i, t, k)}
         IN \/ lines = {} /\ old.kind \notin {"v", "a"}
            \/ \E i \in DOMAIN text : lines = {i} /\ Gives(h, old, text[i].value, 0, << >>)
<1>0. \A p, q, x, y : IsSeq(p) /\ IsSeq(q) /\ Append(p, x) = Append(q, y) => p = q /\ x = y
  BY PathAppend
<1> DEFINE old == check_key(h, t, k)
           lines == {i \in DOMAIN text : Lands(P, text, i, t, k)}
<1>1. /\ DOMAIN P = DOMAIN h.table /\ IsHeap(h) /\ IsText(text) /\ Independent(text)
      /\ \A u \in DOMAIN P : IsSeq(P[u])
      /\ \A u, w \in DOMAIN P : P[u] = P[w] => u = w
      /\ Means(h, P, text, Len(text), 0, << >>)
  BY DEF FileTree, Shape
<1>2. /\ old.kind # "none" => Edge(h, t, k, old)
      /\ \A p : Edge(h, t, k, p) => old = p
  BY <1>1, check_keyEdge
<1>3. DOMAIN text = 1..Len(text)
  BY <1>1 DEF IsText, IsSeq
<1>4. ASSUME NEW i \in lines, NEW j \in lines
      PROVE  i = j
  <2>1. /\ text[i].type = "keyval" /\ i \in DOMAIN text /\ j \in DOMAIN text
        /\ FullPath(text, i) = Append(P[t], k) /\ FullPath(text, j) = Append(P[t], k)
    BY DEF Lands
  <2>2. IsSeq(Append(P[t], k))
    BY <1>1, PathMore
  <2>3. IsPrefix(FullPath(text, i), FullPath(text, j))
    BY <2>1, <2>2, PathMore
  <2> QED BY <1>1, <2>1, <2>3 DEF Independent
<1>5. ASSUME NEW i \in lines
      PROVE  old.kind \in {"v", "a"}
  <2>1. /\ i \in 1..Len(text) /\ text[i].type = "keyval" /\ FullPath(text, i) = Append(P[t], k)
    BY <1>3 DEF Lands
  <2>2. PICK u \in DOMAIN P : \E l, r : Edge(h, u, l, r) /\ r.kind # "t" /\ Lands(P, text, i, u, l)
    BY <1>1, <2>1 DEF Means
  <2>3. PICK l, r : Edge(h, u, l, r) /\ r.kind # "t" /\ Lands(P, text, i, u, l)
    BY <2>2
  <2>4. Append(P[u], l) = Append(P[t], k) /\ IsSeq(P[u]) /\ IsSeq(P[t])
    BY <1>1, <2>1, <2>3 DEF Lands
  <2>5. P[u] = P[t] /\ l = k
    BY <1>0, <2>4
  <2>6. u = t
    BY <1>1, <2>5
  <2>7. old = r /\ r.kind # "t"
    BY <1>2, <2>3, <2>5, <2>6
  <2>8. PICK m \in 1..Len(text) : Gives(h, r, text[m].value, 0, << >>)
    BY <1>1, <2>3, <2>7 DEF Means
  <2> QED BY <2>7, <2>8 DEF Gives
<1> SUFFICES \/ lines = {} /\ old.kind \notin {"v", "a"}
             \/ \E i \in DOMAIN text : lines = {i} /\ Gives(h, old, text[i].value, 0, << >>)
  OBVIOUS
<1>6. ASSUME old.kind \in {"v", "a"}
      PROVE  \E i \in lines : Gives(h, old, text[i].value, 0, << >>)
  <2> HIDE DEF old
  <2>1. Edge(h, t, k, old) /\ old.kind # "t"
    BY <1>2, <1>6
  <2>2. PICK i \in 1..Len(text) : Lands(P, text, i, t, k) /\ Gives(h, old, text[i].value, 0, << >>)
    BY <1>1, <2>1 DEF Means
  <2> QED BY <1>3, <2>2
<1>7. lines \subseteq DOMAIN text
  OBVIOUS
<1> HIDE DEF old, lines
<1> QED BY <1>4, <1>5, <1>6, <1>7

\* The table of the first key of a header or of a longer path.
LEMMA WayFound ==
  ASSUME NEW h, NEW P, NEW text, FileTree(h, P, text), NEW i \in DOMAIN text,
         text[i].type = "table" \/ Len(FullPath(text, i)) > 1
  PROVE  \E u \in DOMAIN P : P[u] = Append(<< >>, Head(FullPath(text, i)))
<1> DEFINE p == FullPath(text, i)
           q == Append(<< >>, Head(p))
<1>1. /\ IsText(text) /\ Independent(text) /\ Means(h, P, text, Len(text), 0, << >>)
      /\ \A u \in DOMAIN P : IsSeq(P[u])
  BY DEF FileTree, Shape
<1>2. IsSeq(<< >>) /\ IsSeq(p) /\ IsLine(text[i]) /\ i \in 1..Len(text) /\ << >> \o p = p
  <2>1. IsSeq(<< >>)
    BY DEF IsSeq
  <2>2. IsSeq(p)
    BY <1>1, FullPathIs
  <2>3. << >> \o p = p
    BY <2>2, ConcatEmptySeq DEF IsSeq
  <2> QED BY <1>1, <2>1, <2>2, <2>3 DEF IsText, IsSeq
<1>3. p # << >>
  <2>1. CASE text[i].type = "table"
    BY <1>1, <1>2, <2>1, FullPathIs DEF IsLine
  <2>2. CASE Len(p) > 1
    BY <2>2
  <2> QED BY <2>1, <2>2
<1>4. IsSeq(q) /\ IsPrefix(q, p) /\ (Len(p) > 1 => q # p)
  BY <1>2, <1>3, PathStep
<1> HIDE DEF q
<1>5. ASSUME NEW u \in DOMAIN P, IsPrefix(q, P[u])
      PROVE  \E w \in DOMAIN P : P[w] = q
  BY <1>4, <1>5 DEF FileTree, Shape
<1>6. CASE text[i].type = "table"
  <2>1. PICK u \in DOMAIN P : P[u] = text[i].path
    BY <1>1, <1>2, <1>6 DEF Means
  <2>2. P[u] = p
    BY <1>1, <1>6, <2>1, FullPathIs
  <2> QED BY <1>4, <1>5, <2>2 DEF q
<1>7. CASE text[i].type = "keyval" /\ Len(p) > 1
  <2>1. PICK u \in DOMAIN P : \E l, r : Edge(h, u, l, r) /\ r.kind # "t" /\ Lands(P, text, i, u, l)
    BY <1>1, <1>2, <1>7 DEF Means
  <2>2. PICK l : p = Append(P[u], l)
    BY <2>1 DEF Lands
  <2> HIDE DEF p
  <2>3. IsPrefix(q, P[u]) \/ q = Append(P[u], l)
    BY <1>1, <1>4, <2>2, PrefixAppend
  <2>4. q # p
    BY <1>4, <1>7
  <2>5. \E w \in DOMAIN P : P[w] = q
    BY <1>5, <2>2, <2>3, <2>4
  <2> QED BY <2>5 DEF p, q
<1> QED BY <1>1, <1>6, <1>7 DEF Independent

\* A line with a key below another one has its table.
LEMMA LandsFound ==
  ASSUME NEW h, NEW P, NEW text, FileTree(h, P, text), NEW i \in DOMAIN text, text[i].type = "keyval"
  PROVE  \E t \in DOMAIN P : \E k : Lands(P, text, i, t, k)
<1>1. DOMAIN text = 1..Len(text)
  BY DEF FileTree, IsText, IsSeq
<1> QED BY <1>1 DEF FileTree, Means

\* A line that is not the last of a file that has been read in part.
LEMMA LineStep ==
  ASSUME IInv, TreeInv, NEW line, IsLine(line), fill_tabpath(line) \/ ParseLine(line)
  PROVE  IInv' /\ TreeInv' /\ status = "parsing" /\ status' # "parsed" /\ read' = Append(read, line)
<1>1. /\ status = "parsing" /\ read' = Append(read, line) /\ status' \in {status, "failed"}
  BY DEF fill_tabpath, ParseLine, Fail
<1>2. IInv'
  BY fill_tabpathStep, ParseLineStep
<1>3. TreeInv'
  BY fill_tabpathTree, ParseLineTree
<1> QED BY <1>1, <1>2, <1>3

\* A step that reads no line.
LEMMA RestStep ==
  ASSUME IInv, TreeInv, InsideLine \/ Eof
  PROVE  IInv' /\ TreeInv' /\ read' = read /\ (InsideLine => status' # "parsed")
<1>1. IInv'
  <2>1. [Next]_vars
    BY DEF Next
  <2> QED BY <2>1, NextInv
<1>2. TreeInv'
  BY InsideLineTree, EofTree
<1>3. read' = read
  BY DEF InsideLine, walk_tabpath, parse_select, DottedKey, AssignKey, parse_inline_table, parse_array, Eof
<1>4. ASSUME InsideLine PROVE status' # "parsed"
  <2>1. status = "parsing"
    <3>1. stack # << >>
      BY <1>4 DEF InsideLine, walk_tabpath, parse_select, DottedKey, AssignKey, parse_inline_table, parse_array
    <3> QED BY <3>1, InTree
  <2>2. status' \in {status, "failed"}
    BY <1>4 DEF InsideLine, walk_tabpath, parse_select, DottedKey, AssignKey, parse_inline_table, parse_array,
                Continue, Fail
  <2> QED BY <2>1, <2>2
<1> QED BY <1>1, <1>2, <1>3, <1>4

\* Of a file that has been read in part, the next line; and one that has been read to the end.
LEMMA BeginsNext ==
  ASSUME NEW text, NEW more, Begins(text, more)
  PROVE  LET line == more[Len(text) + 1]
         IN /\ Len(text) < Len(more) => IsLine(line) /\ Begins(Append(text, line), more)
            /\ Len(text) = Len(more) => text = more
<1> DEFINE line == more[Len(text) + 1]
           longer == Append(text, line)
<1>1. /\ IsSeq(text) /\ IsSeq(more) /\ IsText(text) /\ IsText(more) /\ Len(text) <= Len(more)
      /\ \A i \in DOMAIN text : more[i] = text[i]
  BY DEF Begins, IsText
<1>2. /\ Len(text) \in Nat /\ Len(more) \in Nat /\ DOMAIN text = 1..Len(text) /\ DOMAIN more = 1..Len(more)
  BY <1>1, SeqIs
<1>3. ASSUME Len(text) < Len(more)
      PROVE  IsLine(line) /\ Begins(longer, more)
  <2>1. Len(text) + 1 \in DOMAIN more
    BY <1>2, <1>3
  <2>2. IsLine(line)
    BY <1>1, <2>1 DEF IsText
  <2>3. /\ Begins(text, longer) /\ Len(longer) = Len(text) + 1 /\ Len(longer) \in DOMAIN longer
        /\ longer[Len(longer)] = line
    BY <1>1, <2>2, LineMore
  <2> SUFFICES Begins(longer, more)
    BY <2>2
  <2> HIDE DEF longer
  <2>4. IsText(longer) /\ IsSeq(longer) /\ \A i \in DOMAIN text : longer[i] = text[i]
    BY <2>3 DEF Begins, IsText
  <2>5. DOMAIN longer = 1..Len(longer)
    BY <2>4, SeqIs
  <2>6. ASSUME NEW i \in DOMAIN longer PROVE more[i] = longer[i]
    <3>1. i \in DOMAIN text \/ i = Len(text) + 1
      BY <1>2, <2>3, <2>5
    <3> QED BY <1>1, <2>3, <2>4, <3>1
  <2>7. Len(longer) <= Len(more)
    BY <1>2, <1>3, <2>3
  <2> QED BY <1>1, <2>4, <2>6, <2>7 DEF Begins
<1>4. Len(text) = Len(more) => text = more
  BY <1>1, <1>2, SeqEq
<1> QED BY <1>3, <1>4

\* The tree of a file that has been read.
LEMMA ParsedTree ==
  ASSUME IInv, TreeInv, status = "parsed", Independent(read)
  PROVE  \E P : FileTree(heap, P, read)
<1>1. PICK P : IsTree(heap, P, read, curtab, stack)
  BY DEF TreeInv
<1>2. stack = << >> /\ IsText(read) /\ IsHeap(heap)
  BY DEF TreeInv, IInv, Sound
<1>3. Shape(heap, P) /\ Means(heap, P, read, Len(read), 0, << >>)
  BY <1>1, <1>2, OneCall DEF IsTree
<1> QED BY <1>2, <1>3 DEF FileTree

\* A path of one key, and of two.
LEMMA TwoKeys ==
  ASSUME NEW s, NEW k
  PROVE  IsSeq(<<s>>) /\ Append(<< >>, s) = <<s>> /\ Append(<<s>>, k) = <<s, k>>
<1>1. IsSeq(<< >>)
  BY DEF IsSeq
<1>2. Append(<< >>, s) = <<s>> /\ Append(<<s>>, k) = <<s, k>>
  <2>1. << >> \in Seq({s, k}) /\ <<s>> \in Seq({s, k}) /\ s \in {s, k} /\ k \in {s, k}
    OBVIOUS
  <2>2. Append(<< >>, s) = << >> \o <<s>>
    BY <2>1, AppendIsConcat
  <2>3. << >> \o <<s>> = <<s>>
    OBVIOUS
  <2>4. Append(<<s>>, k) = <<s, k>>
    <3>1. <<s, k>> \in Seq({s, k}) /\ Append(<<s>>, k) \in Seq({s, k})
      BY <2>1, AppendProperties
    <3>2. Len(Append(<<s>>, k)) = 2 /\ Append(<<s>>, k)[1] = s /\ Append(<<s>>, k)[2] = k
      <4>1. Len(<<s>>) = 1 /\ <<s>>[1] = s
        OBVIOUS
      <4> QED BY <2>1, <4>1, AppendProperties
    <3>3. Len(<<s, k>>) = 2 /\ <<s, k>>[1] = s /\ <<s, k>>[2] = k
      OBVIOUS
    <3> DEFINE a == Append(<<s>>, k)
               b == <<s, k>>
    <3> SUFFICES a = b
      OBVIOUS
    <3> HIDE DEF a, b
    <3>4. a \in Seq({s, k}) /\ b \in Seq({s, k}) /\ Len(a) = Len(b) /\ \A i \in 1..Len(a) : a[i] = b[i]
      <4>1. Len(a) = 2 /\ Len(b) = 2 /\ a[1] = b[1] /\ a[2] = b[2]
        BY <3>2, <3>3 DEF a, b
      <4>2. a \in Seq({s, k}) /\ b \in Seq({s, k})
        BY <3>1 DEF a, b
      <4> QED BY <4>1, <4>2
    <3> QED BY <3>4, SeqEqual
  <2> QED BY <2>2, <2>3, <2>4
<1>3. IsSeq(Append(<< >>, s))
  BY <1>1, SeqAppend
<1> QED BY <1>2, <1>3

\* The line with the value of a key.
KeyLines(text, path) == {i \in DOMAIN text : text[i].type = "keyval" /\ FullPath(text, i) = path}

\* What the accessors find for key k of the table [s].
LEMMA SectionFound ==
  ASSUME NEW h, NEW P, NEW text, FileTree(h, P, text), NEW s, NEW k
  PROVE  LET old == check_key(h, 1, s)
             ref == check_key(h, old.to, k)
             lines == KeyLines(text, <<s, k>>)
         IN \/ lines = {} /\ (old.kind = "t" => ref.kind \notin {"v", "a"})
            \/ \E i \in DOMAIN text : /\ lines = {i} /\ old.kind = "t"
                                      /\ Gives(h, ref, text[i].value, 0, << >>)
<1> DEFINE old == check_key(h, 1, s)
           ref == check_key(h, old.to, k)
           lines == KeyLines(text, <<s, k>>)
<1>0. \A p, q, x, y : IsSeq(p) /\ IsSeq(q) /\ Append(p, x) = Append(q, y) => p = q /\ x = y
  BY PathAppend
<1>1. /\ 1 \in DOMAIN P /\ P[1] = << >> /\ IsSeq(<<s>>)
      /\ \A u \in DOMAIN P : IsSeq(P[u])
      /\ Append(<< >>, s) = <<s>> /\ Append(<<s>>, k) = <<s, k>>
  <2>1. 1 \in DOMAIN P /\ P[1] = << >> /\ \A u \in DOMAIN P : IsSeq(P[u])
    BY DEF FileTree, Shape
  <2> QED BY <2>1, TwoKeys
<1>2. /\ \A u \in DOMAIN P : P[u] = <<s>> => old = Ref("t", u)
      /\ old.kind = "t" => old.to \in DOMAIN P /\ P[old.to] = <<s>>
  <2>1. \A t \in DOMAIN P : \A l :
          /\ \A u \in DOMAIN P : P[u] = Append(P[t], l) => check_key(h, t, l) = Ref("t", u)
          /\ check_key(h, t, l).kind = "t" =>
               check_key(h, t, l).to \in DOMAIN P /\ P[check_key(h, t, l).to] = Append(P[t], l)
    BY TableFound
  <2> QED BY <1>1, <2>1
<1> SUFFICES \/ lines = {} /\ (old.kind = "t" => ref.kind \notin {"v", "a"})
             \/ \E i \in DOMAIN text : /\ lines = {i} /\ old.kind = "t"
                                       /\ Gives(h, ref, text[i].value, 0, << >>)
  OBVIOUS
<1>3. CASE old.kind = "t"
  <2> DEFINE t == old.to
             lands == {i \in DOMAIN text : Lands(P, text, i, t, k)}
  <2>1. t \in DOMAIN P /\ P[t] = <<s>>
    BY <1>2, <1>3
  <2>2. lands = lines
    BY <1>1, <2>1 DEF Lands, KeyLines
  <2>3. \/ lands = {} /\ ref.kind \notin {"v", "a"}
        \/ \E i \in DOMAIN text : lands = {i} /\ Gives(h, ref, text[i].value, 0, << >>)
    BY <2>1, LineFound
  <2> HIDE DEF lands, ref, old, lines
  <2> QED BY <1>3, <2>2, <2>3
<1>4. CASE old.kind # "t"
  <2>1. ASSUME NEW i \in lines PROVE FALSE
    <3>1. i \in DOMAIN text /\ text[i].type = "keyval" /\ FullPath(text, i) = <<s, k>>
      BY DEF KeyLines
    <3>2. PICK t \in DOMAIN P : \E l : Lands(P, text, i, t, l)
      BY <3>1, LandsFound
    <3>3. PICK l : Lands(P, text, i, t, l)
      BY <3>2
    <3>4. Append(P[t], l) = Append(<<s>>, k) /\ IsSeq(P[t])
      BY <1>1, <3>1, <3>3 DEF Lands
    <3>5. P[t] = <<s>>
      BY <1>0, <1>1, <3>4
    <3>6. old = Ref("t", t)
      BY <1>2, <3>5
    <3> QED BY <1>4, <3>6 DEF Ref
  <2> HIDE DEF lines, old, ref
  <2> QED BY <1>4, <2>1
<1> QED BY <1>3, <1>4

\* The table of a header, or of the way below it.
LEMMA SectionThere ==
  ASSUME NEW h, NEW P, NEW text, FileTree(h, P, text), NEW i \in DOMAIN text,
         FullPath(text, i) # << >>, text[i].type = "table" \/ Len(FullPath(text, i)) > 1
  PROVE  LET old == check_key(h, 1, Head(FullPath(text, i)))
         IN old.kind = "t"
<1> DEFINE s == Head(FullPath(text, i))
<1>1. PICK u \in DOMAIN P : P[u] = Append(<< >>, s)
  BY WayFound
<1>2. 1 \in DOMAIN P /\ P[1] = << >>
  BY DEF FileTree, Shape
<1> HIDE DEF s
<1>3. check_key(h, 1, s) = Ref("t", u)
  <2>1. \A t \in DOMAIN P : \A l :
          \A v \in DOMAIN P : P[v] = Append(P[t], l) => check_key(h, t, l) = Ref("t", v)
    BY TableFound
  <2> QED BY <1>1, <1>2, <2>1
<1> QED BY <1>3 DEF Ref, s

-----------------------------------------------------------------------------
(***************************************************************************)
(* The theorems.                                                           *)
(***************************************************************************)
\* Whatever independent lines a configuration file has, in whatever order its
\* headers come and however often a dotted key goes through a table that is
\* there, toml_parse accepts it.
THEOREM IndependentFilesAreAccepted == Spec => []IndependentLinesAreAccepted
<1>1. Init => TreeInv
  BY InitTree
<1>2. IInv /\ TreeInv /\ [Next]_vars => TreeInv'
  BY NextTree
<1>3. TreeInv => IndependentLinesAreAccepted
  BY DEF TreeInv, IndependentLinesAreAccepted
<1> QED BY <1>1, <1>2, <1>3, Invariance, PTL DEF Spec

\* The tree of a file of independent lines that has been read is that of its
\* lines: each table has one path, each line its entry or its table, with the value
\* the line gives, and nothing is in the tree that no line put there.
LinesHaveLanded ==
  status = "parsed" /\ Independent(read) => \E P : FileTree(heap, P, read)

\* What toml_parse gives to parse_config is what the lines say: for files of
\* independent lines, what AssignmentsLand of TomlMeaning checks for files of all kinds.
THEOREM LinesLand == Spec => []LinesHaveLanded
<1>1. Init => TreeInv
  BY InitTree
<1>2. IInv /\ TreeInv /\ [Next]_vars => TreeInv'
  BY NextTree
<1>3. IInv /\ TreeInv => LinesHaveLanded
  BY ParsedTree DEF LinesHaveLanded
<1> QED BY <1>1, <1>2, <1>3, Invariance, PTL DEF Spec
=============================================================================
