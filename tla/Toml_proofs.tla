----------------------------- MODULE Toml_proofs ----------------------------
(***************************************************************************)
(* Proofs about Toml: for every file, the parser builds a tree, no table   *)
(* has a key twice, and keys go to open tables only.                       *)
(*                                                                         *)
(* Nothing is assumed of the lines: whatever their paths and values are,   *)
(* the builders keep the heap in order.                                    *)
(***************************************************************************)
EXTENDS Toml, NatLemmas, SequenceTheorems, TLAPS

(***************************************************************************)
(* The inductive invariant.                                                *)
(***************************************************************************)
IsTable(h, t) ==
  LET x == h.table[t]
  IN /\ x = [implicit |-> x.implicit, readonly |-> x.readonly, entry |-> x.entry]
     /\ IsSeq(x.entry)
     /\ \A n \in DOMAIN x.entry : IsRef(h, x.entry[n].ref)
     /\ \A m, n \in DOMAIN x.entry : x.entry[m].key = x.entry[n].key => m = n
     /\ x.readonly \in BOOLEAN /\ ~(x.implicit /\ x.readonly)

IsArray(h, a) ==
  LET x == h.array[a]
  IN /\ x = [kind |-> x.kind, item |-> x.item]
     /\ IsSeq(x.item)
     /\ \A n \in DOMAIN x.item : IsRef(h, x.item[n])

IsHeap(h) ==
  /\ h = [table |-> h.table, array |-> h.array]
  /\ IsSeq(h.table) /\ IsSeq(h.array)
  /\ \A t \in DOMAIN h.table : IsTable(h, t)
  /\ \A a \in DOMAIN h.array : IsArray(h, a)
  /\ Unshared(h)

\* The kind of an array says what is in it: "none" is an array without elements,
\* "t" one of tables only.
KindFits(arr) ==
  /\ arr.kind = "none" => arr.item = << >>
  /\ arr.kind = "t" => arr.item # << >> /\ \A n \in DOMAIN arr.item : arr.item[n].kind = "t"

KindsFit(h) == \A a \in DOMAIN h.array : KindFits(h.array[a])

\* A call works on what is there, and the table that a call fills for an inline
\* table was not made by a header on its way.
IsFrame(h, call) ==
  /\ call.in \in {"walk_tabpath", "parse_keyval", "parse_inline_table"} => call.at \in DOMAIN h.table
  /\ call.in = "parse_inline_table" => ~h.table[call.at].implicit
  /\ call.in = "parse_array" => call.at \in DOMAIN h.array

\* The calls under way.
Calls(h, s) == IsSeq(s) /\ \A n \in DOMAIN s : IsFrame(h, s[n])

Sound(h, c, s) == IsHeap(h) /\ KindsFit(h) /\ c \in DOMAIN h.table /\ Calls(h, s)

IInv ==
  /\ status \in {"parsing", "parsed", "failed"}
  /\ IF status = "failed"
       THEN heap = [table |-> << >>, array |-> << >>] /\ stack = << >>
       ELSE Sound(heap, curtab, stack)

-----------------------------------------------------------------------------
(***************************************************************************)
(* Sequences of anything.                                                  *)
(***************************************************************************)
\* A sequence has its length and its elements.
LEMMA SeqIs ==
  ASSUME NEW s, IsSeq(s)
  PROVE  /\ Len(s) \in Nat /\ DOMAIN s = 1..Len(s)
         /\ s = << >> <=> Len(s) = 0
         /\ s = << >> <=> DOMAIN s = {}
<1>1. Len(s) \in Nat /\ DOMAIN s = 1..Len(s)
  BY LenProperties DEF IsSeq
<1>2. s = << >> <=> Len(s) = 0
  BY EmptySeq DEF IsSeq
<1> QED BY <1>1, <1>2

\* One more element.
LEMMA SeqAppend ==
  ASSUME NEW s, IsSeq(s), NEW x
  PROVE  LET r == Append(s, x)
         IN /\ IsSeq(r) /\ r # << >>
            /\ Len(r) = Len(s) + 1 /\ DOMAIN r = 1..Len(s) + 1 /\ DOMAIN s = 1..Len(s) /\ Len(s) \in Nat
            /\ \A n \in DOMAIN s : r[n] = s[n]
            /\ r[Len(s) + 1] = x
<1> DEFINE r == Append(s, x)
           S == ToSet(s) \cup {x}
<1>1. s \in Seq(ToSet(s)) /\ Len(s) \in Nat /\ DOMAIN s = 1..Len(s)
  BY SeqIs DEF IsSeq
<1>2. s \in Seq(S)
  BY <1>1, SeqMonotonic
<1>3. /\ r \in Seq(S) /\ Len(r) = Len(s) + 1
      /\ \A n \in 1..Len(s) : r[n] = s[n]
      /\ r[Len(s) + 1] = x
  BY <1>2, AppendProperties DEF S
<1>4. DOMAIN r = 1..Len(s) + 1
  BY <1>3, LenProperties
<1>5. ToSet(r) = S
  BY <1>1, <1>3, <1>4 DEF ToSet
<1> QED
  BY <1>1, <1>3, <1>4, <1>5 DEF IsSeq

\* One element changes.
LEMMA SeqExcept ==
  ASSUME NEW s, IsSeq(s), NEW k \in DOMAIN s, NEW x
  PROVE  LET r == [s EXCEPT ![k] = x]
         IN /\ IsSeq(r)
            /\ Len(r) = Len(s) /\ DOMAIN r = DOMAIN s
            /\ \A n \in DOMAIN s : r[n] = IF n = k THEN x ELSE s[n]
<1> DEFINE r == [s EXCEPT ![k] = x]
<1>1. Len(s) \in Nat /\ DOMAIN s = 1..Len(s)
  BY SeqIs
<1>2. /\ DOMAIN r = 1..Len(s)
      /\ \A n \in DOMAIN s : r[n] = IF n = k THEN x ELSE s[n]
  BY <1>1
<1>3. r = [n \in 1..Len(s) |-> r[n]]
  BY <1>2
<1>4. \A n \in 1..Len(s) : r[n] \in ToSet(r)
  BY <1>2 DEF ToSet
<1> HIDE DEF r
<1>5. r \in Seq(ToSet(r))
  BY <1>1, <1>3, <1>4, SeqDef
<1> QED
  BY <1>1, <1>2, <1>5, LenProperties DEF IsSeq, r

-----------------------------------------------------------------------------
(***************************************************************************)
(* What is allocated.                                                      *)
(***************************************************************************)
\* Nothing in h leads to where ref leads.
Fresh(h, ref) ==
  /\ \A t \in DOMAIN h.table : \A m \in DOMAIN h.table[t].entry : ~Meet(EntryRef(h, t, m), ref)
  /\ \A a \in DOMAIN h.array : \A m \in DOMAIN h.array[a].item : ~Meet(ItemRef(h, a, m), ref)
  /\ ~Meet(ref, Ref("t", 1))

\* A new table is empty, and nothing leads to it.
LEMMA AddTableIs ==
  ASSUME NEW h, IsHeap(h), 1 \in DOMAIN h.table, NEW b \in BOOLEAN
  PROVE  LET h2 == AddTable(h, b)
             new == Len(h.table) + 1
         IN /\ IsHeap(h2) /\ Fresh(h2, Ref("t", new))
            /\ h2.array = h.array
            /\ new \notin DOMAIN h.table /\ DOMAIN h2.table = DOMAIN h.table \cup {new}
            /\ \A u \in DOMAIN h.table : h2.table[u] = h.table[u]
            /\ h2.table[new] = NewTable(b)
<1> DEFINE T == Append(h.table, NewTable(b))
           h2 == AddTable(h, b)
           new == Len(h.table) + 1
<1>1. h2.table = T /\ h2.array = h.array /\ h2 = [table |-> h2.table, array |-> h2.array]
  BY DEF AddTable, IsHeap
<1>2. /\ IsSeq(T) /\ DOMAIN T = 1..new /\ DOMAIN h.table = 1..Len(h.table) /\ Len(h.table) \in Nat
      /\ \A u \in DOMAIN h.table : T[u] = h.table[u]
      /\ T[new] = NewTable(b)
  BY SeqAppend DEF IsHeap
<1> HIDE DEF T, h2
<1>3. new \notin DOMAIN h.table /\ DOMAIN h2.table = DOMAIN h.table \cup {new} /\ new # 1
  BY <1>1, <1>2
<1>4. /\ NewTable(b) = [implicit |-> b, readonly |-> FALSE, entry |-> << >>]
      /\ DOMAIN NewTable(b).entry = {} /\ IsSeq(NewTable(b).entry)
  BY EmptySeq DEF NewTable, IsSeq
<1>5. \A ref : IsRef(h, ref) => IsRef(h2, ref) /\ ~Meet(ref, Ref("t", new))
  BY <1>1, <1>3 DEF IsRef, Meet, Ref
<1>6. \A t \in DOMAIN h2.table : IsTable(h2, t)
  <2> SUFFICES ASSUME NEW t \in DOMAIN h2.table PROVE IsTable(h2, t)
    OBVIOUS
  <2>1. CASE t = new
    BY <2>1, <1>1, <1>2, <1>4 DEF IsTable
  <2>2. CASE t \in DOMAIN h.table
    <3>1. h2.table[t] = h.table[t] /\ IsTable(h, t)
      BY <1>1, <1>2, <2>2 DEF IsHeap
    <3> QED BY <3>1, <1>5 DEF IsTable
  <2> QED BY <2>1, <2>2, <1>3
<1>7. \A a \in DOMAIN h2.array : IsArray(h2, a)
  BY <1>1, <1>5 DEF IsArray, IsHeap
<1>8. \A t \in DOMAIN h2.table : \A m \in DOMAIN h2.table[t].entry :
        /\ t \in DOMAIN h.table /\ m \in DOMAIN h.table[t].entry
        /\ EntryRef(h2, t, m) = EntryRef(h, t, m) /\ IsRef(h, EntryRef(h, t, m))
  BY <1>1, <1>2, <1>3, <1>4 DEF EntryRef, IsHeap, IsTable
<1>9. \A a \in DOMAIN h2.array : \A m \in DOMAIN h2.array[a].item :
        /\ a \in DOMAIN h.array /\ m \in DOMAIN h.array[a].item
        /\ ItemRef(h2, a, m) = ItemRef(h, a, m) /\ IsRef(h, ItemRef(h, a, m))
  BY <1>1 DEF ItemRef, IsHeap, IsArray
<1>10. Unshared(h)
  BY DEF IsHeap
<1>11. Unshared(h2)
  BY <1>8, <1>9, <1>10 DEF Unshared
<1>12. Fresh(h2, Ref("t", new))
  <2>1. ~Meet(Ref("t", new), Ref("t", 1))
    BY <1>3 DEF Meet, Ref
  <2> QED BY <1>5, <1>8, <1>9, <2>1 DEF Fresh
<1> QED
  BY <1>1, <1>2, <1>3, <1>6, <1>7, <1>11, <1>12 DEF IsHeap, h2

\* A new array is empty, and nothing leads to it.
LEMMA AddArrayIs ==
  ASSUME NEW h, IsHeap(h), NEW kind
  PROVE  LET h2 == AddArray(h, kind)
             new == Len(h.array) + 1
         IN /\ IsHeap(h2) /\ Fresh(h2, Ref("a", new))
            /\ h2.table = h.table
            /\ new \notin DOMAIN h.array /\ DOMAIN h2.array = DOMAIN h.array \cup {new}
            /\ \A u \in DOMAIN h.array : h2.array[u] = h.array[u]
            /\ h2.array[new] = [kind |-> kind, item |-> << >>]
<1> DEFINE x == [kind |-> kind, item |-> << >>]
           A == Append(h.array, x)
           h2 == AddArray(h, kind)
           new == Len(h.array) + 1
<1>1. h2.array = A /\ h2.table = h.table /\ h2 = [table |-> h2.table, array |-> h2.array]
  BY DEF AddArray, IsHeap
<1>2. /\ IsSeq(A) /\ DOMAIN A = 1..new /\ DOMAIN h.array = 1..Len(h.array) /\ Len(h.array) \in Nat
      /\ \A u \in DOMAIN h.array : A[u] = h.array[u]
      /\ A[new] = x
  BY SeqAppend DEF IsHeap
<1> HIDE DEF A, h2
<1>3. new \notin DOMAIN h.array /\ DOMAIN h2.array = DOMAIN h.array \cup {new}
  BY <1>1, <1>2
<1>4. DOMAIN x.item = {} /\ IsSeq(x.item) /\ x = [kind |-> x.kind, item |-> x.item]
  BY EmptySeq DEF IsSeq
<1>5. \A ref : IsRef(h, ref) => IsRef(h2, ref) /\ ~Meet(ref, Ref("a", new))
  BY <1>1, <1>3 DEF IsRef, Meet, Ref
<1>6. \A a \in DOMAIN h2.array : IsArray(h2, a)
  <2> SUFFICES ASSUME NEW a \in DOMAIN h2.array PROVE IsArray(h2, a)
    OBVIOUS
  <2>1. CASE a = new
    BY <2>1, <1>1, <1>2, <1>4 DEF IsArray
  <2>2. CASE a \in DOMAIN h.array
    <3>1. h2.array[a] = h.array[a] /\ IsArray(h, a)
      BY <1>1, <1>2, <2>2 DEF IsHeap
    <3> QED BY <3>1, <1>5 DEF IsArray
  <2> QED BY <2>1, <2>2, <1>3
<1>7. \A t \in DOMAIN h2.table : IsTable(h2, t)
  BY <1>1, <1>5 DEF IsTable, IsHeap
<1>8. \A t \in DOMAIN h2.table : \A m \in DOMAIN h2.table[t].entry :
        /\ t \in DOMAIN h.table /\ m \in DOMAIN h.table[t].entry
        /\ EntryRef(h2, t, m) = EntryRef(h, t, m) /\ IsRef(h, EntryRef(h, t, m))
  BY <1>1 DEF EntryRef, IsHeap, IsTable
<1>9. \A a \in DOMAIN h2.array : \A m \in DOMAIN h2.array[a].item :
        /\ a \in DOMAIN h.array /\ m \in DOMAIN h.array[a].item
        /\ ItemRef(h2, a, m) = ItemRef(h, a, m) /\ IsRef(h, ItemRef(h, a, m))
  BY <1>1, <1>2, <1>3, <1>4 DEF ItemRef, IsHeap, IsArray
<1>10. Unshared(h)
  BY DEF IsHeap
<1>11. Unshared(h2)
  BY <1>8, <1>9, <1>10 DEF Unshared
<1>12. Fresh(h2, Ref("a", new))
  <2>1. ~Meet(Ref("a", new), Ref("t", 1))
    BY DEF Meet, Ref
  <2> QED BY <1>5, <1>8, <1>9, <2>1 DEF Fresh
<1> QED
  BY <1>1, <1>2, <1>3, <1>6, <1>7, <1>11, <1>12 DEF IsHeap, h2

\* A key that was not there, with a reference to something new.
LEMMA EnterIs ==
  ASSUME NEW h, IsHeap(h), NEW t \in DOMAIN h.table, NEW key, NEW ref,
         IsRef(h, ref), Fresh(h, ref),
         \A n \in DOMAIN h.table[t].entry : h.table[t].entry[n].key # key
  PROVE  LET h2 == Enter(h, t, key, ref)
         IN /\ IsHeap(h2)
            /\ h2.array = h.array /\ DOMAIN h2.table = DOMAIN h.table
            /\ \A u \in DOMAIN h.table : u # t => h2.table[u] = h.table[u]
            /\ h2.table[t].implicit = h.table[t].implicit
            /\ \A q : Fresh(h, q) /\ ~Meet(ref, q) => Fresh(h2, q)
<1> DEFINE x == h.table[t]
           E == Append(x.entry, [key |-> key, ref |-> ref])
           y == [implicit |-> x.implicit, readonly |-> x.readonly, entry |-> E]
           T == [h.table EXCEPT ![t] = y]
           h2 == Enter(h, t, key, ref)
           last == Len(x.entry) + 1
<1>1. h2.table = T /\ h2.array = h.array /\ h2 = [table |-> h2.table, array |-> h2.array]
  <2>1. x = [implicit |-> x.implicit, readonly |-> x.readonly, entry |-> x.entry]
    BY DEF IsHeap, IsTable
  <2>2. [x EXCEPT !.entry = E] = y
    <3> HIDE DEF x, E
    <3> QED BY <2>1
  <2>3. h2 = [h EXCEPT !.table = [h.table EXCEPT ![t] = [x EXCEPT !.entry = E]]]
    BY DEF Enter
  <2> HIDE DEF y, E, x, h2
  <2>4. h2 = [h EXCEPT !.table = T]
    BY <2>2, <2>3
  <2> HIDE DEF T
  <2>5. h = [table |-> h.table, array |-> h.array]
    BY DEF IsHeap
  <2> QED BY <2>4, <2>5
<1>2. /\ IsSeq(E) /\ DOMAIN E = 1..last /\ DOMAIN x.entry = 1..Len(x.entry) /\ Len(x.entry) \in Nat
      /\ \A n \in DOMAIN x.entry : E[n] = x.entry[n]
      /\ E[last] = [key |-> key, ref |-> ref]
  BY SeqAppend DEF IsHeap, IsTable
<1>3. /\ IsSeq(T) /\ DOMAIN T = DOMAIN h.table
      /\ \A u \in DOMAIN h.table : T[u] = IF u = t THEN y ELSE h.table[u]
  BY SeqExcept DEF IsHeap
<1>4. IsHeap(h) /\ Unshared(h) /\ IsTable(h, t)
  BY DEF IsHeap
<1> HIDE DEF E, T, h2
<1>5. \A q : IsRef(h, q) => IsRef(h2, q)
  BY <1>1, <1>3 DEF IsRef
<1>6. \A u \in DOMAIN h2.table : IsTable(h2, u)
  <2> SUFFICES ASSUME NEW u \in DOMAIN h2.table PROVE IsTable(h2, u)
    OBVIOUS
  <2>1. CASE u = t
    <3>1. h2.table[u] = y
      BY <1>1, <1>3, <2>1
    <3>2. \A n \in DOMAIN E : E[n] = IF n = last THEN [key |-> key, ref |-> ref] ELSE x.entry[n]
      BY <1>2
    <3>3. \A n \in DOMAIN E : n # last => n \in DOMAIN x.entry
      BY <1>2
    <3>4. \A n \in DOMAIN E : IsRef(h2, E[n].ref)
      BY <1>4, <1>5, <3>2, <3>3 DEF IsTable
    <3>5. \A m, n \in DOMAIN E : E[m].key = E[n].key => m = n
      BY <1>4, <3>2, <3>3 DEF IsTable
    <3> QED BY <1>2, <1>4, <3>1, <3>4, <3>5 DEF IsTable
  <2>2. CASE u # t
    <3>1. h2.table[u] = h.table[u] /\ IsTable(h, u)
      BY <1>1, <1>3, <2>2 DEF IsHeap
    <3> QED BY <3>1, <1>5 DEF IsTable
  <2> QED BY <2>1, <2>2
<1>7. \A a \in DOMAIN h2.array : IsArray(h2, a)
  BY <1>1, <1>4, <1>5 DEF IsArray, IsHeap
<1>8. \A u \in DOMAIN h2.table : \A m \in DOMAIN h2.table[u].entry :
        \/ /\ u \in DOMAIN h.table /\ m \in DOMAIN h.table[u].entry
           /\ EntryRef(h2, u, m) = EntryRef(h, u, m)
        \/ u = t /\ m = last /\ EntryRef(h2, u, m) = ref
  <2> SUFFICES ASSUME NEW u \in DOMAIN h2.table, NEW m \in DOMAIN h2.table[u].entry
               PROVE  \/ /\ u \in DOMAIN h.table /\ m \in DOMAIN h.table[u].entry
                         /\ h2.table[u].entry[m].ref = h.table[u].entry[m].ref
                      \/ u = t /\ m = last /\ h2.table[u].entry[m].ref = ref
    BY DEF EntryRef
  <2>1. CASE u = t
    <3>1. h2.table[u].entry = E
      BY <1>1, <1>3, <2>1
    <3>2. m \in 1..last
      BY <1>2, <3>1
    <3>3. CASE m = last
      BY <1>2, <2>1, <3>1, <3>3
    <3>4. CASE m # last
      <4>1. m \in DOMAIN x.entry
        BY <1>2, <3>2, <3>4
      <4> QED BY <1>2, <2>1, <3>1, <4>1
    <3> QED BY <3>3, <3>4
  <2>2. CASE u # t
    BY <1>1, <1>3, <2>2
  <2> QED BY <2>1, <2>2
<1>9. \A a \in DOMAIN h2.array : \A m \in DOMAIN h2.array[a].item :
        /\ a \in DOMAIN h.array /\ m \in DOMAIN h.array[a].item
        /\ ItemRef(h2, a, m) = ItemRef(h, a, m)
  BY <1>1 DEF ItemRef
<1>10. \A p, q : Meet(p, q) => Meet(q, p)
  BY DEF Meet
<1>11. Unshared(h2)
  <2>1. \A u, w \in DOMAIN h2.table : \A m \in DOMAIN h2.table[u].entry, n \in DOMAIN h2.table[w].entry :
          Meet(EntryRef(h2, u, m), EntryRef(h2, w, n)) => u = w /\ m = n
    BY <1>4, <1>8, <1>10 DEF Unshared, Fresh
  <2>2. \A u \in DOMAIN h2.table, a \in DOMAIN h2.array :
          \A m \in DOMAIN h2.table[u].entry, n \in DOMAIN h2.array[a].item :
            ~Meet(EntryRef(h2, u, m), ItemRef(h2, a, n))
    BY <1>4, <1>8, <1>9, <1>10 DEF Unshared, Fresh
  <2>3. \A u \in DOMAIN h2.table : \A m \in DOMAIN h2.table[u].entry : ~Meet(EntryRef(h2, u, m), Ref("t", 1))
    BY <1>4, <1>8 DEF Unshared, Fresh
  <2> QED BY <1>4, <1>9, <2>1, <2>2, <2>3 DEF Unshared
<1>12. \A q : Fresh(h, q) /\ ~Meet(ref, q) => Fresh(h2, q)
  BY <1>8, <1>9 DEF Fresh
<1>13. IsHeap(h2)
  BY <1>1, <1>3, <1>4, <1>6, <1>7, <1>11 DEF IsHeap
<1> QED
  BY <1>1, <1>3, <1>12, <1>13 DEF h2

\* One more element, with a reference to something new.
LEMMA ElementIs ==
  ASSUME NEW h, IsHeap(h), NEW a \in DOMAIN h.array, NEW ref, IsRef(h, ref), Fresh(h, ref)
  PROVE  LET h2 == Element(h, a, ref)
         IN /\ IsHeap(h2)
            /\ h2.table = h.table /\ DOMAIN h2.array = DOMAIN h.array
            /\ \A u \in DOMAIN h.array : u # a => h2.array[u] = h.array[u]
            /\ h2.array[a].kind = h.array[a].kind
            /\ h2.array[a].item # << >> /\ h2.array[a].item = Append(h.array[a].item, ref)
            /\ \A n \in DOMAIN h2.array[a].item :
                 \/ n \in DOMAIN h.array[a].item /\ h2.array[a].item[n] = h.array[a].item[n]
                 \/ h2.array[a].item[n] = ref
<1> DEFINE x == h.array[a]
           I == Append(x.item, ref)
           y == [kind |-> x.kind, item |-> I]
           A == [h.array EXCEPT ![a] = y]
           h2 == Element(h, a, ref)
           last == Len(x.item) + 1
<1>1. h2.array = A /\ h2.table = h.table /\ h2 = [table |-> h2.table, array |-> h2.array]
  <2>1. x = [kind |-> x.kind, item |-> x.item]
    BY DEF IsHeap, IsArray
  <2>2. [x EXCEPT !.item = I] = y
    BY <2>1
  <2>3. h2 = [h EXCEPT !.array = [h.array EXCEPT ![a] = [x EXCEPT !.item = I]]]
    BY DEF Element
  <2> HIDE DEF y, I, x, h2
  <2>4. h2 = [h EXCEPT !.array = A]
    BY <2>2, <2>3
  <2> HIDE DEF A
  <2>5. h = [table |-> h.table, array |-> h.array]
    BY DEF IsHeap
  <2> QED BY <2>4, <2>5
<1>2. /\ IsSeq(I) /\ DOMAIN I = 1..last /\ DOMAIN x.item = 1..Len(x.item) /\ Len(x.item) \in Nat
      /\ \A n \in DOMAIN x.item : I[n] = x.item[n]
      /\ I[last] = ref /\ I # << >>
  BY SeqAppend DEF IsHeap, IsArray
<1>3. /\ IsSeq(A) /\ DOMAIN A = DOMAIN h.array
      /\ \A u \in DOMAIN h.array : A[u] = IF u = a THEN y ELSE h.array[u]
  BY SeqExcept DEF IsHeap
<1>4. IsHeap(h) /\ Unshared(h) /\ IsArray(h, a)
  BY DEF IsHeap
<1> HIDE DEF I, A, h2
<1>5. \A q : IsRef(h, q) => IsRef(h2, q)
  BY <1>1, <1>3 DEF IsRef
<1>6. \A u \in DOMAIN h2.array : IsArray(h2, u)
  <2> SUFFICES ASSUME NEW u \in DOMAIN h2.array PROVE IsArray(h2, u)
    OBVIOUS
  <2>1. CASE u = a
    <3>1. h2.array[u] = y
      BY <1>1, <1>3, <2>1
    <3>2. \A n \in DOMAIN I : IsRef(h2, I[n])
      BY <1>2, <1>4, <1>5 DEF IsArray
    <3> QED BY <1>2, <3>1, <3>2 DEF IsArray
  <2>2. CASE u # a
    <3>1. h2.array[u] = h.array[u] /\ IsArray(h, u)
      BY <1>1, <1>3, <2>2 DEF IsHeap
    <3> QED BY <3>1, <1>5 DEF IsArray
  <2> QED BY <2>1, <2>2
<1>7. \A t \in DOMAIN h2.table : IsTable(h2, t)
  BY <1>1, <1>4, <1>5 DEF IsTable, IsHeap
<1>8. \A u \in DOMAIN h2.array : \A m \in DOMAIN h2.array[u].item :
        \/ /\ u \in DOMAIN h.array /\ m \in DOMAIN h.array[u].item
           /\ ItemRef(h2, u, m) = ItemRef(h, u, m)
        \/ u = a /\ m = last /\ ItemRef(h2, u, m) = ref
  BY <1>1, <1>2, <1>3 DEF ItemRef
<1>9. \A t \in DOMAIN h2.table : \A m \in DOMAIN h2.table[t].entry :
        /\ t \in DOMAIN h.table /\ m \in DOMAIN h.table[t].entry
        /\ EntryRef(h2, t, m) = EntryRef(h, t, m)
  BY <1>1 DEF EntryRef
<1>10. \A p, q : Meet(p, q) => Meet(q, p)
  BY DEF Meet
<1>11. Unshared(h2)
  <2>1. \A u, w \in DOMAIN h2.array : \A m \in DOMAIN h2.array[u].item, n \in DOMAIN h2.array[w].item :
          Meet(ItemRef(h2, u, m), ItemRef(h2, w, n)) => u = w /\ m = n
    BY <1>4, <1>8, <1>10 DEF Unshared, Fresh
  <2>2. \A t \in DOMAIN h2.table, u \in DOMAIN h2.array :
          \A m \in DOMAIN h2.table[t].entry, n \in DOMAIN h2.array[u].item :
            ~Meet(EntryRef(h2, t, m), ItemRef(h2, u, n))
    BY <1>4, <1>8, <1>9, <1>10 DEF Unshared, Fresh
  <2>3. \A u \in DOMAIN h2.array : \A m \in DOMAIN h2.array[u].item : ~Meet(ItemRef(h2, u, m), Ref("t", 1))
    BY <1>4, <1>8 DEF Unshared, Fresh
  <2> QED BY <1>4, <1>9, <2>1, <2>2, <2>3 DEF Unshared
<1>12. IsHeap(h2)
  BY <1>1, <1>3, <1>4, <1>6, <1>7, <1>11 DEF IsHeap
<1>13. \A n \in DOMAIN h2.array[a].item :
         \/ n \in DOMAIN h.array[a].item /\ h2.array[a].item[n] = h.array[a].item[n]
         \/ h2.array[a].item[n] = ref
  BY <1>1, <1>2, <1>3
<1>14. h2.array[a].item = I /\ h2.array[a].kind = h.array[a].kind /\ h2.array[a].item # << >>
  BY <1>1, <1>2, <1>3
<1>15. h2.table = h.table /\ DOMAIN h2.array = DOMAIN h.array
  BY <1>1, <1>3
<1>16. \A u \in DOMAIN h.array : u # a => h2.array[u] = h.array[u]
  BY <1>1, <1>3
<1> QED
  BY <1>12, <1>13, <1>14, <1>15, <1>16 DEF h2, I

\* A change that leaves all references alone.
LEMMA SameReferences ==
  ASSUME NEW h, NEW h2, Unshared(h),
         DOMAIN h2.table = DOMAIN h.table, DOMAIN h2.array = DOMAIN h.array,
         \A t \in DOMAIN h.table : h2.table[t].entry = h.table[t].entry,
         \A a \in DOMAIN h.array : h2.array[a].item = h.array[a].item
  PROVE  Unshared(h2) /\ (\A q : IsRef(h, q) => IsRef(h2, q)) /\ (\A q : Fresh(h, q) => Fresh(h2, q))
<1>1. \A t \in DOMAIN h2.table : \A m \in DOMAIN h2.table[t].entry :
        /\ t \in DOMAIN h.table /\ m \in DOMAIN h.table[t].entry
        /\ EntryRef(h2, t, m) = EntryRef(h, t, m)
  BY DEF EntryRef
<1>2. \A a \in DOMAIN h2.array : \A m \in DOMAIN h2.array[a].item :
        /\ a \in DOMAIN h.array /\ m \in DOMAIN h.array[a].item
        /\ ItemRef(h2, a, m) = ItemRef(h, a, m)
  BY DEF ItemRef
<1>3. Unshared(h2)
  BY <1>1, <1>2 DEF Unshared
<1>4. \A q : Fresh(h, q) => Fresh(h2, q)
  BY <1>1, <1>2 DEF Fresh
<1> QED
  BY <1>3, <1>4 DEF IsRef

\* The kind of an array changes.
LEMMA NotedIs ==
  ASSUME NEW h, IsHeap(h), NEW a \in DOMAIN h.array, NEW kind
  PROVE  LET h2 == Noted(h, a, kind)
         IN /\ IsHeap(h2)
            /\ h2.table = h.table /\ DOMAIN h2.array = DOMAIN h.array
            /\ \A u \in DOMAIN h.array : u # a => h2.array[u] = h.array[u]
            /\ h2.array[a] = [kind |-> KindWith(h.array[a].kind, kind), item |-> h.array[a].item]
<1> DEFINE x == h.array[a]
           k == KindWith(x.kind, kind)
           y == [kind |-> k, item |-> x.item]
           A == [h.array EXCEPT ![a] = y]
           h2 == Noted(h, a, kind)
<1>1. h2.array = A /\ h2.table = h.table /\ h2 = [table |-> h2.table, array |-> h2.array]
  <2>1. x = [kind |-> x.kind, item |-> x.item]
    BY DEF IsHeap, IsArray
  <2>2. [x EXCEPT !.kind = k] = y
    <3> HIDE DEF x, k
    <3> QED BY <2>1
  <2>3. h2 = [h EXCEPT !.array = [h.array EXCEPT ![a] = [x EXCEPT !.kind = k]]]
    BY DEF Noted
  <2> HIDE DEF y, k, x, h2
  <2>4. h2 = [h EXCEPT !.array = A]
    BY <2>2, <2>3
  <2> HIDE DEF A
  <2>5. h = [table |-> h.table, array |-> h.array]
    BY DEF IsHeap
  <2> QED BY <2>4, <2>5
<1>2. /\ IsSeq(A) /\ DOMAIN A = DOMAIN h.array
      /\ \A u \in DOMAIN h.array : A[u] = IF u = a THEN y ELSE h.array[u]
  BY SeqExcept DEF IsHeap
<1> HIDE DEF A, h2, k
<1>3. Unshared(h2) /\ \A q : IsRef(h, q) => IsRef(h2, q)
  BY <1>1, <1>2, SameReferences DEF IsHeap
<1>4. \A u \in DOMAIN h2.array : IsArray(h2, u)
  BY <1>1, <1>2, <1>3 DEF IsArray, IsHeap
<1>5. \A t \in DOMAIN h2.table : IsTable(h2, t)
  BY <1>1, <1>3 DEF IsTable, IsHeap
<1>6. IsHeap(h2)
  BY <1>1, <1>2, <1>3, <1>4, <1>5 DEF IsHeap
<1> QED
  BY <1>1, <1>2, <1>6 DEF h2, k

\* One flag of a table changes.
LEMMA TableFields ==
  ASSUME NEW x, x = [implicit |-> x.implicit, readonly |-> x.readonly, entry |-> x.entry], NEW b
  PROVE  /\ [x EXCEPT !.implicit = b] = [implicit |-> b, readonly |-> x.readonly, entry |-> x.entry]
         /\ [x EXCEPT !.readonly = b] = [implicit |-> x.implicit, readonly |-> b, entry |-> x.entry]
OBVIOUS

\* The flags of a table change: it is taken over, or closed.
LEMMA FlagsAre ==
  ASSUME NEW h, IsHeap(h), NEW t \in DOMAIN h.table, NEW y,
         y = [implicit |-> y.implicit, readonly |-> y.readonly, entry |-> y.entry],
         y.entry = h.table[t].entry, y.readonly \in BOOLEAN, ~(y.implicit /\ y.readonly)
  PROVE  LET h2 == [h EXCEPT !.table = [h.table EXCEPT ![t] = y]]
         IN /\ IsHeap(h2)
            /\ h2.array = h.array /\ DOMAIN h2.table = DOMAIN h.table
            /\ \A u \in DOMAIN h.table : u # t => h2.table[u] = h.table[u]
            /\ h2.table[t] = y
<1> DEFINE T == [h.table EXCEPT ![t] = y]
           h2 == [h EXCEPT !.table = T]
<1>1. h2.table = T /\ h2.array = h.array /\ h2 = [table |-> h2.table, array |-> h2.array]
  <2> HIDE DEF T
  <2>1. h = [table |-> h.table, array |-> h.array]
    BY DEF IsHeap
  <2> QED BY <2>1
<1>2. /\ IsSeq(T) /\ DOMAIN T = DOMAIN h.table
      /\ \A u \in DOMAIN h.table : T[u] = IF u = t THEN y ELSE h.table[u]
  BY SeqExcept DEF IsHeap
<1> HIDE DEF T, h2
<1>3. Unshared(h2) /\ \A q : IsRef(h, q) => IsRef(h2, q)
  BY <1>1, <1>2, SameReferences DEF IsHeap
<1>4. \A u \in DOMAIN h2.table : IsTable(h2, u)
  <2> SUFFICES ASSUME NEW u \in DOMAIN h2.table PROVE IsTable(h2, u)
    OBVIOUS
  <2>1. IsTable(h, u) /\ h2.table[u] = IF u = t THEN y ELSE h.table[u]
    BY <1>1, <1>2 DEF IsHeap
  <2> QED BY <2>1, <1>3 DEF IsTable
<1>5. \A a \in DOMAIN h2.array : IsArray(h2, a)
  BY <1>1, <1>3 DEF IsArray, IsHeap
<1>6. IsHeap(h2)
  BY <1>1, <1>2, <1>3, <1>4, <1>5 DEF IsHeap
<1> QED
  BY <1>1, <1>2, <1>6 DEF h2, T

-----------------------------------------------------------------------------
(***************************************************************************)
(* The builders.                                                           *)
(***************************************************************************)
\* What all of them do to the heap: nothing goes away, no table becomes one that
\* only the way has made, and of the closed tables at most t changes.
Grown(h, h2, t) ==
  /\ IsHeap(h2)
  /\ DOMAIN h.table \subseteq DOMAIN h2.table /\ DOMAIN h.array \subseteq DOMAIN h2.array
  /\ \A u \in DOMAIN h.table :
       /\ ~h.table[u].implicit => ~h2.table[u].implicit
       /\ u # t /\ h.table[u].readonly => h2.table[u] = h.table[u]

\* check_key finds nothing, or a reference.
LEMMA check_keyIs ==
  ASSUME NEW h, IsHeap(h), NEW t \in DOMAIN h.table, NEW key
  PROVE  LET old == check_key(h, t, key)
         IN \/ /\ old = NoRef /\ old.kind = "none"
               /\ \A n \in DOMAIN h.table[t].entry : h.table[t].entry[n].key # key
            \/ IsRef(h, old) /\ old # NoRef /\ old.kind # "none"
<1> DEFINE entry == h.table[t].entry
           found == {n \in DOMAIN entry : entry[n].key = key}
           old == check_key(h, t, key)
<1>1. CASE found = {}
  BY <1>1 DEF check_key, NoRef, Ref
<1>2. CASE found # {}
  <2>1. found \subseteq Nat
    <3>1. IsSeq(entry)
      BY DEF IsHeap, IsTable
    <3>2. DOMAIN entry = 1..Len(entry) /\ Len(entry) \in Nat
      BY <3>1, SeqIs
    <3> QED BY <3>2
  <2>2. \E n \in found : \A m \in found : n <= m
    <3> HIDE DEF found
    <3> QED BY <1>2, <2>1, MinNat
  <2>3. PICK n \in found : n = CHOOSE k \in found : \A m \in found : k <= m
    BY <2>2
  <2>4. old = entry[n].ref
    BY <1>2, <2>3 DEF check_key
  <2>5. \A m \in DOMAIN entry : IsRef(h, entry[m].ref)
    <3>1. IsTable(h, t)
      BY DEF IsHeap
    <3> QED BY <3>1 DEF IsTable
  <2>6. IsRef(h, old)
    BY <2>3, <2>4, <2>5
  <2> QED BY <2>6 DEF IsRef, NoRef, Ref
<1> QED BY <1>1, <1>2

\* A value of a key.
LEMMA create_keyvalIs ==
  ASSUME NEW h, IsHeap(h), KindsFit(h), NEW t \in DOMAIN h.table, NEW key, NEW val
  PROVE  LET r == create_keyval_in_table(h, t, key, val)
         IN r.ok => Grown(h, r.heap, t) /\ KindsFit(r.heap)
<1> DEFINE ref == Ref("v", val)
           r == create_keyval_in_table(h, t, key, val)
           h2 == Enter(h, t, key, ref)
<1> SUFFICES ASSUME r.ok PROVE Grown(h, r.heap, t) /\ KindsFit(r.heap)
  OBVIOUS
<1>1. check_key(h, t, key) = NoRef /\ r.heap = h2
  BY DEF create_keyval_in_table, Done, Failed
<1>2. \A n \in DOMAIN h.table[t].entry : h.table[t].entry[n].key # key
  BY <1>1, check_keyIs
<1>3. IsRef(h, ref) /\ Fresh(h, ref)
  BY DEF IsRef, Fresh, Meet, Ref
<1> HIDE DEF ref, h2
<1>4. /\ IsHeap(h2)
      /\ h2.array = h.array /\ DOMAIN h2.table = DOMAIN h.table
      /\ \A u \in DOMAIN h.table : u # t => h2.table[u] = h.table[u]
      /\ h2.table[t].implicit = h.table[t].implicit
  BY <1>2, <1>3, EnterIs DEF h2
<1> QED
  BY <1>1, <1>4 DEF Grown, KindsFit

\* A new table for a key, made by a header on its way or not.
LEMMA NewTableIs ==
  ASSUME NEW h, IsHeap(h), KindsFit(h), NEW t \in DOMAIN h.table, 1 \in DOMAIN h.table, NEW key,
         \A n \in DOMAIN h.table[t].entry : h.table[t].entry[n].key # key,
         NEW b \in BOOLEAN
  PROVE  LET new == Len(h.table) + 1
             h2 == Enter(AddTable(h, b), t, key, Ref("t", new))
         IN /\ Grown(h, h2, t) /\ KindsFit(h2)
            /\ new \in DOMAIN h2.table /\ h2.table[new].implicit = b
<1> DEFINE new == Len(h.table) + 1
           ref == Ref("t", new)
           h1 == AddTable(h, b)
           h2 == Enter(h1, t, key, ref)
<1>1. /\ IsHeap(h1) /\ Fresh(h1, ref)
      /\ h1.array = h.array
      /\ new \notin DOMAIN h.table /\ DOMAIN h1.table = DOMAIN h.table \cup {new}
      /\ \A u \in DOMAIN h.table : h1.table[u] = h.table[u]
      /\ h1.table[new] = NewTable(b)
  BY AddTableIs
<1>2. IsRef(h1, ref)
  BY <1>1 DEF IsRef, Ref
<1> HIDE DEF h1, ref, h2
<1>3. /\ IsHeap(h2)
      /\ h2.array = h1.array /\ DOMAIN h2.table = DOMAIN h1.table
      /\ \A u \in DOMAIN h1.table : u # t => h2.table[u] = h1.table[u]
      /\ h2.table[t].implicit = h1.table[t].implicit
  BY <1>1, <1>2, EnterIs DEF h2
<1>4. new # t /\ h2.table[new].implicit = b
  BY <1>1, <1>3 DEF NewTable
<1>5. Grown(h, h2, t) /\ KindsFit(h2)
  BY <1>1, <1>3 DEF Grown, KindsFit
<1> QED
  BY <1>1, <1>3, <1>4, <1>5 DEF h2, h1, ref

\* The table of a key: new, or one that was there only as the way to another.
LEMMA create_keytableIs ==
  ASSUME NEW h, IsHeap(h), KindsFit(h), NEW t \in DOMAIN h.table, 1 \in DOMAIN h.table, NEW key
  PROVE  LET r == create_keytable_in_table(h, t, key)
         IN r.ok => /\ Grown(h, r.heap, t) /\ KindsFit(r.heap)
                    /\ r.at \in DOMAIN r.heap.table /\ ~r.heap.table[r.at].implicit
<1> DEFINE r == create_keytable_in_table(h, t, key)
           old == check_key(h, t, key)
           new == Len(h.table) + 1
           good == /\ Grown(h, r.heap, t) /\ KindsFit(r.heap)
                   /\ r.at \in DOMAIN r.heap.table /\ ~r.heap.table[r.at].implicit
<1> SUFFICES ASSUME r.ok PROVE good
  OBVIOUS
<1>1. CASE old = NoRef
  <2> DEFINE h2 == Enter(AddTable(h, FALSE), t, key, Ref("t", new))
  <2>1. r.heap = h2 /\ r.at = new
    BY <1>1 DEF create_keytable_in_table, Done
  <2>2. \A n \in DOMAIN h.table[t].entry : h.table[t].entry[n].key # key
    BY <1>1, check_keyIs
  <2>3. Grown(h, h2, t) /\ KindsFit(h2) /\ new \in DOMAIN h2.table /\ h2.table[new].implicit = FALSE
    BY <2>2, NewTableIs
  <2> HIDE DEF h2, r, new
  <2> QED BY <2>1, <2>3
<1>2. CASE old # NoRef
  <2> DEFINE x == h.table[old.to]
             y == [implicit |-> FALSE, readonly |-> x.readonly, entry |-> x.entry]
             h2 == [h EXCEPT !.table = [h.table EXCEPT ![old.to] = y]]
  <2>1. TakesOver(h, old) /\ r.at = old.to /\ r.heap = [h EXCEPT !.table[old.to].implicit = FALSE]
    BY <1>2 DEF create_keytable_in_table, Done, Failed
  <2>2. IsRef(h, old) /\ old.kind = "t"
    BY <1>2, <2>1, check_keyIs DEF TakesOver
  <2>3. old.to \in DOMAIN h.table /\ x.implicit
    BY <2>1, <2>2 DEF IsRef, TakesOver
  <2>4. IsTable(h, old.to)
    BY <2>3 DEF IsHeap
  <2>5. [x EXCEPT !.implicit = FALSE] = y
    BY <2>4, TableFields DEF IsTable
  <2>6. r.heap = h2
    <3>1. r.heap = [h EXCEPT !.table = [h.table EXCEPT ![old.to] = [x EXCEPT !.implicit = FALSE]]]
      BY <2>1
    <3> QED BY <2>5, <3>1
  <2>7. /\ IsHeap(h2)
        /\ h2.array = h.array /\ DOMAIN h2.table = DOMAIN h.table
        /\ \A u \in DOMAIN h.table : u # old.to => h2.table[u] = h.table[u]
        /\ h2.table[old.to] = y
    <3>1. /\ y = [implicit |-> y.implicit, readonly |-> y.readonly, entry |-> y.entry]
          /\ y.entry = x.entry /\ y.readonly = x.readonly /\ ~y.implicit
      OBVIOUS
    <3>2. x.readonly \in BOOLEAN
      BY <2>4 DEF IsTable
    <3> HIDE DEF y, old
    <3> QED BY <2>3, <3>1, <3>2, FlagsAre
  <2>8. ~x.readonly /\ ~y.implicit
    BY <2>3, <2>4 DEF IsTable
  <2> HIDE DEF h2, r, old
  <2>9. Grown(h, h2, t) /\ KindsFit(h2)
    BY <2>3, <2>7, <2>8 DEF Grown, KindsFit
  <2>10. old.to \in DOMAIN h2.table /\ ~h2.table[old.to].implicit
    BY <2>3, <2>7, <2>8
  <2>11. r.heap = h2 /\ r.at = old.to
    BY <2>1, <2>6
  <2> QED BY <2>9, <2>10, <2>11
<1> QED BY <1>1, <1>2

\* Heap g is h with table t closed.
Closed(h, t, g) ==
  /\ Grown(h, g, t) /\ KindsFit(g)
  /\ \A u \in DOMAIN h.table : h.table[u].readonly => g.table[u] = h.table[u]

\* A table is closed; one that was is the same.
LEMMA CloseIs ==
  ASSUME NEW h, IsHeap(h), KindsFit(h), NEW t \in DOMAIN h.table, ~h.table[t].implicit
  PROVE  Closed(h, t, [h EXCEPT !.table[t].readonly = TRUE])
<1> DEFINE x == h.table[t]
           y == [implicit |-> x.implicit, readonly |-> TRUE, entry |-> x.entry]
           g == [h EXCEPT !.table = [h.table EXCEPT ![t] = y]]
<1>1. IsTable(h, t)
  BY DEF IsHeap
<1>2. [x EXCEPT !.readonly = TRUE] = y
  BY <1>1, TableFields DEF IsTable
<1>3. [h EXCEPT !.table[t].readonly = TRUE] = g
  <2>1. [h EXCEPT !.table[t].readonly = TRUE]
          = [h EXCEPT !.table = [h.table EXCEPT ![t] = [x EXCEPT !.readonly = TRUE]]]
    OBVIOUS
  <2> QED BY <1>2, <2>1
<1>4. /\ IsHeap(g)
      /\ g.array = h.array /\ DOMAIN g.table = DOMAIN h.table
      /\ \A u \in DOMAIN h.table : u # t => g.table[u] = h.table[u]
      /\ g.table[t] = y
  <2>1. /\ y = [implicit |-> y.implicit, readonly |-> y.readonly, entry |-> y.entry]
        /\ y.entry = x.entry /\ y.readonly = TRUE /\ y.implicit = x.implicit
    OBVIOUS
  <2>2. y.readonly \in BOOLEAN /\ ~(y.implicit /\ y.readonly)
    <3> HIDE DEF y
    <3> QED BY <2>1
  <2> HIDE DEF y
  <2> QED BY <2>1, <2>2, FlagsAre
<1>5. x.readonly => y = x
  BY <1>1 DEF IsTable
<1>6. y.implicit = x.implicit
  OBVIOUS
<1> HIDE DEF g, y
<1>7. Grown(h, g, t) /\ KindsFit(g)
  BY <1>4, <1>6 DEF Grown, KindsFit
<1>8. \A u \in DOMAIN h.table : h.table[u].readonly => g.table[u] = h.table[u]
  BY <1>4, <1>5
<1> QED BY <1>3, <1>7, <1>8 DEF Closed

\* A new array for a key.
LEMMA create_keyarrayIs ==
  ASSUME NEW h, IsHeap(h), NEW t \in DOMAIN h.table, NEW key, NEW kind
  PROVE  LET r == create_keyarray_in_table(h, t, key, kind)
         IN r.ok => /\ Grown(h, r.heap, t)
                    /\ DOMAIN r.heap.table = DOMAIN h.table
                    /\ r.at \notin DOMAIN h.array /\ DOMAIN r.heap.array = DOMAIN h.array \cup {r.at}
                    /\ \A u \in DOMAIN h.array : r.heap.array[u] = h.array[u]
                    /\ r.heap.array[r.at] = [kind |-> kind, item |-> << >>]
<1> DEFINE r == create_keyarray_in_table(h, t, key, kind)
           new == Len(h.array) + 1
           ref == Ref("a", new)
           h1 == AddArray(h, kind)
           h2 == Enter(h1, t, key, ref)
           good == /\ Grown(h, r.heap, t)
                   /\ DOMAIN r.heap.table = DOMAIN h.table
                   /\ r.at \notin DOMAIN h.array /\ DOMAIN r.heap.array = DOMAIN h.array \cup {r.at}
                   /\ \A u \in DOMAIN h.array : r.heap.array[u] = h.array[u]
                   /\ r.heap.array[r.at] = [kind |-> kind, item |-> << >>]
<1> SUFFICES ASSUME r.ok PROVE good
  OBVIOUS
<1>1. check_key(h, t, key) = NoRef /\ r.heap = h2 /\ r.at = new
  BY DEF create_keyarray_in_table, Done, Failed
<1>2. \A n \in DOMAIN h.table[t].entry : h.table[t].entry[n].key # key
  BY <1>1, check_keyIs
<1>3. /\ IsHeap(h1) /\ Fresh(h1, ref)
      /\ h1.table = h.table
      /\ new \notin DOMAIN h.array /\ DOMAIN h1.array = DOMAIN h.array \cup {new}
      /\ \A u \in DOMAIN h.array : h1.array[u] = h.array[u]
      /\ h1.array[new] = [kind |-> kind, item |-> << >>]
  BY AddArrayIs
<1>4. IsRef(h1, ref)
  BY <1>3 DEF IsRef, Ref
<1> HIDE DEF h1, ref, h2
<1>5. /\ IsHeap(h2)
      /\ h2.array = h1.array /\ DOMAIN h2.table = DOMAIN h1.table
      /\ \A u \in DOMAIN h1.table : u # t => h2.table[u] = h1.table[u]
      /\ h2.table[t].implicit = h1.table[t].implicit
  BY <1>2, <1>3, <1>4, EnterIs DEF h2
<1>6. Grown(h, h2, t)
  BY <1>3, <1>5 DEF Grown
<1> HIDE DEF r, new
<1> QED
  BY <1>1, <1>3, <1>5, <1>6

\* Heap g is h with a new table `at` as the last element of array a.
TableAdded(h, a, g, at) ==
  /\ IsHeap(g)
  /\ at \notin DOMAIN h.table /\ DOMAIN g.table = DOMAIN h.table \cup {at}
  /\ \A u \in DOMAIN h.table : g.table[u] = h.table[u]
  /\ g.table[at] = NewTable(FALSE)
  /\ DOMAIN g.array = DOMAIN h.array
  /\ \A u \in DOMAIN h.array : u # a => g.array[u] = h.array[u]
  /\ g.array[a].kind = h.array[a].kind
  /\ g.array[a].item # << >>
  /\ \A n \in DOMAIN g.array[a].item :
       \/ n \in DOMAIN h.array[a].item /\ g.array[a].item[n] = h.array[a].item[n]
       \/ g.array[a].item[n].kind = "t"

\* An element that is a table.
LEMMA create_table_in_arrayIs ==
  ASSUME NEW h, IsHeap(h), 1 \in DOMAIN h.table, NEW a \in DOMAIN h.array
  PROVE  LET r == create_table_in_array(h, a)
         IN r.ok /\ TableAdded(h, a, r.heap, r.at)
<1> DEFINE r == create_table_in_array(h, a)
           new == Len(h.table) + 1
           ref == Ref("t", new)
           h1 == AddTable(h, FALSE)
           h2 == Element(h1, a, ref)
<1> SUFFICES r.ok /\ TableAdded(h, a, r.heap, r.at)
  OBVIOUS
<1>1. r.ok /\ r.heap = h2 /\ r.at = new
  BY DEF create_table_in_array, Done
<1>2. /\ IsHeap(h1) /\ Fresh(h1, ref)
      /\ h1.array = h.array
      /\ new \notin DOMAIN h.table /\ DOMAIN h1.table = DOMAIN h.table \cup {new}
      /\ \A u \in DOMAIN h.table : h1.table[u] = h.table[u]
      /\ h1.table[new] = NewTable(FALSE)
  BY AddTableIs
<1>3. IsRef(h1, ref) /\ ref.kind = "t"
  BY <1>2 DEF IsRef, Ref
<1> HIDE DEF h1, ref, h2
<1>4. /\ IsHeap(h2)
      /\ h2.table = h1.table /\ DOMAIN h2.array = DOMAIN h1.array
      /\ \A u \in DOMAIN h1.array : u # a => h2.array[u] = h1.array[u]
      /\ h2.array[a].kind = h1.array[a].kind
      /\ h2.array[a].item # << >>
      /\ \A n \in DOMAIN h2.array[a].item :
           \/ n \in DOMAIN h1.array[a].item /\ h2.array[a].item[n] = h1.array[a].item[n]
           \/ h2.array[a].item[n] = ref
  BY <1>2, <1>3, ElementIs DEF h2
<1>5. TableAdded(h, a, h2, new)
  BY <1>2, <1>3, <1>4 DEF TableAdded
<1> HIDE DEF r, new
<1> QED
  BY <1>1, <1>5

\* Heap g is h with a new array `at` as the last element of array a.
ArrayAdded(h, a, g, at) ==
  /\ IsHeap(g)
  /\ g.table = h.table
  /\ at \notin DOMAIN h.array /\ DOMAIN g.array = DOMAIN h.array \cup {at}
  /\ \A u \in DOMAIN h.array : u # a => g.array[u] = h.array[u]
  /\ g.array[at] = [kind |-> "none", item |-> << >>]
  /\ g.array[a].kind = h.array[a].kind

\* An element that is an array.
LEMMA create_array_in_arrayIs ==
  ASSUME NEW h, IsHeap(h), NEW a \in DOMAIN h.array
  PROVE  LET r == create_array_in_array(h, a)
         IN r.ok /\ ArrayAdded(h, a, r.heap, r.at)
<1> DEFINE r == create_array_in_array(h, a)
           new == Len(h.array) + 1
           ref == Ref("a", new)
           h1 == AddArray(h, "none")
           h2 == Element(h1, a, ref)
<1> SUFFICES r.ok /\ ArrayAdded(h, a, r.heap, r.at)
  OBVIOUS
<1>1. r.ok /\ r.heap = h2 /\ r.at = new
  BY DEF create_array_in_array, Done
<1>2. /\ IsHeap(h1) /\ Fresh(h1, ref)
      /\ h1.table = h.table
      /\ new \notin DOMAIN h.array /\ DOMAIN h1.array = DOMAIN h.array \cup {new}
      /\ \A u \in DOMAIN h.array : h1.array[u] = h.array[u]
      /\ h1.array[new] = [kind |-> "none", item |-> << >>]
  BY AddArrayIs
<1>3. IsRef(h1, ref)
  BY <1>2 DEF IsRef, Ref
<1> HIDE DEF h1, ref, h2
<1>4. /\ IsHeap(h2)
      /\ h2.table = h1.table /\ DOMAIN h2.array = DOMAIN h1.array
      /\ \A u \in DOMAIN h1.array : u # a => h2.array[u] = h1.array[u]
      /\ h2.array[a].kind = h1.array[a].kind
  BY <1>2, <1>3, ElementIs DEF h2
<1>5. ArrayAdded(h, a, h2, new)
  BY <1>2, <1>4 DEF ArrayAdded
<1> HIDE DEF r, new
<1> QED
  BY <1>1, <1>5

\* Array a takes an element of kind k as it stands: its kind is already that of
\* what will be in it.
Ready(h, a, k) ==
  LET arr == h.array[a]
  IN /\ arr.kind # "none"
     /\ arr.kind = "t" => k = "t" /\ \A n \in DOMAIN arr.item : arr.item[n].kind = "t"
     /\ \A u \in DOMAIN h.array : u # a => KindFits(h.array[u])

\* Heap g is h with array a ready for an element of kind k.
Takes(h, a, k, g) ==
  /\ IsHeap(g) /\ g.table = h.table /\ DOMAIN g.array = DOMAIN h.array
  /\ Ready(g, a, k)

\* An array that has noted the kind of an element takes it.
LEMMA NotedReady ==
  ASSUME NEW h, IsHeap(h), KindsFit(h), NEW a \in DOMAIN h.array, NEW k \in {"v", "a", "t"}
  PROVE  Takes(h, a, k, Noted(h, a, k))
<1> DEFINE h2 == Noted(h, a, k)
           x == h.array[a]
<1>1. /\ IsHeap(h2) /\ h2.table = h.table /\ DOMAIN h2.array = DOMAIN h.array
      /\ \A u \in DOMAIN h.array : u # a => h2.array[u] = h.array[u]
      /\ h2.array[a] = [kind |-> KindWith(x.kind, k), item |-> x.item]
  BY NotedIs
<1>2. x.kind = "none" => DOMAIN x.item = {}
  <2>1. IsSeq(x.item)
    BY DEF IsHeap, IsArray
  <2> QED BY <2>1, SeqIs DEF KindsFit, KindFits
<1>3. x.kind = "t" => \A n \in DOMAIN x.item : x.item[n].kind = "t"
  BY DEF KindsFit, KindFits
<1> HIDE DEF h2
<1>4. /\ h2.array[a].kind = KindWith(x.kind, k)
      /\ h2.array[a].item = x.item
  BY <1>1
<1>5. KindWith(x.kind, k) # "none" /\ (KindWith(x.kind, k) = "t" => k = "t" /\ x.kind \in {"none", "t"})
  BY DEF KindWith
<1>6. \A u \in DOMAIN h2.array : u # a => KindFits(h2.array[u])
  BY <1>1 DEF KindsFit
<1>7. Ready(h2, a, k)
  BY <1>2, <1>3, <1>4, <1>5, <1>6 DEF Ready
<1> QED
  BY <1>1, <1>7 DEF Takes, h2

\* An array that was ready for its new element is as its kind says.
LEMMA ReadyFits ==
  ASSUME NEW h, NEW h2, NEW a \in DOMAIN h.array, NEW k, Ready(h, a, k),
         h2.array[a].kind = h.array[a].kind,
         h2.array[a].item # << >>,
         \A n \in DOMAIN h2.array[a].item :
           \/ n \in DOMAIN h.array[a].item /\ h2.array[a].item[n] = h.array[a].item[n]
           \/ h2.array[a].item[n].kind = k,
         \A u \in DOMAIN h2.array : u # a => KindFits(h2.array[u])
  PROVE  KindsFit(h2)
<1>1. KindFits(h2.array[a])
  BY DEF KindFits, Ready
<1> QED
  BY <1>1 DEF KindsFit

\* One more table in an array that is ready for it.
LEMMA TableElement ==
  ASSUME NEW h, IsHeap(h), 1 \in DOMAIN h.table, NEW a \in DOMAIN h.array, Ready(h, a, "t"), NEW t
  PROVE  LET r == create_table_in_array(h, a)
         IN /\ r.ok /\ Grown(h, r.heap, t) /\ KindsFit(r.heap)
            /\ r.at \in DOMAIN r.heap.table /\ ~r.heap.table[r.at].implicit
            /\ \A u \in DOMAIN h.table : r.heap.table[u] = h.table[u]
<1> DEFINE r == create_table_in_array(h, a)
           g == r.heap
<1>1. r.ok /\ TableAdded(h, a, g, r.at)
  BY create_table_in_arrayIs
<1> SUFFICES /\ r.ok /\ Grown(h, g, t) /\ KindsFit(g)
             /\ r.at \in DOMAIN g.table /\ ~g.table[r.at].implicit
             /\ \A u \in DOMAIN h.table : g.table[u] = h.table[u]
  OBVIOUS
<1> HIDE DEF r
<1>2. \A u \in DOMAIN g.array : u # a => KindFits(g.array[u])
  BY <1>1 DEF Ready, TableAdded
<1>3. KindsFit(g)
  <2> HIDE DEF g
  <2> QED BY <1>1, <1>2, ReadyFits DEF TableAdded
<1>4. Grown(h, g, t)
  BY <1>1 DEF Grown, TableAdded
<1>5. ~g.table[r.at].implicit
  BY <1>1 DEF NewTable, TableAdded
<1> QED
  BY <1>1, <1>3, <1>4, <1>5 DEF TableAdded

-----------------------------------------------------------------------------
(***************************************************************************)
(* Headers.                                                                *)
(***************************************************************************)
\* A turn of the loop goes on with a table.
LEMMA TableOfKeyIs ==
  ASSUME NEW h, IsHeap(h), KindsFit(h), NEW t \in DOMAIN h.table, 1 \in DOMAIN h.table, NEW key
  PROVE  LET r == TableOfKey(h, t, key)
         IN r.ok => /\ Grown(h, r.heap, t) /\ KindsFit(r.heap)
                    /\ r.at \in DOMAIN r.heap.table
<1> DEFINE r == TableOfKey(h, t, key)
           old == check_key(h, t, key)
           new == Len(h.table) + 1
           good == Grown(h, r.heap, t) /\ KindsFit(r.heap) /\ r.at \in DOMAIN r.heap.table
<1> SUFFICES ASSUME r.ok PROVE good
  OBVIOUS
<1>1. Grown(h, h, t)
  BY DEF Grown
<1>2. \/ /\ old = NoRef /\ old.kind = "none"
         /\ \A n \in DOMAIN h.table[t].entry : h.table[t].entry[n].key # key
      \/ IsRef(h, old) /\ old # NoRef /\ old.kind # "none"
  BY check_keyIs
<1>3. CASE old.kind = "t"
  <2>1. r.heap = h /\ r.at = old.to
    BY <1>3 DEF TableOfKey, Done
  <2>2. old.to \in DOMAIN h.table
    BY <1>2, <1>3 DEF IsRef
  <2> HIDE DEF r
  <2> QED BY <1>1, <2>1, <2>2
<1>4. CASE old.kind = "a"
  <2> DEFINE arr == h.array[old.to]
  <2>1. /\ r.heap = h /\ r.at = CurrentTable(arr)
        /\ arr.kind = "t" /\ arr.item # << >>
    BY <1>4 DEF TableOfKey, Done, Failed
  <2>2. old.to \in DOMAIN h.array
    BY <1>2, <1>4 DEF IsRef
  <2>3. IsArray(h, old.to)
    BY <2>2 DEF IsHeap
  <2>4. Len(arr.item) \in DOMAIN arr.item
    BY <2>1, <2>3, SeqIs DEF IsArray
  <2>5. CurrentTable(arr) = arr.item[Len(arr.item)].to
    BY DEF CurrentTable, Last
  <2>6. arr.item[Len(arr.item)].kind = "t"
    BY <2>1, <2>2, <2>4 DEF KindsFit, KindFits
  <2>7. CurrentTable(arr) \in DOMAIN h.table
    BY <2>3, <2>4, <2>5, <2>6 DEF IsArray, IsRef
  <2> HIDE DEF r
  <2> QED BY <1>1, <2>1, <2>7
<1>5. CASE old.kind \notin {"t", "a"}
  <2> DEFINE h2 == Enter(AddTable(h, TRUE), t, key, Ref("t", new))
  <2>1. old = NoRef /\ r.heap = h2 /\ r.at = new
    BY <1>5 DEF TableOfKey, Done, Failed
  <2>2. \A n \in DOMAIN h.table[t].entry : h.table[t].entry[n].key # key
    BY <1>2, <2>1
  <2>3. Grown(h, h2, t) /\ KindsFit(h2) /\ new \in DOMAIN h2.table
    BY <2>2, NewTableIs
  <2> HIDE DEF h2, r, new
  <2> QED BY <2>1, <2>3
<1> QED BY <1>3, <1>4, <1>5

\* The element that a header [[z]] begins.
LEMMA create_elementIs ==
  ASSUME NEW h, IsHeap(h), KindsFit(h), NEW t \in DOMAIN h.table, 1 \in DOMAIN h.table, NEW z
  PROVE  LET r == create_element(h, t, z)
         IN r.ok => /\ Grown(h, r.heap, t) /\ KindsFit(r.heap)
                    /\ r.at \in DOMAIN r.heap.table
<1> DEFINE r == create_element(h, t, z)
           old == check_key(h, t, z)
           arr == IF old.kind = "a" THEN Done(h, old.to) ELSE create_keyarray_in_table(h, t, z, "t")
           g == arr.heap
           e == create_table_in_array(g, arr.at)
           good == Grown(h, r.heap, t) /\ KindsFit(r.heap) /\ r.at \in DOMAIN r.heap.table
<1> SUFFICES ASSUME r.ok PROVE good
  OBVIOUS
<1>1. arr.ok /\ g.array[arr.at].kind = "t" /\ r = e
  BY DEF create_element, Failed
<1>2. Grown(h, g, t) /\ arr.at \in DOMAIN g.array /\ Ready(g, arr.at, "t")
  <2>1. CASE old.kind = "a"
    <3>1. g = h /\ arr.at = old.to
      BY <2>1 DEF Done
    <3>2. IsRef(h, old)
      BY <2>1, check_keyIs
    <3>3. old.to \in DOMAIN h.array
      BY <2>1, <3>2 DEF IsRef
    <3>4. KindFits(h.array[old.to]) /\ h.array[old.to].kind = "t"
      BY <1>1, <3>1, <3>3 DEF KindsFit
    <3>5. Ready(h, old.to, "t")
      BY <3>4 DEF Ready, KindsFit, KindFits
    <3>6. Grown(h, h, t)
      BY DEF Grown
    <3> HIDE DEF arr
    <3> QED BY <3>1, <3>3, <3>5, <3>6
  <2>2. CASE old.kind # "a"
    <3>1. arr = create_keyarray_in_table(h, t, z, "t")
      BY <2>2
    <3> HIDE DEF arr
    <3>2. /\ Grown(h, g, t)
          /\ arr.at \notin DOMAIN h.array /\ DOMAIN g.array = DOMAIN h.array \cup {arr.at}
          /\ \A u \in DOMAIN h.array : g.array[u] = h.array[u]
          /\ g.array[arr.at] = [kind |-> "t", item |-> << >>]
      BY <1>1, <3>1, create_keyarrayIs
    <3>3. Ready(g, arr.at, "t")
      BY <3>2 DEF Ready, KindsFit
    <3> QED BY <3>2, <3>3
  <2> QED BY <2>1, <2>2
<1> HIDE DEF arr
<1>3. IsHeap(g) /\ 1 \in DOMAIN g.table
  BY <1>2 DEF Grown
<1>4. /\ Grown(g, e.heap, t) /\ KindsFit(e.heap) /\ e.at \in DOMAIN e.heap.table
      /\ \A u \in DOMAIN g.table : e.heap.table[u] = g.table[u]
  <2> HIDE DEF g
  <2> QED BY <1>2, <1>3, TableElement
<1> HIDE DEF r, e, g
<1>5. Grown(h, e.heap, t)
  BY <1>2, <1>4 DEF Grown
<1> QED
  BY <1>1, <1>4, <1>5

-----------------------------------------------------------------------------
(***************************************************************************)
(* The calls under way.                                                    *)
(***************************************************************************)
\* The innermost call, and those around it.
LEMMA CallsTail ==
  ASSUME NEW h, NEW s, Calls(h, s), s # << >>
  PROVE  IsFrame(h, Head(s)) /\ Calls(h, Tail(s))
<1> DEFINE r == Tail(s)
<1>1. s \in Seq(ToSet(s)) /\ DOMAIN s = 1..Len(s) /\ Len(s) \in Nat /\ Len(s) # 0
  BY SeqIs DEF Calls, IsSeq
<1>2. /\ Head(s) = s[1] /\ r \in Seq(ToSet(s))
      /\ Len(r) = Len(s) - 1 /\ \A n \in 1..Len(r) : r[n] = s[n + 1]
  BY <1>1, HeadTailProperties
<1> HIDE DEF r
<1>3. DOMAIN r = 1..Len(r) /\ Len(r) \in Nat
  BY <1>2, LenProperties
<1>4. r \in Seq(ToSet(r))
  <2>1. \A n \in 1..Len(r) : r[n] \in ToSet(r)
    BY <1>3 DEF ToSet
  <2>2. r = [n \in 1..Len(r) |-> r[n]]
    BY <1>2, LenProperties
  <2> QED BY <1>3, <2>1, <2>2, SeqDef
<1>5. IsFrame(h, Head(s))
  BY <1>1, <1>2 DEF Calls
<1>6. \A n \in DOMAIN r : IsFrame(h, r[n])
  BY <1>1, <1>2, <1>3 DEF Calls
<1> QED
  BY <1>4, <1>5, <1>6 DEF Calls, IsSeq, r

\* One more call.
LEMMA CallsCons ==
  ASSUME NEW h, NEW s, Calls(h, s), NEW f, IsFrame(h, f)
  PROVE  Calls(h, <<f>> \o s)
<1> DEFINE r == <<f>> \o s
           S == ToSet(s) \cup {f}
<1>1. s \in Seq(ToSet(s)) /\ DOMAIN s = 1..Len(s) /\ Len(s) \in Nat
  BY SeqIs DEF Calls, IsSeq
<1>2. s \in Seq(S) /\ <<f>> \in Seq(S) /\ Len(<<f>>) = 1 /\ <<f>>[1] = f
  BY <1>1, SeqMonotonic
<1>3. /\ r \in Seq(S) /\ Len(r) = 1 + Len(s)
      /\ \A n \in 1..Len(r) : r[n] = IF n <= 1 THEN <<f>>[n] ELSE s[n - 1]
  BY <1>2, ConcatProperties
<1> HIDE DEF r
<1>4. DOMAIN r = 1..Len(r) /\ Len(r) \in Nat
  BY <1>3, LenProperties
<1>5. \A n \in DOMAIN r : n = 1 \/ n - 1 \in DOMAIN s
  BY <1>1, <1>3, <1>4
<1>6. \A n \in DOMAIN r : r[n] = f \/ \E m \in DOMAIN s : r[n] = s[m]
  BY <1>2, <1>3, <1>4, <1>5
<1>7. \A n \in DOMAIN r : IsFrame(h, r[n])
  BY <1>6 DEF Calls
<1>8. r \in Seq(ToSet(r))
  <2>1. \A n \in 1..Len(r) : r[n] \in ToSet(r)
    BY <1>4 DEF ToSet
  <2>2. r = [n \in 1..Len(r) |-> r[n]]
    BY <1>3, LenProperties
  <2> QED BY <1>4, <2>1, <2>2, SeqDef
<1> QED
  BY <1>7, <1>8 DEF Calls, IsSeq, r

\* Two more calls.
LEMMA CallsTwo ==
  ASSUME NEW h, NEW s, Calls(h, s), NEW f, IsFrame(h, f), NEW g, IsFrame(h, g)
  PROVE  Calls(h, <<f, g>> \o s)
<1>1. Calls(h, <<f>> \o (<<g>> \o s))
  BY CallsCons
<1>2. <<f, g>> \o s = <<f>> \o (<<g>> \o s)
  <2> DEFINE S == ToSet(s) \cup {f, g}
  <2>1. s \in Seq(S) /\ <<f>> \in Seq(S) /\ <<g>> \in Seq(S)
    BY SeqMonotonic DEF Calls, IsSeq
  <2>2. <<f, g>> = <<f>> \o <<g>>
    OBVIOUS
  <2> QED BY <2>1, <2>2, ConcatAssociative
<1> QED BY <1>1, <1>2

\* The calls work on what is there as the heap grows.
LEMMA CallsGrown ==
  ASSUME NEW h, NEW h2, NEW t, Grown(h, h2, t), NEW s, Calls(h, s)
  PROVE  Calls(h2, s)
<1>1. \A f : IsFrame(h, f) => IsFrame(h2, f)
  BY DEF IsFrame, Grown
<1> QED BY <1>1 DEF Calls

-----------------------------------------------------------------------------
(***************************************************************************)
(* The steps.  Each keeps the invariant; one that is made for a key or a   *)
(* value, and does not fail, adds to one table at most of those that are   *)
(* closed.                                                                 *)
(***************************************************************************)
Adds(t) == status' # "failed" => Grown(heap, heap', t)

\* A call is made while the parser runs.
LEMMA InCall ==
  ASSUME IInv, stack # << >>
  PROVE  /\ status # "failed" /\ Sound(heap, curtab, stack)
         /\ 1 \in DOMAIN heap.table /\ 0 \notin DOMAIN heap.table
         /\ IsFrame(heap, Head(stack)) /\ Calls(heap, Tail(stack))
<1>1. status # "failed" /\ Sound(heap, curtab, stack)
  BY DEF IInv
<1>2. DOMAIN heap.table = 1..Len(heap.table) /\ Len(heap.table) \in Nat /\ curtab \in DOMAIN heap.table
  BY <1>1, SeqIs DEF Sound, IsHeap
<1>3. 1 \in DOMAIN heap.table /\ 0 \notin DOMAIN heap.table
  BY <1>2
<1>4. IsFrame(heap, Head(stack)) /\ Calls(heap, Tail(stack))
  <2>1. \A h, s : Calls(h, s) /\ s # << >> => IsFrame(h, Head(s)) /\ Calls(h, Tail(s))
    BY CallsTail
  <2> QED BY <1>1, <2>1 DEF Sound
<1> QED BY <1>1, <1>3, <1>4

\* What is left when the parser fails.
LEMMA FailIs ==
  ASSUME Fail
  PROVE  IInv' /\ status' = "failed"
BY DEF Fail, IInv

\* The parser goes on with what a builder gave it.
LEMMA ContinueIs ==
  ASSUME IInv, stack # << >>, NEW t, NEW result, NEW calls,
         Continue(result, calls),
         result.ok => /\ Grown(heap, result.heap, t) /\ KindsFit(result.heap)
                      /\ Calls(result.heap, calls)
  PROVE  IInv' /\ Adds(t)
<1>1. CASE ~result.ok
  <2>1. Fail
    BY <1>1 DEF Continue
  <2> QED BY <2>1, FailIs DEF Adds
<1>2. CASE result.ok
  <2>1. /\ heap' = result.heap /\ stack' = calls /\ curtab' = curtab /\ status' = status
    BY <1>2 DEF Continue
  <2>2. Grown(heap, heap', t) /\ KindsFit(heap') /\ Calls(heap', stack')
    BY <1>2, <2>1
  <2>3. status # "failed" /\ Sound(heap, curtab, stack)
    BY InCall
  <2>4. Sound(heap', curtab', stack')
    BY <2>1, <2>2, <2>3 DEF Sound, Grown
  <2> QED BY <2>1, <2>2, <2>3, <2>4 DEF IInv, Adds
<1> QED BY <1>1, <1>2

\* The first state: the root, and no line.
LEMMA InitInv ==
  ASSUME Init
  PROVE  IInv
<1> DEFINE h == [table |-> <<NewTable(FALSE)>>, array |-> << >>]
<1>1. heap = h /\ curtab = 1 /\ stack = << >> /\ status = "parsing"
  BY DEF Init
<1>2. /\ h.table \in Seq({NewTable(FALSE)}) /\ DOMAIN h.table = {1} /\ h.table[1] = NewTable(FALSE)
      /\ DOMAIN h.array = {}
  OBVIOUS
<1>3. IsSeq(h.table) /\ IsSeq(h.array) /\ IsSeq(<< >>)
  BY <1>2, EmptySeq DEF IsSeq, ToSet
<1>4. DOMAIN h.table[1].entry = {} /\ h.table[1] = [implicit |-> FALSE, readonly |-> FALSE, entry |-> << >>]
  BY <1>2 DEF NewTable
<1>5. h = [table |-> h.table, array |-> h.array]
  OBVIOUS
<1> HIDE DEF h
<1>6. Unshared(h)
  BY <1>2, <1>4 DEF Unshared
<1>7. IsTable(h, 1)
  <2> DEFINE x == h.table[1]
  <2>1. x.implicit = FALSE /\ x.readonly = FALSE /\ x.entry = << >>
    BY <1>4
  <2>2. x = [implicit |-> x.implicit, readonly |-> x.readonly, entry |-> x.entry]
    BY <1>4, <2>1
  <2> HIDE DEF x
  <2>3. x.readonly \in BOOLEAN /\ ~(x.implicit /\ x.readonly)
    BY <2>1
  <2>4. IsSeq(x.entry) /\ DOMAIN x.entry = {}
    BY <1>3, <2>1
  <2> QED BY <2>2, <2>3, <2>4 DEF IsTable, x
<1>8. IsHeap(h) /\ KindsFit(h)
  BY <1>2, <1>3, <1>5, <1>6, <1>7 DEF IsHeap, KindsFit
<1>9. Calls(h, << >>)
  BY <1>3 DEF Calls
<1> QED BY <1>1, <1>2, <1>8, <1>9 DEF IInv, Sound

\* fill_tabpath keeps the invariant.
LEMMA fill_tabpathStep ==
  ASSUME IInv, NEW line, fill_tabpath(line)
  PROVE  IInv'
<1> DEFINE f == Walk(1, line.path, line.type)
<1>1. CASE Fail
  BY <1>1, FailIs
<1>2. CASE stack' = <<f>> /\ UNCHANGED <<heap, curtab, status>>
  <2>1. status = "parsing" /\ stack = << >> /\ Sound(heap, curtab, stack)
    BY DEF fill_tabpath, IInv
  <2>2. 1 \in DOMAIN heap.table
    <3>1. DOMAIN heap.table = 1..Len(heap.table) /\ Len(heap.table) \in Nat /\ curtab \in DOMAIN heap.table
      BY <2>1, SeqIs DEF Sound, IsHeap
    <3> QED BY <3>1
  <2>3. IsFrame(heap, f)
    BY <2>2 DEF IsFrame, Walk
  <2>4. Calls(heap, <<f>> \o stack)
    <3>1. \A h, s, g : Calls(h, s) /\ IsFrame(h, g) => Calls(h, <<g>> \o s)
      BY CallsCons
    <3> QED BY <2>1, <2>3, <3>1 DEF Sound
  <2>5. <<f>> \o stack = <<f>>
    BY <2>1
  <2>6. Sound(heap', curtab', stack')
    BY <1>2, <2>1, <2>4, <2>5 DEF Sound
  <2> QED BY <1>2, <2>1, <2>6 DEF IInv
<1> QED BY <1>1, <1>2 DEF fill_tabpath

\* ParseLine keeps the invariant.
LEMMA ParseLineStep ==
  ASSUME IInv, NEW line, ParseLine(line)
  PROVE  IInv'
<1> DEFINE f == KeyVal(curtab, line.path, line.value)
<1>1. /\ status = "parsing" /\ stack = << >> /\ Sound(heap, curtab, stack)
      /\ stack' = <<f>> /\ heap' = heap /\ curtab' = curtab /\ status' = status
  BY DEF ParseLine, IInv
<1>2. IsFrame(heap, f)
  BY <1>1 DEF IsFrame, KeyVal, Sound
<1>3. Calls(heap, <<f>> \o stack)
  <2>1. \A h, s, g : Calls(h, s) /\ IsFrame(h, g) => Calls(h, <<g>> \o s)
    BY CallsCons
  <2> QED BY <1>1, <1>2, <2>1 DEF Sound
<1>4. <<f>> \o stack = <<f>>
  BY <1>1
<1>5. Sound(heap', curtab', stack')
  BY <1>1, <1>3, <1>4 DEF Sound
<1> QED BY <1>1, <1>5 DEF IInv

\* Calls around a call: those that a step leaves alone, with the call it goes on
\* with, on a heap that has grown.
LEMMA CallsOn ==
  ASSUME NEW h, NEW h2, NEW t, Grown(h, h2, t), NEW s, Calls(h, s), NEW f, IsFrame(h2, f)
  PROVE  Calls(h2, s) /\ Calls(h2, <<f>> \o s)
<1>1. Calls(h2, s)
  BY CallsGrown
<1> QED BY <1>1, CallsCons

\* walk_tabpath keeps the invariant.
LEMMA walk_tabpathStep ==
  ASSUME IInv, walk_tabpath
  PROVE  IInv'
<1> DEFINE call == Head(stack)
           next == TableOfKey(heap, call.at, Head(call.path))
           f == Walk(next.at, Tail(call.path), call.todo)
           rest == Tail(stack)
<1>1. stack # << >> /\ call.in = "walk_tabpath" /\ Continue(next, <<f>> \o rest)
  BY DEF walk_tabpath
<1>2. /\ Sound(heap, curtab, stack) /\ 1 \in DOMAIN heap.table
      /\ IsFrame(heap, call) /\ Calls(heap, rest)
  BY <1>1, InCall
<1>3. call.at \in DOMAIN heap.table
  BY <1>1, <1>2 DEF IsFrame
<1>4. next.ok => Grown(heap, next.heap, call.at) /\ KindsFit(next.heap) /\ next.at \in DOMAIN next.heap.table
  BY <1>2, <1>3, TableOfKeyIs DEF Sound
<1>5. next.at \in DOMAIN next.heap.table => IsFrame(next.heap, f)
  BY DEF IsFrame, Walk
<1> HIDE DEF next, f, rest, call
<1>6. next.ok => Calls(next.heap, <<f>> \o rest)
  BY <1>2, <1>4, <1>5, CallsOn
<1> QED
  BY <1>1, <1>4, <1>6, ContinueIs

\* parse_select keeps the invariant.
LEMMA parse_selectStep ==
  ASSUME IInv, parse_select
  PROVE  IInv'
<1> DEFINE call == Head(stack)
           z == Head(call.path)
           new == IF call.todo = "table" THEN create_keytable_in_table(heap, call.at, z)
                  ELSE create_element(heap, call.at, z)
           rest == Tail(stack)
<1>1. stack # << >> /\ call.in = "walk_tabpath"
  BY DEF parse_select
<1>2. /\ Sound(heap, curtab, stack) /\ 1 \in DOMAIN heap.table
      /\ IsFrame(heap, call) /\ Calls(heap, rest) /\ status # "failed" /\ status \in {"parsing", "parsed", "failed"}
  BY <1>1, InCall DEF IInv
<1>3. call.at \in DOMAIN heap.table
  BY <1>1, <1>2 DEF IsFrame
<1>4. new.ok => Grown(heap, new.heap, call.at) /\ KindsFit(new.heap) /\ new.at \in DOMAIN new.heap.table
  <2>1. CASE call.todo = "table"
    <3>1. new = create_keytable_in_table(heap, call.at, z)
      BY <2>1
    <3> HIDE DEF new, z, call
    <3> QED BY <1>2, <1>3, <3>1, create_keytableIs DEF Sound
  <2>2. CASE call.todo # "table"
    <3>1. new = create_element(heap, call.at, z)
      BY <2>2
    <3> HIDE DEF new, z, call
    <3> QED BY <1>2, <1>3, <3>1, create_elementIs DEF Sound
  <2> QED BY <2>1, <2>2
<1>5. CASE Fail
  BY <1>5, FailIs
<1>6. CASE new.ok /\ heap' = new.heap /\ curtab' = new.at /\ stack' = rest /\ status' = status
  <2> HIDE DEF new, rest, call
  <2>1. Calls(new.heap, rest)
    BY <1>2, <1>4, <1>6, CallsGrown
  <2>2. Sound(heap', curtab', stack')
    BY <1>4, <1>6, <2>1 DEF Sound, Grown
  <2> QED BY <1>2, <1>6, <2>2 DEF IInv
<1>7. \/ Fail
      \/ new.ok /\ heap' = new.heap /\ curtab' = new.at /\ stack' = rest /\ status' = status
  BY DEF parse_select
<1> QED BY <1>5, <1>6, <1>7

\* DottedKey keeps the invariant, and adds to an open table.
LEMMA DottedKeyStep ==
  ASSUME IInv, DottedKey
  PROVE  IInv' /\ \E t : Adds(t) /\ (status' # "failed" => ~heap.table[t].readonly)
<1> DEFINE call == Head(stack)
           key == Head(call.path)
           old == check_key(heap, call.at, key)
           sub == IF old.kind = "t" THEN Done(heap, old.to)
                  ELSE create_keytable_in_table(heap, call.at, key)
           f == KeyVal(sub.at, Tail(call.path), call.todo)
           rest == Tail(stack)
<1>1. /\ stack # << >> /\ call.in = "parse_keyval"
      /\ IF IsOpen(call.at) THEN Continue(sub, <<f>> \o rest) ELSE Fail
  BY DEF DottedKey
<1>2. /\ Sound(heap, curtab, stack) /\ 1 \in DOMAIN heap.table
      /\ IsFrame(heap, call) /\ Calls(heap, rest)
  BY <1>1, InCall
<1>3. call.at \in DOMAIN heap.table
  BY <1>1, <1>2 DEF IsFrame
<1>4. sub.ok => Grown(heap, sub.heap, call.at) /\ KindsFit(sub.heap) /\ sub.at \in DOMAIN sub.heap.table
  <2>1. CASE old.kind = "t"
    <3>1. sub.heap = heap /\ sub.at = old.to
      BY <2>1 DEF Done
    <3>2. old.to \in DOMAIN heap.table
      <4>1. IsRef(heap, old)
        <5> HIDE DEF call
        <5> QED BY <1>2, <1>3, <2>1, check_keyIs DEF Sound
      <4> QED BY <2>1, <4>1 DEF IsRef
    <3>3. Grown(heap, heap, call.at) /\ KindsFit(heap)
      BY <1>2 DEF Grown, Sound
    <3> HIDE DEF sub
    <3> QED BY <3>1, <3>2, <3>3
  <2>2. CASE old.kind # "t"
    <3>1. sub = create_keytable_in_table(heap, call.at, key)
      BY <2>2
    <3> HIDE DEF sub, key, call
    <3> QED BY <1>2, <1>3, <3>1, create_keytableIs DEF Sound
  <2> QED BY <2>1, <2>2
<1>5. sub.at \in DOMAIN sub.heap.table => IsFrame(sub.heap, f)
  BY DEF IsFrame, KeyVal
<1> HIDE DEF sub, f, rest, call
<1>6. CASE Fail
  BY <1>6, FailIs DEF Adds
<1>7. CASE IsOpen(call.at) /\ Continue(sub, <<f>> \o rest)
  <2>1. sub.ok => Calls(sub.heap, <<f>> \o rest)
    BY <1>2, <1>4, <1>5, CallsOn
  <2>2. IInv' /\ Adds(call.at)
    BY <1>1, <1>4, <1>7, <2>1, ContinueIs
  <2> QED BY <1>7, <2>2 DEF IsOpen
<1> QED BY <1>1, <1>6, <1>7

\* AssignKey keeps the invariant, and adds to an open table.
LEMMA AssignKeyStep ==
  ASSUME IInv, AssignKey
  PROVE  IInv' /\ \E t : Adds(t) /\ (status' # "failed" => ~heap.table[t].readonly)
<1> DEFINE call == Head(stack)
           key == Head(call.path)
           value == call.todo
           val == create_keyval_in_table(heap, call.at, key, value.val)
           arr == create_keyarray_in_table(heap, call.at, key, "none")
           tab == create_keytable_in_table(heap, call.at, key)
           fa == InArray(arr.at, value.elements)
           ft == Inline(tab.at, value.entries)
           rest == Tail(stack)
<1>1. /\ stack # << >> /\ call.in = "parse_keyval"
      /\ \/ Fail
         \/ IsOpen(call.at) /\ Continue(val, rest)
         \/ IsOpen(call.at) /\ Continue(arr, <<fa>> \o rest)
         \/ IsOpen(call.at) /\ Continue(tab, <<ft>> \o rest)
  BY DEF AssignKey
<1>2. /\ Sound(heap, curtab, stack) /\ 1 \in DOMAIN heap.table
      /\ IsFrame(heap, call) /\ Calls(heap, rest)
  BY <1>1, InCall
<1>3. call.at \in DOMAIN heap.table
  BY <1>1, <1>2 DEF IsFrame
<1>4. val.ok => Grown(heap, val.heap, call.at) /\ KindsFit(val.heap)
  <2> HIDE DEF call, key, value
  <2> QED BY <1>2, <1>3, create_keyvalIs DEF Sound
<1>5. arr.ok => /\ Grown(heap, arr.heap, call.at) /\ KindsFit(arr.heap)
                /\ arr.at \in DOMAIN arr.heap.array
  <2> HIDE DEF call, key
  <2>1. arr.ok => /\ Grown(heap, arr.heap, call.at)
                  /\ DOMAIN arr.heap.array = DOMAIN heap.array \cup {arr.at}
                  /\ \A u \in DOMAIN heap.array : arr.heap.array[u] = heap.array[u]
                  /\ arr.heap.array[arr.at] = [kind |-> "none", item |-> << >>]
    BY <1>2, <1>3, create_keyarrayIs DEF Sound
  <2> HIDE DEF arr
  <2> QED BY <1>2, <2>1 DEF Sound, KindsFit, KindFits
<1>6. tab.ok => /\ Grown(heap, tab.heap, call.at) /\ KindsFit(tab.heap)
                /\ tab.at \in DOMAIN tab.heap.table /\ ~tab.heap.table[tab.at].implicit
  <2> HIDE DEF call, key
  <2> QED BY <1>2, <1>3, create_keytableIs DEF Sound
<1>7. /\ arr.at \in DOMAIN arr.heap.array => IsFrame(arr.heap, fa)
      /\ tab.at \in DOMAIN tab.heap.table /\ ~tab.heap.table[tab.at].implicit => IsFrame(tab.heap, ft)
  <2> HIDE DEF arr, tab
  <2> QED BY DEF IsFrame, InArray, Inline
<1> HIDE DEF val, arr, tab, fa, ft, rest, call
<1>8. CASE Fail
  BY <1>8, FailIs DEF Adds
<1>9. CASE IsOpen(call.at) /\ Continue(val, rest)
  <2>1. val.ok => Calls(val.heap, rest)
    BY <1>2, <1>4, CallsGrown
  <2>2. IInv' /\ Adds(call.at)
    BY <1>1, <1>4, <1>9, <2>1, ContinueIs
  <2> QED BY <1>9, <2>2 DEF IsOpen
<1>10. CASE IsOpen(call.at) /\ Continue(arr, <<fa>> \o rest)
  <2>1. arr.ok => Calls(arr.heap, <<fa>> \o rest)
    BY <1>2, <1>5, <1>7, CallsOn
  <2>2. IInv' /\ Adds(call.at)
    BY <1>1, <1>5, <1>10, <2>1, ContinueIs
  <2> QED BY <1>10, <2>2 DEF IsOpen
<1>11. CASE IsOpen(call.at) /\ Continue(tab, <<ft>> \o rest)
  <2>1. tab.ok => Calls(tab.heap, <<ft>> \o rest)
    BY <1>2, <1>6, <1>7, CallsOn
  <2>2. IInv' /\ Adds(call.at)
    BY <1>1, <1>6, <1>11, <2>1, ContinueIs
  <2> QED BY <1>11, <2>2 DEF IsOpen
<1> QED BY <1>1, <1>8, <1>9, <1>10, <1>11

\* parse_inline_table keeps the invariant; a table that is closed twice is the
\* same.
LEMMA parse_inline_tableStep ==
  ASSUME IInv, parse_inline_table
  PROVE  /\ IInv'
         /\ \A t \in DOMAIN heap.table : heap.table[t].readonly => heap'.table[t] = heap.table[t]
<1> DEFINE call == Head(stack)
           entry == Head(call.todo)
           f == KeyVal(call.at, entry.path, entry.value)
           g == Inline(call.at, Tail(call.todo))
           rest == Tail(stack)
<1>1. /\ stack # << >> /\ call.in = "parse_inline_table"
      /\ curtab' = curtab /\ status' = status
      /\ \/ stack' = <<f, g>> \o rest /\ heap' = heap
         \/ heap' = [heap EXCEPT !.table[call.at].readonly = TRUE] /\ stack' = rest
  BY DEF parse_inline_table
<1>2. /\ Sound(heap, curtab, stack) /\ IsFrame(heap, call) /\ Calls(heap, rest)
      /\ status # "failed" /\ status \in {"parsing", "parsed", "failed"}
  BY <1>1, InCall DEF IInv
<1>3. call.at \in DOMAIN heap.table /\ ~heap.table[call.at].implicit
  BY <1>1, <1>2 DEF IsFrame
<1>4. CASE stack' = <<f, g>> \o rest /\ heap' = heap
  <2>1. IsFrame(heap, f) /\ IsFrame(heap, g)
    BY <1>3 DEF IsFrame, KeyVal, Inline
  <2> HIDE DEF f, g, rest
  <2>2. Calls(heap, <<f, g>> \o rest)
    BY <1>2, <2>1, CallsTwo
  <2>3. Sound(heap', curtab', stack')
    BY <1>1, <1>2, <1>4, <2>2 DEF Sound
  <2> QED BY <1>1, <1>2, <1>4, <2>3 DEF IInv
<1>5. CASE heap' = [heap EXCEPT !.table[call.at].readonly = TRUE] /\ stack' = rest
  <2>1. Closed(heap, call.at, heap')
    BY <1>2, <1>3, <1>5, CloseIs DEF Sound
  <2> HIDE DEF rest, call
  <2>2. Calls(heap', rest)
    BY <1>2, <2>1, CallsGrown DEF Closed
  <2>3. Sound(heap', curtab', stack')
    BY <1>1, <1>2, <1>5, <2>1, <2>2 DEF Sound, Grown, Closed
  <2> QED BY <1>1, <1>2, <2>1, <2>3 DEF IInv, Closed
<1> QED BY <1>1, <1>4, <1>5

\* parse_array keeps the invariant, and adds to no table.
LEMMA parse_arrayStep ==
  ASSUME IInv, parse_array
  PROVE  IInv' /\ Adds(0)
<1> DEFINE call == Head(stack)
           a == call.at
           element == Head(call.todo)
           outer == Tail(stack)
           f == InArray(a, Tail(call.todo))
           rest == <<f>> \o outer
           nv == Noted(heap, a, "v")
           na == Noted(heap, a, "a")
           nt == Noted(heap, a, "t")
           ref == Ref("v", element.val)
           h2 == Element(nv, a, ref)
           arr == create_array_in_array(na, a)
           tab == create_table_in_array(nt, a)
           fa == InArray(arr.at, element.elements)
           ft == Inline(tab.at, element.entries)
<1>1. /\ stack # << >> /\ call.in = "parse_array"
      /\ \/ Continue(Done(heap, 0), outer)
         \/ Continue(Done(h2, 0), rest)
         \/ Continue(arr, <<fa>> \o rest)
         \/ Continue(tab, <<ft>> \o rest)
  BY DEF parse_array
<1>2. /\ IsHeap(heap) /\ KindsFit(heap) /\ 1 \in DOMAIN heap.table /\ 0 \notin DOMAIN heap.table
      /\ IsFrame(heap, call) /\ Calls(heap, outer)
  BY <1>1, InCall DEF Sound
<1>3. a \in DOMAIN heap.array
  BY <1>1, <1>2 DEF IsFrame
<1> HIDE DEF a, outer, f, rest, nv, na, nt, ref, h2, arr, tab, fa, ft, element, call
<1>4. \A k \in {"v", "a", "t"} : Takes(heap, a, k, Noted(heap, a, k))
  BY <1>2, <1>3, NotedReady
<1>5. CASE Continue(Done(heap, 0), outer)
  <2> DEFINE r == Done(heap, 0)
  <2>1. r.heap = heap
    BY DEF Done
  <2>2. Grown(heap, r.heap, 0) /\ KindsFit(r.heap) /\ Calls(r.heap, outer)
    BY <1>2, <2>1 DEF Grown
  <2> HIDE DEF r
  <2> QED BY <1>1, <1>5, <2>2, ContinueIs DEF r
<1>6. CASE Continue(Done(h2, 0), rest)
  <2>1. IsHeap(nv) /\ nv.table = heap.table /\ DOMAIN nv.array = DOMAIN heap.array /\ Ready(nv, a, "v")
    BY <1>4 DEF Takes, nv
  <2>2. IsRef(nv, ref) /\ Fresh(nv, ref) /\ ref.kind = "v"
    BY DEF IsRef, Fresh, Meet, Ref, ref
  <2>3. /\ IsHeap(h2)
        /\ h2.table = nv.table /\ DOMAIN h2.array = DOMAIN nv.array
        /\ \A u \in DOMAIN nv.array : u # a => h2.array[u] = nv.array[u]
        /\ h2.array[a].kind = nv.array[a].kind
        /\ h2.array[a].item # << >>
        /\ \A n \in DOMAIN h2.array[a].item :
             \/ n \in DOMAIN nv.array[a].item /\ h2.array[a].item[n] = nv.array[a].item[n]
             \/ h2.array[a].item[n] = ref
    BY <1>3, <2>1, <2>2, ElementIs DEF h2
  <2>4. KindsFit(h2)
    <3>1. \A u \in DOMAIN h2.array : u # a => KindFits(h2.array[u])
      BY <2>1, <2>3 DEF Ready
    <3> QED BY <1>3, <2>1, <2>2, <2>3, <3>1, ReadyFits
  <2>5. Grown(heap, h2, 0)
    BY <2>1, <2>3 DEF Grown
  <2>6. IsFrame(h2, f)
    BY <1>3, <2>1, <2>3 DEF IsFrame, InArray, f
  <2>7. Calls(h2, rest)
    BY <1>2, <2>5, <2>6, CallsOn DEF rest
  <2> DEFINE r == Done(h2, 0)
  <2>8. r.heap = h2
    BY DEF Done
  <2> HIDE DEF r
  <2> QED BY <1>1, <1>6, <2>4, <2>5, <2>7, <2>8, ContinueIs DEF r
<1>7. CASE Continue(arr, <<fa>> \o rest)
  <2>1. IsHeap(na) /\ na.table = heap.table /\ DOMAIN na.array = DOMAIN heap.array /\ Ready(na, a, "a")
    BY <1>4 DEF Takes, na
  <2> DEFINE g == arr.heap
  <2>2. arr.ok /\ ArrayAdded(na, a, g, arr.at)
    BY <1>3, <2>1, create_array_in_arrayIs DEF arr
  <2>3. Grown(heap, g, 0)
    BY <2>1, <2>2 DEF Grown, ArrayAdded
  <2>4. KindsFit(g)
    <3>1. KindFits(g.array[arr.at])
      BY <2>2 DEF ArrayAdded, KindFits
    <3>2. KindFits(g.array[a])
      BY <2>1, <2>2 DEF Ready, ArrayAdded, KindFits
    <3> QED BY <2>1, <2>2, <3>1, <3>2 DEF Ready, ArrayAdded, KindsFit
  <2>5. IsFrame(g, f) /\ IsFrame(g, fa)
    BY <1>3, <2>1, <2>2 DEF ArrayAdded, IsFrame, InArray, f, fa
  <2> HIDE DEF g
  <2>6. Calls(g, rest)
    BY <1>2, <2>3, <2>5, CallsOn DEF rest
  <2>7. Calls(g, <<fa>> \o rest)
    BY <2>5, <2>6, CallsCons
  <2> QED BY <1>1, <1>7, <2>3, <2>4, <2>7, ContinueIs DEF g
<1>8. CASE Continue(tab, <<ft>> \o rest)
  <2>1. IsHeap(nt) /\ nt.table = heap.table /\ DOMAIN nt.array = DOMAIN heap.array /\ Ready(nt, a, "t")
    BY <1>4 DEF Takes, nt
  <2> DEFINE g == tab.heap
  <2>2. /\ tab.ok /\ Grown(nt, g, 0) /\ KindsFit(g)
        /\ tab.at \in DOMAIN g.table /\ ~g.table[tab.at].implicit
        /\ \A u \in DOMAIN nt.table : g.table[u] = nt.table[u]
    BY <1>2, <1>3, <2>1, TableElement DEF tab
  <2>3. Grown(heap, g, 0)
    BY <2>1, <2>2 DEF Grown
  <2>4. IsFrame(g, f) /\ IsFrame(g, ft)
    BY <1>3, <2>1, <2>2, <2>3 DEF Grown, IsFrame, InArray, Inline, f, ft
  <2> HIDE DEF g
  <2>5. Calls(g, rest)
    BY <1>2, <2>3, <2>4, CallsOn DEF rest
  <2>6. Calls(g, <<ft>> \o rest)
    BY <2>4, <2>5, CallsCons
  <2> QED BY <1>1, <1>8, <2>2, <2>3, <2>6, ContinueIs DEF g
<1> QED BY <1>1, <1>5, <1>6, <1>7, <1>8

-----------------------------------------------------------------------------
(***************************************************************************)
(* The theorems.                                                           *)
(***************************************************************************)
\* What a step for a key or a value leaves alone.
KeepsClosed ==
  stack # << >> /\ Head(stack).in # "walk_tabpath" /\ status' # "failed" =>
    \A t \in DOMAIN heap.table : heap.table[t].readonly => heap'.table[t] = heap.table[t]

\* A step keeps the invariant, and a key does not add to a closed table.
LEMMA NextInv ==
  ASSUME IInv, [Next]_vars
  PROVE  IInv' /\ KeepsClosed
<1>1. ASSUME UNCHANGED vars PROVE IInv' /\ KeepsClosed
  BY <1>1 DEF vars, IInv, KeepsClosed
<1>2. ASSUME NEW line \in Lines, fill_tabpath(line) PROVE IInv' /\ KeepsClosed
  BY <1>2, fill_tabpathStep DEF fill_tabpath, KeepsClosed
<1>3. ASSUME NEW line \in Lines, ParseLine(line) PROVE IInv' /\ KeepsClosed
  BY <1>3, ParseLineStep DEF ParseLine, KeepsClosed
<1>4. CASE walk_tabpath
  BY <1>4, walk_tabpathStep DEF walk_tabpath, KeepsClosed
<1>5. CASE parse_select
  BY <1>5, parse_selectStep DEF parse_select, KeepsClosed
<1>6. ASSUME NEW t, Adds(t), status' # "failed" => ~heap.table[t].readonly PROVE KeepsClosed
  BY <1>6 DEF Adds, Grown, KeepsClosed
<1>7. CASE DottedKey
  BY <1>6, <1>7, DottedKeyStep
<1>8. CASE AssignKey
  BY <1>6, <1>8, AssignKeyStep
<1>9. CASE parse_inline_table
  BY <1>9, parse_inline_tableStep DEF KeepsClosed
<1>10. CASE parse_array
  <2>1. IInv' /\ Adds(0) /\ 0 \notin DOMAIN heap.table
    BY <1>10, parse_arrayStep, InCall DEF parse_array
  <2> QED BY <2>1 DEF Adds, Grown, KeepsClosed
<1>11. CASE Eof
  <2>1. status' = "parsed" /\ UNCHANGED <<heap, curtab, stack>> /\ stack = << >> /\ status = "parsing"
    BY <1>11 DEF Eof
  <2> QED BY <2>1 DEF IInv, KeepsClosed
<1>12. CASE Over
  BY <1>1, <1>12 DEF Over
<1> QED
  BY <1>1, <1>2, <1>3, <1>4, <1>5, <1>7, <1>8, <1>9, <1>10, <1>11, <1>12 DEF Next, InsideLine

\* The invariant is one.
THEOREM Invariance == Spec => []IInv
<1>1. Init => IInv
  BY InitInv
<1>2. IInv /\ [Next]_vars => IInv'
  BY NextInv
<1> QED BY <1>1, <1>2, PTL DEF Spec

\* Whatever lines a configuration file has, toml_parse builds a tree: each
\* reference is to what was allocated and no two are to the same, so that
\* toml_free frees everything below the root once; the last element that
\* walk_tabpath takes for a table is one; a caller gets nothing from a parse that
\* failed.
THEOREM TreeIsWellFormed == Spec => []WellFormed
<1>1. IInv => WellFormed
  <2> SUFFICES ASSUME IInv PROVE WellFormed
    OBVIOUS
  <2>1. CASE status = "failed"
    <3>1. heap.table = << >> /\ heap.array = << >> /\ DOMAIN heap.table = {} /\ DOMAIN heap.array = {}
      BY <2>1 DEF IInv
    <3> QED BY <2>1, <3>1 DEF WellFormed, Unshared
  <2>2. CASE status # "failed"
    <3>1. status \in {"parsing", "parsed", "failed"} /\ Sound(heap, curtab, stack)
      BY <2>2 DEF IInv
    <3>2. \A t \in DOMAIN heap.table : \A n \in DOMAIN heap.table[t].entry : IsRef(heap, EntryRef(heap, t, n))
      BY <3>1 DEF Sound, IsHeap, IsTable, EntryRef
    <3>3. \A a \in DOMAIN heap.array :
            LET arr == heap.array[a]
            IN /\ \A n \in DOMAIN arr.item : IsRef(heap, arr.item[n])
               /\ arr.kind = "t" => /\ arr.item # << >>
                                    /\ \A n \in DOMAIN arr.item : arr.item[n].kind = "t"
      BY <3>1 DEF Sound, IsHeap, IsArray, KindsFit, KindFits
    <3>4. Unshared(heap) /\ curtab \in DOMAIN heap.table
      BY <3>1 DEF Sound, IsHeap
    <3> QED BY <2>2, <3>1, <3>2, <3>3, <3>4 DEF WellFormed
  <2> QED BY <2>1, <2>2
<1> QED BY <1>1, Invariance, PTL

\* No table of the tree has two entries of one name: check_key stands before every
\* entry that a builder makes.
THEOREM KeysAreUnique == Spec => []NoKeyTwice
<1>1. IInv => NoKeyTwice
  <2> SUFFICES ASSUME IInv PROVE NoKeyTwice
    OBVIOUS
  <2>1. CASE status = "failed"
    <3>1. DOMAIN heap.table = {}
      BY <2>1 DEF IInv
    <3> QED BY <3>1 DEF NoKeyTwice
  <2>2. CASE status # "failed"
    <3>1. \A t \in DOMAIN heap.table : IsTable(heap, t)
      BY <2>2 DEF IInv, Sound, IsHeap
    <3> QED BY <3>1 DEF NoKeyTwice, IsTable
  <2> QED BY <2>1, <2>2
<1> QED BY <1>1, Invariance, PTL

\* A key and its value never add to a table that is closed: parse_keyval looks at
\* the flag of the table it adds to, and a builder takes over no table that was
\* closed.
THEOREM ClosedTablesStay == Spec => ClosedToKeys
<1>1. IInv /\ [Next]_vars => [KeepsClosed]_vars
  BY NextInv
<1> QED BY <1>1, Invariance, PTL DEF Spec, ClosedToKeys, KeepsClosed
=============================================================================
