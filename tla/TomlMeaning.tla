----------------------------- MODULE TomlMeaning -----------------------------
(***************************************************************************)
(* What a configuration file means, said without a parser, and the         *)
(* properties that compare it with the tree that module Toml builds.       *)
(***************************************************************************)
EXTENDS Toml, FiniteSets, FiniteSetsExt

(***************************************************************************)
(* What a file says, by its lines alone.  A position is the way from the   *)
(* root: keys, and the numbers of the elements of arrays.                  *)
(***************************************************************************)
Key(k) == <<k, 0>>
Index(n) == <<"", n>>
Keys(path) == [n \in DOMAIN path |-> Key(path[n])]

\* The values that `value` puts below `pos`.
RECURSIVE Given(_, _)
Given(pos, value) ==
  CASE value.type = "value" -> {<<pos, value.val>>}
    [] value.type = "array" ->
         UNION {Given(Append(pos, Index(n)), value.elements[n]) : n \in DOMAIN value.elements}
    [] value.type = "inline" ->
         UNION {Given(pos \o Keys(value.entries[n].path), value.entries[n].value) :
                  n \in DOMAIN value.entries}

\* The header that line i is under, 0 at the head of the file.
HeaderOf(i) == Max({0} \cup {j \in 1..i : read[j].type # "keyval"})

\* The elements line j adds to the array at `path`.
Elements(j, path) ==
  CASE read[j].type = "element" /\ read[j].path = path -> 1
    [] read[j].type = "keyval" /\ read[j].value.type = "array" /\ FullPath(read, j) = path ->
         Len(read[j].value.elements)
    [] OTHER -> 0

\* The element that `path` leads to at line i, 0 if it is no array there: each
\* [[x]] begins anew with the arrays below x.
ElementAt(path, i) ==
  LET begin == Max({0} \cup {j \in 1..i : /\ read[j].type = "element"
                                          /\ IsStrictPrefix(read[j].path, path)})
  IN MapThenSumSet(LAMBDA j : Elements(j, path), (begin + 1)..i)

HeaderPosition(i) ==
  LET path == HeaderPath(read, i)
      Part(n) == LET e == ElementAt(SubSeq(path, 1, n), HeaderOf(i))
                 IN IF e = 0 THEN <<Key(path[n])>> ELSE <<Key(path[n]), Index(e)>>
  IN FlattenSeq([n \in DOMAIN path |-> Part(n)])

Meaning ==
  UNION {Given(HeaderPosition(i) \o Keys(read[i].path), read[i].value) :
           i \in {j \in DOMAIN read : read[j].type = "keyval"}}

\* The values in the tree, from position `pos` downwards.
RECURSIVE Below(_, _)
Below(pos, ref) ==
  CASE ref.kind = "v" -> {<<pos, ref.to>>}
    [] ref.kind = "a" ->
         LET item == heap.array[ref.to].item
         IN UNION {Below(Append(pos, Index(n)), item[n]) : n \in DOMAIN item}
    [] ref.kind = "t" ->
         LET entry == heap.table[ref.to].entry
         IN UNION {Below(Append(pos, Key(entry[n].key)), entry[n].ref) : n \in DOMAIN entry}

Content == Below(<< >>, Ref("t", 1))

(***************************************************************************)
(* Properties.                                                             *)
(***************************************************************************)
\* Between two lines the tree holds exactly the values that the lines give, each
\* where its header and its key say, elements of arrays of tables included.
AssignmentsLand == status # "failed" /\ stack = << >> => Content = Meaning
==============================================================================
