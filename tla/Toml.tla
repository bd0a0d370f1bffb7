-------------------------------- MODULE Toml --------------------------------
(***************************************************************************)
(* The parser that reads the configuration file: toml_parse                *)
(* (src/src/toml.c:675-1454), from lines to a tree of tables and arrays.   *)
(*                                                                         *)
(* A line is what its tokens say: a header [x.y.z] or [[x.y.z]], or a key  *)
(* with a value.  Syntax errors are left out: like every other error they  *)
(* end in `fail`.  The walk along a header and the recursive descent       *)
(* through values are a stack of frames: walk_tabpath, or one for each     *)
(* call of parse_keyval, parse_inline_table and parse_array that is under  *)
(* way.  What a file means is in TomlMeaning.                              *)
(***************************************************************************)
EXTENDS Naturals, Sequences, SequencesExt

CONSTANTS
  Lines,     \* the lines a file is made of
  MaxLines,  \* bound: the lines of a file
  MaxPath    \* the depth of a header, 10 in tpath

\* Keys and values can be anything, so that a sequence is one of its elements.
IsSeq(s) == s \in Seq(ToSet(s))

\* What the tokens of a line are: a header or a key has at least one part.
IsLine(line) ==
  /\ line.type \in {"table", "element", "keyval"}
  /\ IsSeq(line.path) /\ line.path # << >>
  /\ line.type = "keyval" /\ line.value.type = "array" => IsSeq(line.value.elements)

ASSUME LinesAssumption == \A line \in Lines : IsLine(line)

VARIABLES
  heap,    \* heap.table[t], heap.array[a] : what has been allocated; table 1 is the root
  curtab,  \* the table that keys go to
  stack,   \* the calls under way, innermost first
  status,  \* "parsing", "parsed" or "failed"
  read     \* auxiliary: the lines read so far

vars == <<heap, curtab, stack, status, read>>

\* An entry of a table or an element of an array refers to a value "v", an
\* array "a" or a table "t".
Ref(kind, to) == [kind |-> kind, to |-> to]
NoRef == Ref("none", 0)

NewTable(implicit) == [implicit |-> implicit, readonly |-> FALSE, entry |-> << >>]

-----------------------------------------------------------------------------
(***************************************************************************)
(* The builders.  Each returns the heap, what it found or made, and        *)
(* whether it went well.                                                   *)
(***************************************************************************)
Done(h, at) == [ok |-> TRUE, heap |-> h, at |-> at]
Failed(h) == [ok |-> FALSE, heap |-> h, at |-> 0]

\* The kind of the entry of `key`, and what it refers to.
check_key(h, t, key) ==
  LET entry == h.table[t].entry
      found == {n \in DOMAIN entry : entry[n].key = key}
  IN IF found = {} THEN NoRef
     ELSE entry[CHOOSE n \in found : \A m \in found : n <= m].ref

Enter(h, t, key, ref) ==
  [h EXCEPT !.table[t].entry = Append(@, [key |-> key, ref |-> ref])]

AddTable(h, implicit) == [h EXCEPT !.table = Append(@, NewTable(implicit))]
AddArray(h, kind) == [h EXCEPT !.array = Append(@, [kind |-> kind, item |-> << >>])]

\* Variant of create_keyval_in_table: the key is not looked up.
create_keyval_unchecked(h, t, key, val) == Done(Enter(h, t, key, Ref("v", val)), t)

create_keyval_in_table(h, t, key, val) ==
  IF check_key(h, t, key) # NoRef THEN Failed(h)
  ELSE Done(Enter(h, t, key, Ref("v", val)), t)

\* Variant of TakesOver: a table is a table, implicit or not.
TakesOverNothing(h, old) == FALSE

\* A table that only the way to another one has made is taken over.
TakesOver(h, old) == old.kind = "t" /\ h.table[old.to].implicit

create_keytable_in_table(h, t, key) ==
  LET old == check_key(h, t, key)
      new == Len(h.table) + 1
  IN IF old = NoRef THEN Done(Enter(AddTable(h, FALSE), t, key, Ref("t", new)), new)
     ELSE IF TakesOver(h, old) THEN Done([h EXCEPT !.table[old.to].implicit = FALSE], old.to)
     ELSE Failed(h)

create_keyarray_in_table(h, t, key, kind) ==
  LET new == Len(h.array) + 1
  IN IF check_key(h, t, key) # NoRef THEN Failed(h)
     ELSE Done(Enter(AddArray(h, kind), t, key, Ref("a", new)), new)

Element(h, a, ref) == [h EXCEPT !.array[a].item = Append(@, ref)]

create_table_in_array(h, a) ==
  LET new == Len(h.table) + 1
  IN Done(Element(AddTable(h, FALSE), a, Ref("t", new)), new)

create_array_in_array(h, a) ==
  LET new == Len(h.array) + 1
  IN Done(Element(AddArray(h, "none"), a, Ref("a", new)), new)

-----------------------------------------------------------------------------
(***************************************************************************)
(* Headers.                                                                *)
(***************************************************************************)
\* Variant of CurrentTable: the first table of an array.
FirstTable(arr) == Head(arr.item).to

\* A header goes on with the last table of an array.
CurrentTable(arr) == Last(arr.item).to

\* One turn of the loop of walk_tabpath: into the table of a key, into the last
\* table of an array of tables, or into a new implicit table.
TableOfKey(h, t, key) ==
  LET old == check_key(h, t, key)
      new == Len(h.table) + 1
  IN IF old.kind = "t" THEN Done(h, old.to)
     ELSE IF old.kind = "a" THEN
       IF h.array[old.to].kind = "t" /\ h.array[old.to].item # << >>
         THEN Done(h, CurrentTable(h.array[old.to])) ELSE Failed(h)
     ELSE IF old = NoRef THEN Done(Enter(AddTable(h, TRUE), t, key, Ref("t", new)), new)
     ELSE Failed(h)

\* [[z]] : one more table in the array z of table t.
create_element(h, t, z) ==
  LET old == check_key(h, t, z)
      arr == IF old.kind = "a" THEN Done(h, old.to) ELSE create_keyarray_in_table(h, t, z, "t")
  IN IF arr.ok /\ arr.heap.array[arr.at].kind = "t" THEN create_table_in_array(arr.heap, arr.at)
     ELSE Failed(h)

-----------------------------------------------------------------------------
Init ==
  /\ heap = [table |-> <<NewTable(FALSE)>>, array |-> << >>]
  /\ curtab = 1
  /\ stack = << >>
  /\ status = "parsing"
  /\ read = << >>

\* The label fail of toml_parse: everything is freed.
Fail ==
  /\ status' = "failed"
  /\ heap' = [table |-> << >>, array |-> << >>]
  /\ stack' = << >>
  /\ curtab' = 0

\* The parser goes on with the heap of `result` and the calls `calls`.
Continue(result, calls) ==
  IF result.ok THEN /\ heap' = result.heap
                    /\ stack' = calls
                    /\ UNCHANGED <<curtab, status>>
  ELSE Fail

KeyVal(t, path, value) == [in |-> "parse_keyval", at |-> t, path |-> path, todo |-> value]
Inline(t, entries) == [in |-> "parse_inline_table", at |-> t, path |-> << >>, todo |-> entries]
InArray(a, elements) == [in |-> "parse_array", at |-> a, path |-> << >>, todo |-> elements]

Walk(t, path, type) == [in |-> "walk_tabpath", at |-> t, path |-> path, todo |-> type]

\* A line [x.y.z] or [[x.y.z]] : the walk begins at the root.
fill_tabpath(line) ==
  /\ status = "parsing" /\ stack = << >>
  /\ line.type \in {"table", "element"}
  /\ IF Len(line.path) <= MaxPath
       THEN stack' = <<Walk(1, line.path, line.type)>> /\ UNCHANGED <<heap, curtab, status>>
       ELSE Fail
  /\ read' = Append(read, line)

\* One turn of the loop, for a part of the path that is not the last.
walk_tabpath ==
  LET call == Head(stack)
      next == TableOfKey(heap, call.at, Head(call.path))
  IN /\ stack # << >> /\ call.in = "walk_tabpath"
     /\ Len(call.path) > 1
     /\ Continue(next, <<Walk(next.at, Tail(call.path), call.todo)>> \o Tail(stack))
     /\ UNCHANGED read

\* The end of parse_select: the table that the last part of the path names.
parse_select ==
  LET call == Head(stack)
      z == Head(call.path)
      new == IF call.todo = "table" THEN create_keytable_in_table(heap, call.at, z)
             ELSE create_element(heap, call.at, z)
  IN /\ stack # << >> /\ call.in = "walk_tabpath"
     /\ Len(call.path) = 1
     /\ IF new.ok THEN /\ heap' = new.heap
                       /\ curtab' = new.at
                       /\ stack' = Tail(stack)
                       /\ UNCHANGED status
        ELSE Fail
     /\ UNCHANGED read

\* A line that begins with a key.
ParseLine(line) ==
  /\ status = "parsing" /\ stack = << >>
  /\ line.type = "keyval"
  /\ stack' = <<KeyVal(curtab, line.path, line.value)>>
  /\ read' = Append(read, line)
  /\ UNCHANGED <<heap, curtab, status>>

\* Variant of IsOpen: a table is never closed.
IsOpenAlways(t) == TRUE

\* The test at the head of parse_keyval.
IsOpen(t) == ~heap.table[t].readonly

\* x.y = value : into the table of x, which is made if there is none.
DottedKey ==
  LET call == Head(stack)
      key == Head(call.path)
      old == check_key(heap, call.at, key)
      sub == IF old.kind = "t" THEN Done(heap, old.to)
             ELSE create_keytable_in_table(heap, call.at, key)
  IN /\ stack # << >> /\ call.in = "parse_keyval"
     /\ Len(call.path) > 1
     /\ IF IsOpen(call.at)
          THEN Continue(sub, <<KeyVal(sub.at, Tail(call.path), call.todo)>> \o Tail(stack))
          ELSE Fail
     /\ UNCHANGED read

\* x = value : a value, an array, or an inline table.
AssignKey ==
  LET call == Head(stack)
      key == Head(call.path)
      value == call.todo
      arr == create_keyarray_in_table(heap, call.at, key, "none")
      tab == create_keytable_in_table(heap, call.at, key)
  IN /\ stack # << >> /\ call.in = "parse_keyval"
     /\ Len(call.path) = 1
     /\ \/ ~IsOpen(call.at) /\ Fail
        \/ /\ IsOpen(call.at) /\ value.type = "value"
           /\ Continue(create_keyval_in_table(heap, call.at, key, value.val), Tail(stack))
        \/ /\ IsOpen(call.at) /\ value.type = "array"
           /\ Continue(arr, <<InArray(arr.at, value.elements)>> \o Tail(stack))
        \/ /\ IsOpen(call.at) /\ value.type = "inline"
           /\ Continue(tab, <<Inline(tab.at, value.entries)>> \o Tail(stack))
     /\ UNCHANGED read

\* The loop of parse_inline_table: the next key, or the end, where the table is
\* closed.
parse_inline_table ==
  LET call == Head(stack)
      rest == Inline(call.at, Tail(call.todo))
      entry == Head(call.todo)
  IN /\ stack # << >> /\ call.in = "parse_inline_table"
     /\ IF call.todo # << >>
          THEN /\ stack' = <<KeyVal(call.at, entry.path, entry.value), rest>> \o Tail(stack)
               /\ UNCHANGED heap
          ELSE /\ heap' = [heap EXCEPT !.table[call.at].readonly = TRUE]
               /\ stack' = Tail(stack)
     /\ UNCHANGED <<curtab, status, read>>

\* Variant of KindWith: the kind is that of the first element.
KindOfFirst(kind, element) == IF kind = "none" THEN element ELSE kind

\* The kind of an array after one more element: "m" once they differ.
KindWith(kind, element) == IF kind \in {"none", element} THEN element ELSE "m"

\* The array notes the kind of its next element.
Noted(h, a, kind) == [h EXCEPT !.array[a].kind = KindWith(@, kind)]

\* The loop of parse_array: the next element, or the end.
parse_array ==
  LET call == Head(stack)
      a == call.at
      element == Head(call.todo)
      rest == <<InArray(a, Tail(call.todo))>> \o Tail(stack)
      arr == create_array_in_array(Noted(heap, a, "a"), a)
      tab == create_table_in_array(Noted(heap, a, "t"), a)
  IN /\ stack # << >> /\ call.in = "parse_array"
     /\ \/ call.todo = << >> /\ Continue(Done(heap, 0), Tail(stack))
        \/ /\ call.todo # << >> /\ element.type = "value"
           /\ Continue(Done(Element(Noted(heap, a, "v"), a, Ref("v", element.val)), 0), rest)
        \/ /\ call.todo # << >> /\ element.type = "array"
           /\ Continue(arr, <<InArray(arr.at, element.elements)>> \o rest)
        \/ /\ call.todo # << >> /\ element.type = "inline"
           /\ Continue(tab, <<Inline(tab.at, element.entries)>> \o rest)
     /\ UNCHANGED read

\* The end of the file.
Eof ==
  /\ status = "parsing" /\ stack = << >>
  /\ status' = "parsed"
  /\ UNCHANGED <<heap, curtab, stack, read>>

Over == status # "parsing" /\ UNCHANGED vars

\* A step inside a line.
InsideLine ==
  \/ walk_tabpath \/ parse_select
  \/ DottedKey \/ AssignKey \/ parse_inline_table \/ parse_array

Next ==
  \/ /\ Len(read) < MaxLines
     /\ \E line \in Lines : fill_tabpath(line) \/ ParseLine(line)
  \/ InsideLine
  \/ Eof
  \/ Over

Spec == Init /\ [][Next]_vars

-----------------------------------------------------------------------------
(***************************************************************************)
(* Where a line belongs, by the lines before it.                           *)
(***************************************************************************)
\* The path of the header that line i is or is under, none at the head of the file.
HeaderPath(text, i) ==
  LET headers == {j \in 1..i : text[j].type # "keyval"}
  IN IF headers = {} THEN << >> ELSE text[Max(headers)].path

FullPath(text, i) ==
  IF text[i].type = "keyval" THEN HeaderPath(text, i) \o text[i].path ELSE HeaderPath(text, i)

\* A value without tables.
IsPlain(value) ==
  \/ value.type = "value"
  \/ value.type = "array" /\ \A n \in DOMAIN value.elements : value.elements[n].type = "value"

\* The table at `path` is made by the dotted key of line i.
Passes(text, i, path) ==
  /\ text[i].type = "keyval"
  /\ IsStrictPrefix(HeaderPath(text, i), path) /\ IsStrictPrefix(path, FullPath(text, i))

\* No two lines have to do with each other: no [[x]], no header twice, no key
\* that is the way to another key or to a header, no dotted key through a table
\* with a header of its own.
Independent(text) ==
  /\ \A i \in DOMAIN text :
       /\ text[i].type \in {"table", "keyval"}
       /\ text[i].type = "keyval" => IsPlain(text[i].value)
       /\ text[i].type = "table"  => Len(text[i].path) <= MaxPath
  /\ \A i, j \in DOMAIN text :
       i # j =>
         /\ text[i].type = "table" /\ text[j].type = "table" => text[i].path # text[j].path
         /\ text[i].type = "keyval" => ~IsPrefix(FullPath(text, i), FullPath(text, j))
         /\ text[j].type = "table" => ~Passes(text, i, text[j].path)

-----------------------------------------------------------------------------
(***************************************************************************)
(* Properties.                                                             *)
(***************************************************************************)
IsRef(h, ref) ==
  \/ ref.kind = "v"
  \/ ref.kind = "t" /\ ref.to \in DOMAIN h.table
  \/ ref.kind = "a" /\ ref.to \in DOMAIN h.array

EntryRef(h, t, n) == h.table[t].entry[n].ref
ItemRef(h, a, n) == h.array[a].item[n]

\* Two references that lead to one table or array.
Meet(p, q) == p.kind # "v" /\ p.kind = q.kind /\ p.to = q.to

\* What is below a table or an array is below nothing else, and the root is below
\* nothing: toml_free, which goes down from the root, frees nothing twice.
Unshared(h) ==
  /\ \A t, u \in DOMAIN h.table : \A m \in DOMAIN h.table[t].entry, n \in DOMAIN h.table[u].entry :
       Meet(EntryRef(h, t, m), EntryRef(h, u, n)) => t = u /\ m = n
  /\ \A a, b \in DOMAIN h.array : \A m \in DOMAIN h.array[a].item, n \in DOMAIN h.array[b].item :
       Meet(ItemRef(h, a, m), ItemRef(h, b, n)) => a = b /\ m = n
  /\ \A t \in DOMAIN h.table, a \in DOMAIN h.array :
       \A m \in DOMAIN h.table[t].entry, n \in DOMAIN h.array[a].item :
         ~Meet(EntryRef(h, t, m), ItemRef(h, a, n))
  /\ \A t \in DOMAIN h.table : \A m \in DOMAIN h.table[t].entry : ~Meet(EntryRef(h, t, m), Ref("t", 1))
  /\ \A a \in DOMAIN h.array : \A m \in DOMAIN h.array[a].item : ~Meet(ItemRef(h, a, m), Ref("t", 1))

\* All references are to what has been allocated, none to the same, and a caller
\* of a parse that failed gets nothing.  walk_tabpath takes the last element of an
\* array of kind "t" for a table without looking at it: it is one, whatever
\* mixture the array was written with, and the internal error for an array that
\* has no element is never met.
WellFormed ==
  /\ status \in {"parsing", "parsed", "failed"}
  /\ \A t \in DOMAIN heap.table : \A n \in DOMAIN heap.table[t].entry : IsRef(heap, EntryRef(heap, t, n))
  /\ \A a \in DOMAIN heap.array :
       LET arr == heap.array[a]
       IN /\ \A n \in DOMAIN arr.item : IsRef(heap, arr.item[n])
          /\ arr.kind = "t" => /\ arr.item # << >>
                               /\ \A n \in DOMAIN arr.item : arr.item[n].kind = "t"
  /\ Unshared(heap)
  /\ IF status = "failed" THEN heap.table = << >> ELSE curtab \in DOMAIN heap.table

\* A file whose lines have nothing to do with each other is accepted, with its
\* headers in any order: [a.b] before [a] is no redefinition.
IndependentLinesAreAccepted == Independent(read) => status # "failed"

\* A table has no key twice, not even as a value and as a table: parse_config
\* looks each name up by kind, and would see one of the two.
NoKeyTwice ==
  \A t \in DOMAIN heap.table :
    LET entry == heap.table[t].entry
    IN \A m, n \in DOMAIN entry : entry[m].key = entry[n].key => m = n

\* A key never adds to a table that an inline table has closed, by a dotted key
\* or by a key of the table itself.  (A header does: only parse_keyval looks at
\* the flag.)
ClosedToKeys ==
  [][stack # << >> /\ Head(stack).in # "walk_tabpath" /\ status' # "failed" =>
       \A t \in DOMAIN heap.table : heap.table[t].readonly => heap'.table[t] = heap.table[t]]_vars
=============================================================================
