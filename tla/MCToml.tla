------------------------------- MODULE MCToml -------------------------------
(* Small instances of Toml and TomlMeaning for TLC. *)
EXTENDS TomlMeaning

CONSTANTS v1, v2

Value(v) == [type |-> "value", val |-> v]
Array(elements) == [type |-> "array", elements |-> elements]
Table(entries) == [type |-> "inline", entries |-> entries]

Assign(path, value) == [type |-> "keyval", path |-> path, value |-> value]
Header(path) == [type |-> "table", path |-> path]
NextElement(path) == [type |-> "element", path |-> path]

a == <<"a">>
b == <<"b">>
ab == <<"a", "b">>

\* Two names, so that keys, headers and dotted keys meet in every way.
MCLines ==
  {Header(path) : path \in {a, b, ab, <<"a", "b", "a">>, <<"a", "b", "a", "b">>}}
    \cup {NextElement(path) : path \in {a, ab}}
    \cup {Assign(path, Value(v1)) : path \in {b, <<"b", "a">>, <<"a", "b", "a">>}}
    \cup {Assign(a, Value(v2)), Assign(b, Array(<<Value(v1), Value(v2)>>))}
    \cup {Assign(a, value) : value \in {
            Array(<<Table(<<Assign(b, Value(v1))>>), Table(<< >>)>>),
            Array(<<Table(<<Assign(b, Value(v1))>>), Value(v2)>>),
            Array(<<Array(<<Value(v1)>>)>>),
            Array(<< >>)}}
    \cup {Assign(b, Table(entries)) : entries \in {
            <<Assign(<<"a", "b">>, Value(v1)), Assign(b, Value(v2))>>,
            << >>,
            <<Assign(a, Value(v1)), Assign(a, Value(v2))>>}}
=============================================================================
