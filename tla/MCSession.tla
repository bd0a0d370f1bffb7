----------------------------- MODULE MCSession -----------------------------
(* Small instances of Session for TLC. *)
EXTENDS Session

CONSTANTS t1, t2, oldpath

src == <<"src", "a.c">>
gone == <<"src", "gone">>
colon == <<"out", "a:b">>
top == <<"c.c">>

dir == <<"src">>

MCPaths == {src, gone, colon, dir, top}
MCTree ==
  [p \in {<< >>, <<"src">>, <<"out">>, src, colon, top} |->
     IF p \in {src, colon, top} THEN "file" ELSE "dir"]
MCHasColon == {colon}
MCNoSlash == {}
MCOps == {"open", "getattr", "readdir", "release"}
MCFailing == {"open"}
MCThreads == {t1, t2}
MCAbsolute == {"/mnt"}
MCCreatable == {"log", "log2"}
MCOldLog == [p \in {oldpath} |-> [count |-> 1, flags |-> {"open"}]]

Value(v) == [type |-> "value", val |-> v]
Assign(path, value) == [type |-> "keyval", path |-> path, value |-> value]
PathList(paths) ==
  Assign(<<"paths">>, [type |-> "array", elements |-> [k \in DOMAIN paths |-> Value(paths[k])]])
Header(name) == [type |-> "table", path |-> <<name>>]
Filter(open, getattr) ==
  <<Header("filter"), Assign(<<"open">>, Value(open)), Assign(<<"getattr">>, Value(getattr))>>

\* Files with both lists, in every form a key may have, with values that are not
\* what they should be, with a word that is not known, without [filter], and
\* with a key twice.
MCConfigFile ==
  [name \in {"lists", "words", "junk", "odd", "wrong", "nofilter", "broken", "missing", "shipped"} |->
     CASE name = "lists"    -> <<Header("exclude"), PathList(<< <<"out">> >>), Header("include_only"),
                                 PathList(<< <<"src">>, <<"out">> >>)>> \o Filter("success", "success")
       [] name = "words"    -> <<Assign(<<"filter", "open">>, Value("unsuccess")),
                                 Assign(<<"filter", "getattr">>, Value("never"))>>
       [] name = "junk"     -> Filter("all", "success") \o
                               <<Header("exclude"), PathList(<<NotString, <<"out">> >>),
                                 Header("include_only"), PathList(<< <<"src">>, NotString>>)>>
       [] name = "odd"      -> <<Assign(<<"exclude">>, Value("out")),
                                 Assign(<<"include_only", "paths">>, Value("src"))>>
                               \o Filter(NotString, "success")
       [] name = "wrong"    -> Filter("success", "failure")
       [] name = "nofilter" -> <<Header("include_only"), PathList(<< <<"src">> >>)>>
       [] name = "broken"   -> Append(Filter("success", "success"), Assign(<<"open">>, Value("all")))
       [] name = "missing"  -> NULL
       [] name = "shipped"  -> Append(Filter("success", "success"), Assign(<<"readdir">>, Value("success")))]

Opt(o) == [opt |-> o, arg |-> NULL]
Log(name) == [opt |-> "l", arg |-> name]
Config(name) == [opt |-> "c", arg |-> name]
Command(opts) == [opts |-> opts, operands |-> <<"/mnt">>]

\* Every configuration file with a log, a few that have no log or more than
\* one, and command lines that fill the arguments of FUSE or do not name a
\* mount point.
MCCommands ==
  {Command(<<Config(name), Log("log")>>) : name \in DOMAIN MCConfigFile}
    \cup {Command(<<a, b, c>>) :
            a \in {Opt("f"), Config("words")},
            b \in {Log("log"), Opt("p"), Opt("e")},
            c \in {Log("log2"), Config("lists")}}
    \cup {Command(opts) : opts \in { << >>, <<Opt("p"), Opt("f"), Opt("e")>>,
                                     <<Opt("e"), Opt("e"), Opt("e")>>, <<Opt("x"), Opt("f"), Opt("h")>>, <<Log("log"), Opt("h")>> }}
    \cup {[opts |-> <<Log("log")>>, operands |-> <<"mnt">>]}
    \cup {[opts |-> << >>, operands |-> operands] :
            operands \in { << >>, <<"mnt">>, <<"/mnt", "-d">>, <<"/mnt", "-d", "-s", "-x">> }}

\* A log, and nothing else said.
MCDefault == {Command(<<Log("log")>>)}
\* The configuration file of the repository.
MCShipped == {Command(<<Config("shipped"), Log("log")>>)}
=============================================================================
