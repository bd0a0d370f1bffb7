--------------------------- MODULE MCStoreInHash ---------------------------
(* A small instance of StoreInHash for TLC. *)
EXTENDS StoreInHash

CONSTANTS t1, t2, t3

MCThreads == {t1, t2, t3}

\* Two paths to record, one of them a prefix of the other, one that the exclude
\* list covers and one that the include list leaves out.
MCPaths == { <<"a">>, <<"a", "b">>, <<"a", "tmp", "c">>, <<"d">> }
MCInclude == { <<"a">> }
MCExclude == { <<"a", "tmp">> }
MCFilter == [op \in {} |-> "absent"]
MCFlags == {"r", "w"}
=============================================================================
