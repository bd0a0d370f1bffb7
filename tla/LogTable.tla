------------------------------ MODULE LogTable ------------------------------
(***************************************************************************)
(* The access log as a value: for every path recorded so far, the number   *)
(* of operations and the set of their flags, as lfs_count_t keeps them     *)
(* (src/src/distillerfs.c:158).                                            *)
(***************************************************************************)
EXTENDS Naturals

EmptyLog == [p \in {} |-> [count |-> 0, flags |-> {}]]

\* The log after one more operation `flag` on `path`.
Recorded(l, path, flag) ==
  [q \in DOMAIN l \cup {path} |->
     IF q # path THEN l[q]
     ELSE IF path \in DOMAIN l
          THEN [count |-> l[path].count + 1, flags |-> l[path].flags \cup {flag}]
          ELSE [count |-> 1, flags |-> {flag}]]
=============================================================================
