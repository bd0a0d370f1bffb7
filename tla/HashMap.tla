------------------------------ MODULE HashMap ------------------------------
(***************************************************************************)
(* What src/src/utils.c promises to its callers: a map from strings to     *)
(* pointers.  Hash_Delete is one step; Hash_Add is called and takes effect *)
(* when it returns, and until then the map stays as it is; it is lost when  *)
(* there is no memory.  Hash_Find(key) is map[key].                        *)
(***************************************************************************)
EXTENDS Naturals

CONSTANTS
  Keys,     \* the strings used as keys
  Values,   \* the pointers stored under them
  NULL      \* what Hash_Find returns for a key that is not there

VARIABLES
  map,      \* map[k] : the pointer stored under k, or NULL
  adding,   \* the key and value of the insertion that runs, or NULL
  failures  \* insertions that found no memory

vars == <<map, adding, failures>>

Init ==
  /\ map = [k \in Keys |-> NULL]
  /\ adding = NULL
  /\ failures = 0

Call(key, value) ==
  /\ adding = NULL
  /\ adding' = [key |-> key, val |-> value]
  /\ UNCHANGED <<map, failures>>

Hash_Add ==
  /\ adding # NULL
  /\ map' = [map EXCEPT ![adding.key] = adding.val]
  /\ adding' = NULL
  /\ UNCHANGED failures

Fail ==
  /\ adding # NULL
  /\ adding' = NULL
  /\ failures' = failures + 1
  /\ UNCHANGED map

Hash_Delete(key) ==
  /\ adding = NULL
  /\ map' = [map EXCEPT ![key] = NULL]
  /\ UNCHANGED <<adding, failures>>

Hash_Free ==
  /\ adding = NULL
  /\ map' = [k \in Keys |-> NULL]
  /\ UNCHANGED <<adding, failures>>

Next ==
  \/ \E key \in Keys, value \in Values : Call(key, value)
  \/ Hash_Add
  \/ Fail
  \/ Hash_Free
  \/ \E key \in Keys : Hash_Delete(key)

Spec == Init /\ [][Next]_vars
=============================================================================
