----------------------------- MODULE AccessLog -----------------------------
(***************************************************************************)
(* What the monitor promises about its log, with no lock and no hash       *)
(* table: every call made by a FUSE worker thread is recorded by one       *)
(* indivisible step between the call and its return, and the call returns  *)
(* the number of operations recorded for its path at that step.            *)
(***************************************************************************)
EXTENDS LogTable

CONSTANTS
  Threads,   \* FUSE worker threads
  Paths,     \* the paths that pass the include and exclude lists
  Flags,     \* the FLAG_ constants, one per operation
  Nil        \* no call

VARIABLES
  log,       \* log[p] : count and flags, for the paths recorded so far
  call,      \* call[t] : the call thread t is in, or Nil
  rc         \* rc[t] : what the last call of t returned

vars == <<log, call, rc>>

-----------------------------------------------------------------------------

Init ==
  /\ log = EmptyLog
  /\ call = [t \in Threads |-> Nil]
  /\ rc = [t \in Threads |-> 0]

Invoke(t, path, flag) ==
  /\ call[t] = Nil
  /\ call' = [call EXCEPT ![t] = [path |-> path, flag |-> flag, rc |-> 0]]
  /\ UNCHANGED <<log, rc>>

Record(t) ==
  /\ call[t] # Nil
  /\ call[t].rc = 0
  /\ log' = Recorded(log, call[t].path, call[t].flag)
  /\ call' = [call EXCEPT ![t].rc = log'[call[t].path].count]
  /\ UNCHANGED rc

Return(t) ==
  /\ call[t] # Nil
  /\ call[t].rc # 0
  /\ rc' = [rc EXCEPT ![t] = call[t].rc]
  /\ call' = [call EXCEPT ![t] = Nil]
  /\ UNCHANGED log

\* A call for a path the lists leave out returns 0 at once.
Ignore(t) ==
  /\ call[t] = Nil
  /\ rc' = [rc EXCEPT ![t] = 0]
  /\ UNCHANGED <<log, call>>

Next ==
  \E t \in Threads :
    \/ \E path \in Paths, flag \in Flags : Invoke(t, path, flag)
    \/ Record(t)
    \/ Return(t)
    \/ Ignore(t)

Spec == Init /\ [][Next]_vars
=============================================================================
