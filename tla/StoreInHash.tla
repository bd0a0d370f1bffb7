---------------------------- MODULE StoreInHash ----------------------------
(***************************************************************************)
(* Store_In_Hash (src/src/distillerfs.c:207) run by the worker threads of  *)
(* a multi-threaded FUSE session: one action per access to what the        *)
(* threads share, that is the mutex, the hash table and the heap-allocated *)
(* lfs_count_t items the table points to.                                  *)
(*                                                                         *)
(* The hash table is a map from paths to pointers here; module KHash       *)
(* models the open-addressing table behind it.                             *)
(***************************************************************************)
EXTENDS Naturals, Integers, FiniteSets, LogFilter

CONSTANTS
  Threads,   \* FUSE worker threads
  Paths,     \* paths the kernel may name
  Flags,     \* the FLAG_ constants, one per operation
  NULL,      \* the null pointer, and no thread
  IntMax,    \* the largest value of the C type int
  MaxCalls   \* bound: recorded calls per path

ASSUME NullAssumption ==
  /\ NULL \notin Threads /\ NULL \notin Paths /\ NULL \notin Flags /\ NULL \notin Int
  /\ NULL \notin [path : Paths, flag : Flags, rc : Int]
ASSUME ThreadsAssumption == IsFiniteSet(Threads)
ASSUME BoundsAssumption == IntMax \in Nat \ {0} /\ MaxCalls \in Nat

VARIABLES
  prmutex,   \* the thread that holds prmutex, or NULL
  hash,      \* path -> pointer, for the keys in the table
  heap,      \* the items allocated so far; a pointer is an index
  pc,        \* where each thread is in Store_In_Hash
  arg,       \* the path and flag of the call each thread is in
  item,      \* the local variable `item` of each thread
  reg,       \* the count each thread has loaded and not yet stored
  rc,        \* what the last call of each thread returned
  asked      \* asked[p] : calls made so far that have to be recorded for p

vars == <<prmutex, hash, heap, pc, arg, item, reg, rc, asked>>

Stored == {p \in Paths : LoggedPath(p)}

NoArg == [path |-> NULL, flag |-> NULL]

\* item->count++ on an int, as the -O0 build computes it.
Inc(n) == IF n = IntMax THEN -IntMax - 1 ELSE n + 1

Goto(t, label) == pc' = [pc EXCEPT ![t] = label]

-----------------------------------------------------------------------------

Init ==
  /\ prmutex = NULL
  /\ hash = [p \in {} |-> NULL]
  /\ heap = << >>
  /\ pc = [t \in Threads |-> "idle"]
  /\ arg = [t \in Threads |-> NoArg]
  /\ item = [t \in Threads |-> NULL]
  /\ reg = [t \in Threads |-> 0]
  /\ rc = [t \in Threads |-> 0]
  /\ asked = [p \in Stored |-> 0]

\* The early returns: a null path, or one the lists leave out.
Reject(t, path) ==
  /\ pc[t] = "idle"
  /\ path # NULL => ~LoggedPath(path)
  /\ rc' = [rc EXCEPT ![t] = 0]
  /\ UNCHANGED <<prmutex, hash, heap, pc, arg, item, reg, asked>>

Enter(t, path, flag) ==
  /\ pc[t] = "idle"
  /\ LoggedPath(path)
  /\ asked[path] < MaxCalls
  /\ asked' = [asked EXCEPT ![path] = @ + 1]
  /\ arg' = [arg EXCEPT ![t] = [path |-> path, flag |-> flag]]
  /\ Goto(t, "lock")
  /\ UNCHANGED <<prmutex, hash, heap, item, reg, rc>>

\* Variant of Lock: the mutex is not taken ("Hash function is not reentrant").
LockNotTaken(t) ==
  /\ pc[t] = "lock"
  /\ prmutex' = t
  /\ Goto(t, "find")
  /\ UNCHANGED <<hash, heap, arg, item, reg, rc, asked>>

\* pthread_mutex_lock(&prmutex)
Lock(t) ==
  /\ pc[t] = "lock"
  /\ prmutex = NULL
  /\ prmutex' = t
  /\ Goto(t, "find")
  /\ UNCHANGED <<hash, heap, arg, item, reg, rc, asked>>

\* Variant of Find: keys compared as pointers, so that no lookup succeeds.
FindMisses(t) ==
  /\ pc[t] = "find"
  /\ item' = [item EXCEPT ![t] = NULL]
  /\ Goto(t, "add")
  /\ UNCHANGED <<prmutex, hash, heap, arg, reg, rc, asked>>

\* item = Hash_Find(log_hash, path)
Find(t) ==
  LET path == arg[t].path
      found == path \in DOMAIN hash
  IN /\ pc[t] = "find"
     /\ item' = [item EXCEPT ![t] = IF found THEN hash[path] ELSE NULL]
     /\ Goto(t, IF found THEN "load" ELSE "add")
     /\ UNCHANGED <<prmutex, hash, heap, arg, reg, rc, asked>>

\* Variant of Add: the null pointer of a failed malloc gets into the table.
AddNull(t) ==
  LET path == arg[t].path
  IN /\ pc[t] = "add"
     /\ hash' = [p \in DOMAIN hash \cup {path} |-> IF p = path THEN NULL ELSE hash[p]]
     /\ Goto(t, "unlock")
     /\ UNCHANGED <<prmutex, heap, arg, item, reg, rc, asked>>

\* A new item, and Hash_Add: an entry already under the key is overwritten.
Add(t) ==
  LET path == arg[t].path
      new == Len(heap) + 1
  IN /\ pc[t] = "add"
     /\ heap' = Append(heap, [path |-> path, count |-> 1, flags |-> {arg[t].flag}])
     /\ item' = [item EXCEPT ![t] = new]
     /\ hash' = [p \in DOMAIN hash \cup {path} |-> IF p = path THEN new ELSE hash[p]]
     /\ Goto(t, "unlock")
     /\ UNCHANGED <<prmutex, arg, reg, rc, asked>>

\* Variant of Bump: `item->flags = flag` for `item->flags = item->flags|flag`.
BumpSetsFlag(t) ==
  /\ pc[t] = "bump"
  /\ heap' = [heap EXCEPT ![item[t]] =
                [path |-> @.path, count |-> Inc(reg[t]), flags |-> {arg[t].flag}]]
  /\ Goto(t, "unlock")
  /\ UNCHANGED <<prmutex, hash, arg, item, reg, rc, asked>>

\* item->count++ and item->flags |= flag, a load and a store.
Load(t) ==
  /\ pc[t] = "load"
  /\ reg' = [reg EXCEPT ![t] = heap[item[t]].count]
  /\ Goto(t, "bump")
  /\ UNCHANGED <<prmutex, hash, heap, arg, item, rc, asked>>

Bump(t) ==
  /\ pc[t] = "bump"
  /\ heap' = [heap EXCEPT ![item[t]] =
                [path |-> @.path, count |-> Inc(reg[t]), flags |-> @.flags \cup {arg[t].flag}]]
  /\ Goto(t, "unlock")
  /\ UNCHANGED <<prmutex, hash, arg, item, reg, rc, asked>>

\* Variant of Unlock: the mutex stays locked when the call returns.
UnlockForgotten(t) ==
  /\ pc[t] = "unlock"
  /\ rc' = [rc EXCEPT ![t] = heap[item[t]].count]
  /\ Goto(t, "idle")
  /\ arg' = [arg EXCEPT ![t] = NoArg]
  /\ item' = [item EXCEPT ![t] = NULL]
  /\ reg' = [reg EXCEPT ![t] = 0]
  /\ UNCHANGED <<prmutex, hash, heap, asked>>

\* rc = item->count, pthread_mutex_unlock(&prmutex), return rc
Unlock(t) ==
  /\ pc[t] = "unlock"
  /\ rc' = [rc EXCEPT ![t] = heap[item[t]].count]
  /\ prmutex' = NULL
  /\ Goto(t, "idle")
  /\ arg' = [arg EXCEPT ![t] = NoArg]
  /\ item' = [item EXCEPT ![t] = NULL]
  /\ reg' = [reg EXCEPT ![t] = 0]
  /\ UNCHANGED <<hash, heap, asked>>

\* The steps of a call after the early returns.
Step(t) == Lock(t) \/ Find(t) \/ Add(t) \/ Load(t) \/ Bump(t) \/ Unlock(t)

Next ==
  \E t \in Threads :
    \/ \E path \in Paths \cup {NULL} : Reject(t, path)
    \/ \E path \in Paths, flag \in Flags : Enter(t, path, flag)
    \/ Step(t)

Spec == Init /\ [][Next]_vars

\* The system scheduler runs every worker thread that can run.  MaxCalls
\* bounds the competition for the mutex, so weak fairness of Lock is enough.
FairSpec == Spec /\ \A t \in Threads : WF_vars(Step(t))
-----------------------------------------------------------------------------
(***************************************************************************)
(* Properties.                                                             *)
(***************************************************************************)
Labels == {"idle", "lock", "find", "add", "load", "bump", "unlock"}

\* Between pthread_mutex_lock and pthread_mutex_unlock.
Critical == {"find", "add", "load", "bump", "unlock"}

\* Called, and not yet counted.
Uncounted == {"lock", "find", "add", "load", "bump"}

Item == [path : Stored, count : Int, flags : SUBSET Flags]

\* Each variable holds what its C declaration and the lists allow: the table
\* points to allocated items only.
TypeOK ==
  /\ prmutex \in Threads \cup {NULL}
  /\ heap \in Seq(Item)
  /\ \E keys \in SUBSET Stored : hash \in [keys -> 1..Len(heap)]
  /\ pc \in [Threads -> Labels]
  /\ arg \in [Threads -> [path : Stored \cup {NULL}, flag : Flags \cup {NULL}]]
  /\ item \in [Threads -> Nat \cup {NULL}]
  /\ reg \in [Threads -> Int]
  /\ rc \in [Threads -> Int]
  /\ asked \in [Stored -> 0..MaxCalls]

Counter(p) == IF p \in DOMAIN hash THEN heap[hash[p]].count ELSE 0

Pending(p) == {t \in Threads : arg[t].path = p /\ pc[t] \in Uncounted}

\* No call is lost and none is counted twice, whatever the interleaving: the
\* counter of a path and the calls that have not reached their increment yet
\* add up to the calls made (lock, find-or-add and increment, lines 224-239).
NoLostUpdate ==
  \A p \in Stored : asked[p] = Counter(p) + Cardinality(Pending(p))

\* One item per path, reached from its key only: a second item for the same
\* path would split its counter (Hash_Find and Hash_Add under one lock).
OneItemPerPath ==
  /\ \A p \in DOMAIN hash : heap[hash[p]].path = p
  /\ \A i \in 1..Len(heap) : heap[i].path \in DOMAIN hash /\ hash[heap[i].path] = i

\* prmutex is held by exactly the thread that is between lock and unlock.
HolderIsCritical ==
  \A t \in Threads : pc[t] \in Critical <=> prmutex = t

\* What the thread in the critical section knows of the table stays true until
\* it leaves: the key it did not find is still missing, the item it found is
\* still the item of its path, the count it loaded is still the count.
Fresh(t) ==
  /\ pc[t] # "idle" => arg[t].path \in Stored /\ arg[t].flag \in Flags
  /\ pc[t] = "add" => arg[t].path \notin DOMAIN hash
  /\ pc[t] \in {"load", "bump", "unlock"} =>
       arg[t].path \in DOMAIN hash /\ item[t] = hash[arg[t].path]
  /\ pc[t] = "bump" => reg[t] = heap[item[t]].count

LocalsAreFresh == \A t \in Threads : Fresh(t)

\* An item counts the call that made it at least.
CountsPositive == \A i \in 1..Len(heap) : heap[i].count >= 1

\* The invariant that is inductive: the parts above say why the lock is enough.
IInv ==
  /\ TypeOK
  /\ HolderIsCritical
  /\ LocalsAreFresh
  /\ OneItemPerPath
  /\ CountsPositive
  /\ NoLostUpdate

\* The log and the calls as module AccessLog sees them.
AbsLog == [p \in DOMAIN hash |->
             [count |-> heap[hash[p]].count, flags |-> heap[hash[p]].flags]]

AbsCall == [t \in Threads |->
              IF pc[t] = "idle" THEN NULL
              ELSE [path |-> arg[t].path, flag |-> arg[t].flag,
                    rc |-> IF pc[t] = "unlock" THEN heap[item[t]].count ELSE 0]]

AL == INSTANCE AccessLog
        WITH Paths <- Stored, Nil <- NULL, log <- AbsLog, call <- AbsCall, rc <- rc

\* Store_In_Hash is linearizable: with the lock, the lookup, the two-step
\* increment and the unlock, it does what one indivisible Record step does, and
\* it returns the count of that step.
ImplementsAccessLog == AL!Spec

\* Every call returns, also for a thread that waits for the mutex.
CallReturns == \A t \in Threads : pc[t] # "idle" ~> pc[t] = "idle"
=============================================================================
