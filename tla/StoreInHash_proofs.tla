------------------------- MODULE StoreInHash_proofs -------------------------
(***************************************************************************)
(* Proofs about StoreInHash: its invariant is inductive, and it implements *)
(* AccessLog, for every set of threads, paths and flags.                   *)
(***************************************************************************)
EXTENDS StoreInHash, FiniteSetTheorems, TLAPS

\* The counters stay below the point where an int wraps.
NoWrap == MaxCalls <= IntMax

\* Reading and overwriting one item of a sequence of items.
LEMMA SeqElement ==
  ASSUME NEW S, NEW s \in Seq(S), NEW i \in 1..Len(s)
  PROVE  s[i] \in S
OBVIOUS

LEMMA SeqExcept ==
  ASSUME NEW S, NEW s \in Seq(S), NEW i \in 1..Len(s), NEW e \in S
  PROVE  [s EXCEPT ![i] = e] \in Seq(S) /\ Len([s EXCEPT ![i] = e]) = Len(s)
OBVIOUS

\* The types hold at the start, when the table is empty.
LEMMA InitTypeOK == Init => TypeOK
<1> SUFFICES ASSUME Init PROVE TypeOK
  OBVIOUS
<1>1. \E keys \in SUBSET Stored : hash \in [keys -> 1..Len(heap)]
  <2>1. hash \in [{} -> 1..Len(heap)]
    BY DEF Init
  <2> QED
    BY <2>1
<1>2. heap \in Seq(Item)
  BY DEF Init
<1>3. asked \in [Stored -> 0..MaxCalls]
  BY BoundsAssumption DEF Init
<1>4. arg \in [Threads -> [path : Stored \cup {NULL}, flag : Flags \cup {NULL}]]
  BY DEF Init, NoArg
<1>5. pc \in [Threads -> Labels] /\ item \in [Threads -> Nat \cup {NULL}]
  BY DEF Init, Labels
<1>6. reg \in [Threads -> Int] /\ rc \in [Threads -> Int] /\ prmutex \in Threads \cup {NULL}
  BY DEF Init
<1> QED
  BY <1>1, <1>2, <1>3, <1>4, <1>5, <1>6 DEF TypeOK

\* Every step keeps the types, given that the thread that is past the lookup
\* holds an item of the table.
LEMMA StepTypeOK ==
  ASSUME TypeOK, LocalsAreFresh, [Next]_vars
  PROVE  TypeOK'
<1>0. PICK keys \in SUBSET Stored : hash \in [keys -> 1..Len(heap)]
  BY DEF TypeOK
<1> USE DEF TypeOK, Labels, Goto
<1>1. CASE UNCHANGED vars
  BY <1>1 DEF vars
<1>2. ASSUME NEW t \in Threads, NEW path \in Paths \cup {NULL}, Reject(t, path)
      PROVE  TypeOK'
  BY <1>2 DEF Reject
<1>3. ASSUME NEW t \in Threads, NEW path \in Paths, NEW flag \in Flags, Enter(t, path, flag)
      PROVE  TypeOK'
  <2>1. path \in Stored
    BY <1>3 DEF Enter, Stored
  <2>2. asked' \in [Stored -> 0..MaxCalls]
    BY <1>3, <2>1, BoundsAssumption DEF Enter
  <2>3. arg' \in [Threads -> [path : Stored \cup {NULL}, flag : Flags \cup {NULL}]]
    BY <1>3, <2>1 DEF Enter
  <2> QED
    BY <1>3, <2>2, <2>3 DEF Enter
<1>4. ASSUME NEW t \in Threads, Lock(t)
      PROVE  TypeOK'
  BY <1>4 DEF Lock
<1>5. ASSUME NEW t \in Threads, Find(t)
      PROVE  TypeOK'
  <2>1. item' \in [Threads -> Nat \cup {NULL}]
    BY <1>5, <1>0 DEF Find
  <2>2. pc' \in [Threads -> Labels]
    BY <1>5 DEF Find
  <2> QED
    BY <1>5, <2>1, <2>2 DEF Find
<1>6. ASSUME NEW t \in Threads, Add(t)
      PROVE  TypeOK'
  <2> DEFINE new == [path |-> arg[t].path, count |-> 1, flags |-> {arg[t].flag}]
  <2>1. arg[t].path \in Stored /\ arg[t].flag \in Flags
    BY <1>6 DEF Add, LocalsAreFresh, Fresh
  <2>2. new \in Item
    BY <2>1 DEF Item
  <2>3. heap' = Append(heap, new) /\ heap' \in Seq(Item) /\ Len(heap') = Len(heap) + 1
    BY <1>6, <2>2 DEF Add
  <2>4. hash' \in [keys \cup {arg[t].path} -> 1..Len(heap')]
    BY <1>6, <1>0, <2>3 DEF Add
  <2>5. item' \in [Threads -> Nat \cup {NULL}]
    BY <1>6 DEF Add
  <2>6. \E k \in SUBSET Stored : hash' \in [k -> 1..Len(heap')]
    BY <2>1, <2>4
  <2> QED
    BY <1>6, <2>3, <2>5, <2>6 DEF Add
<1>7. ASSUME NEW t \in Threads, Load(t)
      PROVE  TypeOK'
  <2>1. item[t] \in 1..Len(heap)
    BY <1>7, <1>0 DEF Load, LocalsAreFresh, Fresh
  <2>0. heap[item[t]] \in Item
    BY <2>1, SeqElement
  <2>2. heap[item[t]].count \in Int
    BY <2>0 DEF Item
  <2>3. reg' \in [Threads -> Int] /\ pc' \in [Threads -> Labels]
    BY <1>7, <2>2 DEF Load
  <2>4. UNCHANGED <<prmutex, hash, heap, arg, item, rc, asked>>
    BY <1>7 DEF Load
  <2> QED
    BY <2>3, <2>4
<1>8. ASSUME NEW t \in Threads, Bump(t)
      PROVE  TypeOK'
  <2>1. item[t] \in 1..Len(heap) /\ arg[t].flag \in Flags
    BY <1>8, <1>0 DEF Bump, LocalsAreFresh, Fresh
  <2>0. heap[item[t]] \in Item
    BY <2>1, SeqElement
  <2>2. Inc(reg[t]) \in Int
    BY BoundsAssumption DEF Inc
  <2> DEFINE new == [path |-> heap[item[t]].path, count |-> Inc(reg[t]),
                     flags |-> heap[item[t]].flags \cup {arg[t].flag}]
  <2>3. new \in Item
    BY <2>0, <2>1, <2>2 DEF Item
  <2>4. heap' = [heap EXCEPT ![item[t]] = new]
    BY <1>8 DEF Bump
  <2>5. heap' \in Seq(Item) /\ Len(heap') = Len(heap)
    <3> HIDE DEF new
    <3>1. heap \in Seq(Item)
      OBVIOUS
    <3> QED
      BY <3>1, <2>1, <2>3, <2>4, SeqExcept
  <2>6. pc' \in [Threads -> Labels] /\ UNCHANGED <<prmutex, hash, arg, item, reg, rc, asked>>
    BY <1>8 DEF Bump
  <2> QED
    BY <1>0, <2>5, <2>6
<1>9. ASSUME NEW t \in Threads, Unlock(t)
      PROVE  TypeOK'
  <2>1. item[t] \in 1..Len(heap)
    BY <1>9, <1>0 DEF Unlock, LocalsAreFresh, Fresh
  <2>0. heap[item[t]] \in Item
    BY <2>1, SeqElement
  <2>2. heap[item[t]].count \in Int
    BY <2>0 DEF Item
  <2>3. rc' \in [Threads -> Int]
    BY <1>9, <2>2 DEF Unlock
  <2>4. /\ pc' \in [Threads -> Labels] /\ prmutex' \in Threads \cup {NULL}
        /\ item' \in [Threads -> Nat \cup {NULL}] /\ reg' \in [Threads -> Int]
    BY <1>9 DEF Unlock
  <2>5. arg' \in [Threads -> [path : Stored \cup {NULL}, flag : Flags \cup {NULL}]]
    BY <1>9 DEF Unlock, NoArg
  <2>6. UNCHANGED <<hash, heap, asked>>
    BY <1>9 DEF Unlock
  <2> QED
    BY <2>3, <2>4, <2>5, <2>6
<1> QED
  BY <1>1, <1>2, <1>3, <1>4, <1>5, <1>6, <1>7, <1>8, <1>9 DEF Next, Step

-----------------------------------------------------------------------------
\* The mutex is taken on entry to the critical section and given back on exit.
LEMMA StepHolder ==
  ASSUME TypeOK, HolderIsCritical, [Next]_vars
  PROVE  HolderIsCritical'
<1>0. pc \in [Threads -> Labels] /\ prmutex \in Threads \cup {NULL} /\ NULL \notin Threads
  BY NullAssumption DEF TypeOK
<1> USE <1>0 DEF HolderIsCritical, Critical, Labels, Goto
<1>1. CASE UNCHANGED vars
  BY <1>1 DEF vars
<1>2. ASSUME NEW t \in Threads, NEW path \in Paths \cup {NULL}, Reject(t, path)
      PROVE  HolderIsCritical'
  BY <1>2 DEF Reject
<1>3. ASSUME NEW t \in Threads, NEW path \in Paths, NEW flag \in Flags, Enter(t, path, flag)
      PROVE  HolderIsCritical'
  BY <1>3 DEF Enter
<1>4. ASSUME NEW t \in Threads, Lock(t)
      PROVE  HolderIsCritical'
  BY <1>4 DEF Lock
<1>5. ASSUME NEW t \in Threads, Find(t)
      PROVE  HolderIsCritical'
  BY <1>5 DEF Find
<1>6. ASSUME NEW t \in Threads, Add(t) \/ Load(t) \/ Bump(t)
      PROVE  HolderIsCritical'
  BY <1>6 DEF Add, Load, Bump
<1>7. ASSUME NEW t \in Threads, Unlock(t)
      PROVE  HolderIsCritical'
  BY <1>7 DEF Unlock
<1> QED
  BY <1>1, <1>2, <1>3, <1>4, <1>5, <1>6, <1>7 DEF Next, Step

\* Only the thread in the critical section is there.
LEMMA Alone ==
  ASSUME TypeOK, HolderIsCritical, NEW t \in Threads, pc[t] \in Critical
  PROVE  \A s \in Threads \ {t} : pc[s] \in {"idle", "lock"}
<1>1. pc \in [Threads -> Labels]
  BY DEF TypeOK
<1>2. \A s \in Threads \ {t} : pc[s] \notin Critical
  BY DEF HolderIsCritical
<1> QED
  BY <1>1, <1>2 DEF Labels, Critical

\* An item is added only for a path that has none, and items keep their path.
LEMMA StepOneItem ==
  ASSUME TypeOK, LocalsAreFresh, OneItemPerPath, [Next]_vars
  PROVE  OneItemPerPath'
<1>0. PICK keys \in SUBSET Stored : hash \in [keys -> 1..Len(heap)]
  BY DEF TypeOK
<1>a. heap \in Seq(Item)
  BY DEF TypeOK
<1>1. CASE UNCHANGED <<hash, heap>>
  BY <1>1 DEF OneItemPerPath
<1>2. ASSUME NEW t \in Threads, Add(t)
      PROVE  OneItemPerPath'
  <2> DEFINE path == arg[t].path
             new == [path |-> path, count |-> 1, flags |-> {arg[t].flag}]
  <2>1. path \notin DOMAIN hash /\ path \in Stored /\ arg[t].flag \in Flags
    BY <1>2 DEF Add, LocalsAreFresh, Fresh
  <2>2. new \in Item
    BY <2>1 DEF Item
  <2>3. new.path = path
    OBVIOUS
  <2>4. heap' = Append(heap, new)
    BY <1>2 DEF Add
  <2>5. hash' = [p \in DOMAIN hash \cup {path} |->
                   IF p = path THEN Len(heap) + 1 ELSE hash[p]]
    BY <1>2 DEF Add
  <2> HIDE DEF new
  <2>6. /\ Len(heap') = Len(heap) + 1
        /\ heap'[Len(heap) + 1] = new
        /\ \A i \in 1..Len(heap) : heap'[i] = heap[i]
    BY <1>a, <2>2, <2>4
  <2>7. \A p \in DOMAIN hash' : heap'[hash'[p]].path = p
    BY <1>0, <2>1, <2>3, <2>5, <2>6 DEF OneItemPerPath
  <2>8. \A i \in 1..Len(heap') :
          heap'[i].path \in DOMAIN hash' /\ hash'[heap'[i].path] = i
    <3> TAKE i \in 1..Len(heap')
    <3>1. CASE i \in 1..Len(heap)
      BY <3>1, <2>1, <2>5, <2>6 DEF OneItemPerPath
    <3>2. CASE i = Len(heap) + 1
      BY <3>2, <2>3, <2>5, <2>6
    <3> QED
      BY <3>1, <3>2, <2>6, <1>a
  <2> QED
    BY <2>7, <2>8 DEF OneItemPerPath
<1>3. ASSUME NEW t \in Threads, Bump(t)
      PROVE  OneItemPerPath'
  <2> DEFINE new == [path |-> heap[item[t]].path, count |-> Inc(reg[t]),
                     flags |-> heap[item[t]].flags \cup {arg[t].flag}]
  <2>1. item[t] \in 1..Len(heap)
    BY <1>3, <1>0 DEF Bump, LocalsAreFresh, Fresh
  <2>2. new.path = heap[item[t]].path
    OBVIOUS
  <2>3. heap' = [heap EXCEPT ![item[t]] = new] /\ hash' = hash
    BY <1>3 DEF Bump
  <2> HIDE DEF new
  <2>4. Len(heap') = Len(heap) /\ \A i \in 1..Len(heap) : heap'[i].path = heap[i].path
    BY <1>a, <2>1, <2>2, <2>3
  <2> QED
    BY <1>0, <2>3, <2>4 DEF OneItemPerPath
<1> QED
  BY <1>1, <1>2, <1>3 DEF Next, Step, vars, Reject, Enter, Lock, Find, Load, Unlock

-----------------------------------------------------------------------------
\* A step that leaves the table alone and only moves thread t keeps what the
\* other threads know.
LEMMA OthersFresh ==
  ASSUME LocalsAreFresh, NEW t \in Threads, NEW s \in Threads \ {t},
         pc'[s] = pc[s], arg'[s] = arg[s], item'[s] = item[s], reg'[s] = reg[s],
         (hash' = hash /\ heap' = heap) \/ pc[s] \in {"idle", "lock"}
  PROVE  Fresh(s)'
BY DEF LocalsAreFresh, Fresh

\* What a thread knows of the table stays true: only the thread in the critical
\* section changes the table.
LEMMA StepFresh ==
  ASSUME TypeOK, HolderIsCritical, LocalsAreFresh, [Next]_vars
  PROVE  LocalsAreFresh'
<1>0. /\ pc \in [Threads -> Labels]
      /\ arg \in [Threads -> [path : Stored \cup {NULL}, flag : Flags \cup {NULL}]]
      /\ item \in [Threads -> Nat \cup {NULL}]
      /\ reg \in [Threads -> Int]
  BY DEF TypeOK
<1>a. PICK keys \in SUBSET Stored : hash \in [keys -> 1..Len(heap)]
  BY DEF TypeOK
<1>b. heap \in Seq(Item)
  BY DEF TypeOK
<1>1. CASE UNCHANGED vars
  BY <1>1 DEF vars, LocalsAreFresh, Fresh
<1>2. ASSUME NEW t \in Threads, NEW path \in Paths \cup {NULL}, Reject(t, path)
      PROVE  LocalsAreFresh'
  BY <1>2 DEF Reject, LocalsAreFresh, Fresh
<1>3. ASSUME NEW t \in Threads, NEW path \in Paths, NEW flag \in Flags, Enter(t, path, flag)
      PROVE  LocalsAreFresh'
  <2>1. path \in Stored
    BY <1>3 DEF Enter, Stored
  <2>2. pc'[t] = "lock" /\ arg'[t].path = path /\ arg'[t].flag = flag
    BY <1>0, <1>3 DEF Enter, Goto
  <2>3. Fresh(t)'
    BY <2>1, <2>2 DEF Fresh
  <2>4. \A s \in Threads \ {t} : Fresh(s)'
    BY <1>0, <1>3, OthersFresh DEF Enter, Goto
  <2> QED
    BY <2>3, <2>4 DEF LocalsAreFresh
<1>4. ASSUME NEW t \in Threads, Lock(t)
      PROVE  LocalsAreFresh'
  <2>1. pc'[t] = "find" /\ arg' = arg /\ pc[t] = "lock"
    BY <1>0, <1>4 DEF Lock, Goto
  <2>2. Fresh(t)'
    BY <2>1 DEF LocalsAreFresh, Fresh
  <2>3. \A s \in Threads \ {t} : Fresh(s)'
    BY <1>0, <1>4, OthersFresh DEF Lock, Goto
  <2> QED
    BY <2>2, <2>3 DEF LocalsAreFresh
<1>5. ASSUME NEW t \in Threads, Find(t)
      PROVE  LocalsAreFresh'
  <2>1. /\ pc[t] = "find" /\ arg' = arg /\ hash' = hash
        /\ arg[t].path \in DOMAIN hash => pc'[t] = "load" /\ item'[t] = hash[arg[t].path]
        /\ arg[t].path \notin DOMAIN hash => pc'[t] = "add"
    BY <1>0, <1>5 DEF Find, Goto
  <2>2. Fresh(t)'
    BY <2>1 DEF LocalsAreFresh, Fresh
  <2>3. \A s \in Threads \ {t} : Fresh(s)'
    BY <1>0, <1>5, OthersFresh DEF Find, Goto
  <2> QED
    BY <2>2, <2>3 DEF LocalsAreFresh
<1>6. ASSUME NEW t \in Threads, Add(t)
      PROVE  LocalsAreFresh'
  <2>1. /\ pc[t] = "add" /\ pc'[t] = "unlock" /\ arg' = arg
        /\ item'[t] = Len(heap) + 1
        /\ hash' = [p \in DOMAIN hash \cup {arg[t].path} |->
                      IF p = arg[t].path THEN Len(heap) + 1 ELSE hash[p]]
    BY <1>0, <1>6 DEF Add, Goto
  <2>2. Fresh(t)'
    BY <2>1 DEF LocalsAreFresh, Fresh
  <2>3. \A s \in Threads \ {t} : pc[s] \in {"idle", "lock"}
    BY <2>1, Alone DEF Critical
  <2>4. \A s \in Threads \ {t} : Fresh(s)'
    BY <1>0, <1>6, <2>3, OthersFresh DEF Add, Goto
  <2> QED
    BY <2>2, <2>4 DEF LocalsAreFresh
<1>7. ASSUME NEW t \in Threads, Load(t)
      PROVE  LocalsAreFresh'
  <2>1. /\ pc[t] = "load" /\ pc'[t] = "bump" /\ UNCHANGED <<arg, item, hash, heap>>
        /\ reg'[t] = heap[item[t]].count
    BY <1>0, <1>7 DEF Load, Goto
  <2>2. Fresh(t)'
    BY <2>1 DEF LocalsAreFresh, Fresh
  <2>3. \A s \in Threads \ {t} : Fresh(s)'
    BY <1>0, <1>7, OthersFresh DEF Load, Goto
  <2> QED
    BY <2>2, <2>3 DEF LocalsAreFresh
<1>8. ASSUME NEW t \in Threads, Bump(t)
      PROVE  LocalsAreFresh'
  <2>1. pc[t] = "bump" /\ pc'[t] = "unlock" /\ UNCHANGED <<arg, item, hash>>
    BY <1>0, <1>8 DEF Bump, Goto
  <2>2. Fresh(t)'
    BY <2>1 DEF LocalsAreFresh, Fresh
  <2>3. \A s \in Threads \ {t} : pc[s] \in {"idle", "lock"}
    BY <2>1, Alone DEF Critical
  <2>4. \A s \in Threads \ {t} : Fresh(s)'
    BY <1>0, <1>8, <2>3, OthersFresh DEF Bump, Goto
  <2> QED
    BY <2>2, <2>4 DEF LocalsAreFresh
<1>9. ASSUME NEW t \in Threads, Unlock(t)
      PROVE  LocalsAreFresh'
  <2>1. pc'[t] = "idle"
    BY <1>0, <1>9 DEF Unlock, Goto
  <2>2. Fresh(t)'
    BY <2>1 DEF Fresh
  <2>3. \A s \in Threads \ {t} : Fresh(s)'
    BY <1>0, <1>9, OthersFresh DEF Unlock, Goto
  <2> QED
    BY <2>2, <2>3 DEF LocalsAreFresh
<1> QED
  BY <1>1, <1>2, <1>3, <1>4, <1>5, <1>6, <1>7, <1>8, <1>9 DEF Next, Step

-----------------------------------------------------------------------------
\* The calls pending on a path are finitely many, since the threads are.
LEMMA PendingFinite ==
  ASSUME NEW p
  PROVE  /\ IsFiniteSet(Pending(p)) /\ Cardinality(Pending(p)) \in Nat
         /\ IsFiniteSet(Pending(p)') /\ Cardinality(Pending(p)') \in Nat
<1>1. Pending(p) \subseteq Threads /\ Pending(p)' \subseteq Threads
  BY DEF Pending
<1> QED
  BY <1>1, ThreadsAssumption, FS_Subset, FS_CardinalityType

\* Counters are integers.
LEMMA CounterInt ==
  ASSUME TypeOK, NEW p \in Stored
  PROVE  Counter(p) \in Int
<1>1. CASE p \in DOMAIN hash
  <2>1. hash[p] \in 1..Len(heap) /\ heap \in Seq(Item)
    BY <1>1 DEF TypeOK
  <2>2. heap[hash[p]] \in Item
    BY <2>1, SeqElement
  <2> QED
    BY <1>1, <2>2 DEF Counter, Item
<1> QED
  BY <1>1 DEF Counter

\* A thread that is past its increment, or has not called, is not pending; the
\* sets of pending calls change only where the thread that moves is concerned.
LEMMA PendingSame ==
  ASSUME NEW p \in Stored, NEW t \in Threads,
         \A s \in Threads \ {t} : pc'[s] = pc[s] /\ arg'[s].path = arg[s].path,
         (arg'[t].path = p /\ pc'[t] \in Uncounted) <=> (arg[t].path = p /\ pc[t] \in Uncounted)
  PROVE  Pending(p)' = Pending(p)
BY DEF Pending

\* The count that is in the table and the calls pending on a path keep adding
\* up: a call adds itself to both sides, an increment moves it from the pending
\* calls to the counter.
LEMMA StepNoLostUpdate ==
  ASSUME NoWrap, TypeOK, HolderIsCritical, LocalsAreFresh, OneItemPerPath,
         NoLostUpdate, [Next]_vars
  PROVE  NoLostUpdate'
<1>0. /\ pc \in [Threads -> Labels]
      /\ arg \in [Threads -> [path : Stored \cup {NULL}, flag : Flags \cup {NULL}]]
      /\ item \in [Threads -> Nat \cup {NULL}]
      /\ reg \in [Threads -> Int]
      /\ asked \in [Stored -> 0..MaxCalls]
  BY DEF TypeOK
<1>a. PICK keys \in SUBSET Stored : hash \in [keys -> 1..Len(heap)]
  BY DEF TypeOK
<1>b. heap \in Seq(Item)
  BY DEF TypeOK
<1>c. NULL \notin Stored
  BY NullAssumption DEF Stored
<1>1. CASE UNCHANGED <<hash, heap, asked, pc, arg>>
  BY <1>1 DEF NoLostUpdate, Counter, Pending
<1>2. ASSUME NEW t \in Threads, NEW path \in Paths, NEW flag \in Flags, Enter(t, path, flag)
      PROVE  NoLostUpdate'
  <2>1. /\ path \in Stored /\ pc[t] = "idle" /\ pc'[t] = "lock" /\ arg'[t].path = path
        /\ \A s \in Threads \ {t} : pc'[s] = pc[s] /\ arg'[s].path = arg[s].path
        /\ UNCHANGED <<hash, heap>>
        /\ asked' = [asked EXCEPT ![path] = @ + 1]
    BY <1>0, <1>2 DEF Enter, Goto, Stored
  <2>2. \A p \in Stored : Counter(p)' = Counter(p)
    BY <2>1 DEF Counter
  <2>3. ASSUME NEW p \in Stored \ {path}
        PROVE  asked'[p] = Counter(p)' + Cardinality(Pending(p)')
    <3>1. Pending(p)' = Pending(p)
      BY <2>1, <2>3, PendingSame DEF Uncounted
    <3> QED
      BY <3>1, <2>1, <2>2, <1>0 DEF NoLostUpdate
  <2>4. asked'[path] = Counter(path)' + Cardinality(Pending(path)')
    <3>1. t \notin Pending(path) /\ Pending(path)' = Pending(path) \cup {t}
      BY <2>1 DEF Pending, Uncounted
    <3>2. Cardinality(Pending(path)') = Cardinality(Pending(path)) + 1
      BY <3>1, PendingFinite, FS_AddElement
    <3>3. asked[path] = Counter(path) + Cardinality(Pending(path))
      BY <2>1 DEF NoLostUpdate
    <3>4. asked'[path] = asked[path] + 1 /\ asked[path] \in Int
      BY <2>1, <1>0
    <3>5. Counter(path) \in Int
      BY <2>1, CounterInt
    <3> QED
      BY <3>2, <3>3, <3>4, <3>5, <2>1, <2>2, PendingFinite
  <2> QED
    BY <2>3, <2>4 DEF NoLostUpdate
<1>3. ASSUME NEW t \in Threads, Lock(t) \/ Find(t) \/ Load(t) \/ Unlock(t)
      PROVE  NoLostUpdate'
  <2>1. UNCHANGED <<hash, heap, asked>>
    BY <1>3 DEF Lock, Find, Load, Unlock
  <2>2. /\ \A s \in Threads \ {t} : pc'[s] = pc[s] /\ arg'[s].path = arg[s].path
        /\ \/ pc[t] \in Uncounted /\ pc'[t] \in Uncounted /\ arg'[t].path = arg[t].path
           \/ pc[t] \notin Uncounted /\ pc'[t] \notin Uncounted
    BY <1>0, <1>3 DEF Lock, Find, Load, Unlock, Goto, Uncounted
  <2>3. \A p \in Stored : Pending(p)' = Pending(p)
    BY <2>2, PendingSame
  <2> QED
    BY <2>1, <2>3 DEF NoLostUpdate, Counter
<1>4. ASSUME NEW t \in Threads, Add(t) \/ Bump(t)
      PROVE  NoLostUpdate'
  <2>0. PICK path \in Stored : path = arg[t].path
    BY <1>0, <1>4 DEF Add, Bump, LocalsAreFresh, Fresh
  <2>1. /\ pc[t] \in Uncounted /\ pc'[t] = "unlock"
        /\ arg' = arg /\ asked' = asked
        /\ \A s \in Threads \ {t} : pc'[s] = pc[s]
    BY <1>0, <1>4 DEF Add, Bump, Goto, Uncounted
  <2>2. Counter(path) \in Int
    BY CounterInt
  <2>3. /\ Counter(path)' = Counter(path) + 1
        /\ \A p \in Stored \ {path} : Counter(p)' = Counter(p)
    <3>1. CASE Add(t)
      <4> DEFINE new == [path |-> path, count |-> 1, flags |-> {arg[t].flag}]
      <4>1. path \notin DOMAIN hash /\ arg[t].flag \in Flags
        BY <2>0, <3>1 DEF Add, LocalsAreFresh, Fresh
      <4>2. new \in Item /\ new.count = 1
        BY <4>1 DEF Item
      <4>3. heap' = Append(heap, new)
        BY <2>0, <3>1 DEF Add
      <4>4. hash' = [p \in DOMAIN hash \cup {path} |->
                       IF p = path THEN Len(heap) + 1 ELSE hash[p]]
        BY <2>0, <3>1 DEF Add
      <4> HIDE DEF new
      <4>5. heap'[Len(heap) + 1] = new /\ \A i \in 1..Len(heap) : heap'[i] = heap[i]
        BY <1>b, <4>2, <4>3
      <4>6. Counter(path) = 0 /\ Counter(path)' = 1
        BY <4>1, <4>2, <4>4, <4>5 DEF Counter
      <4>7. ASSUME NEW p \in Stored \ {path}
            PROVE  Counter(p)' = Counter(p)
        BY <1>a, <4>4, <4>5 DEF Counter
      <4> QED
        BY <4>6, <4>7
    <3>2. CASE Bump(t)
      <4> DEFINE new == [path |-> heap[item[t]].path, count |-> Inc(reg[t]),
                         flags |-> heap[item[t]].flags \cup {arg[t].flag}]
      <4>1. /\ path \in DOMAIN hash /\ item[t] = hash[path]
            /\ reg[t] = heap[item[t]].count /\ item[t] \in 1..Len(heap)
        BY <2>0, <3>2, <1>a DEF Bump, LocalsAreFresh, Fresh
      <4>2. reg[t] = Counter(path)
        BY <4>1 DEF Counter
      <4>3. reg[t] < IntMax
        <5>1. t \in Pending(path)
          BY <2>0, <2>1 DEF Pending
        <5>2. Cardinality(Pending(path)) # 0
          BY <5>1, PendingFinite, FS_EmptySet
        <5>3. asked[path] = Counter(path) + Cardinality(Pending(path)) /\ asked[path] \in 0..MaxCalls
          BY <1>0 DEF NoLostUpdate
        <5> QED
          BY <4>2, <5>2, <5>3, <2>2, PendingFinite, BoundsAssumption DEF NoWrap
      <4>4. Inc(reg[t]) = Counter(path) + 1
        <5>1. reg[t] # IntMax
          BY <4>2, <4>3, <2>2, BoundsAssumption
        <5> QED
          BY <4>2, <5>1 DEF Inc
      <4>5. heap' = [heap EXCEPT ![item[t]] = new] /\ hash' = hash
        BY <3>2 DEF Bump
      <4>6. new.count = Counter(path) + 1
        BY <4>4
      <4> HIDE DEF new
      <4>7. heap'[item[t]] = new /\ \A i \in 1..Len(heap) : i # item[t] => heap'[i] = heap[i]
        BY <4>1, <4>5, <1>b
      <4>8. \A p \in DOMAIN hash : p # path => hash[p] # item[t] /\ hash[p] \in 1..Len(heap)
        BY <4>1, <1>a DEF OneItemPerPath
      <4>9. Counter(path)' = Counter(path) + 1
        <5>1. Counter(path)' = heap'[item[t]].count
          BY <4>1, <4>5 DEF Counter
        <5> QED
          BY <5>1, <4>6, <4>7
      <4>10. ASSUME NEW p \in Stored \ {path}
             PROVE  Counter(p)' = Counter(p)
        BY <4>5, <4>7, <4>8 DEF Counter
      <4> QED
        BY <4>9, <4>10
    <3> QED
      BY <1>4, <3>1, <3>2
  <2>4. Cardinality(Pending(path)') = Cardinality(Pending(path)) - 1
    <3>1. t \in Pending(path) /\ Pending(path)' = Pending(path) \ {t}
      BY <2>0, <2>1 DEF Pending, Uncounted
    <3>2. Cardinality(Pending(path) \ {t}) = Cardinality(Pending(path)) - 1
      BY <3>1, PendingFinite, FS_RemoveElement
    <3> QED
      BY <3>1, <3>2
  <2>5. asked'[path] = Counter(path)' + Cardinality(Pending(path)')
    <3>1. asked[path] = Counter(path) + Cardinality(Pending(path))
      BY DEF NoLostUpdate
    <3> QED
      BY <3>1, <2>1, <2>2, <2>3, <2>4, PendingFinite
  <2>6. ASSUME NEW p \in Stored \ {path}
        PROVE  asked'[p] = Counter(p)' + Cardinality(Pending(p)')
    <3>1. Pending(p)' = Pending(p)
      BY <2>0, <2>1, PendingSame
    <3> QED
      BY <3>1, <2>1, <2>3 DEF NoLostUpdate
  <2> QED
    BY <2>5, <2>6 DEF NoLostUpdate
<1> QED
  BY <1>1, <1>2, <1>3, <1>4 DEF Next, Step, vars, Reject

-----------------------------------------------------------------------------
\* The count a thread is about to increment is below IntMax: the thread itself
\* is one of the calls that are asked for and not counted yet.
LEMMA BumpBelowMax ==
  ASSUME NoWrap, TypeOK, LocalsAreFresh, NoLostUpdate, NEW t \in Threads, pc[t] = "bump"
  PROVE  /\ item[t] \in 1..Len(heap) /\ reg[t] = heap[item[t]].count
         /\ Inc(reg[t]) = reg[t] + 1
<1>0. PICK path \in Stored : path = arg[t].path
  BY DEF LocalsAreFresh, Fresh
<1>1. path \in DOMAIN hash /\ item[t] = hash[path] /\ reg[t] = heap[item[t]].count
  BY <1>0 DEF LocalsAreFresh, Fresh
<1>2. item[t] \in 1..Len(heap)
  BY <1>1 DEF TypeOK
<1>3. reg[t] = Counter(path) /\ reg[t] \in Int
  BY <1>1, CounterInt DEF Counter
<1>4. Cardinality(Pending(path)) # 0
  <2>1. t \in Pending(path)
    BY <1>0 DEF Pending, Uncounted
  <2> QED
    BY <2>1, PendingFinite, FS_EmptySet
<1>5. asked[path] = Counter(path) + Cardinality(Pending(path)) /\ asked[path] \in 0..MaxCalls
  BY DEF NoLostUpdate, TypeOK
<1>6. reg[t] < IntMax
  BY <1>3, <1>4, <1>5, PendingFinite, BoundsAssumption DEF NoWrap
<1>7. reg[t] # IntMax
  BY <1>3, <1>6, BoundsAssumption
<1> QED
  BY <1>1, <1>2, <1>7 DEF Inc

\* New items count 1, and an increment that does not wrap keeps counts positive.
LEMMA StepCountsPositive ==
  ASSUME NoWrap, TypeOK, LocalsAreFresh, NoLostUpdate, CountsPositive, [Next]_vars
  PROVE  CountsPositive'
<1>a. heap \in Seq(Item)
  BY DEF TypeOK
<1>1. CASE UNCHANGED heap
  BY <1>1 DEF CountsPositive
<1>2. ASSUME NEW t \in Threads, Add(t)
      PROVE  CountsPositive'
  <2> DEFINE new == [path |-> arg[t].path, count |-> 1, flags |-> {arg[t].flag}]
  <2>1. heap' = Append(heap, new) /\ new.count = 1
    BY <1>2 DEF Add
  <2> HIDE DEF new
  <2>2. /\ Len(heap') = Len(heap) + 1 /\ heap'[Len(heap) + 1] = new
        /\ \A i \in 1..Len(heap) : heap'[i] = heap[i]
    BY <1>a, <2>1
  <2>3. ASSUME NEW i \in 1..Len(heap')
        PROVE  heap'[i].count >= 1
    BY <1>a, <2>1, <2>2 DEF CountsPositive
  <2> QED
    BY <2>3 DEF CountsPositive
<1>3. ASSUME NEW t \in Threads, Bump(t)
      PROVE  CountsPositive'
  <2> DEFINE new == [path |-> heap[item[t]].path, count |-> Inc(reg[t]),
                     flags |-> heap[item[t]].flags \cup {arg[t].flag}]
  <2>1. /\ item[t] \in 1..Len(heap) /\ reg[t] = heap[item[t]].count
        /\ Inc(reg[t]) = reg[t] + 1
    BY <1>3, BumpBelowMax DEF Bump
  <2>2. reg[t] >= 1 /\ reg[t] \in Int
    BY <2>1 DEF CountsPositive, TypeOK
  <2>3. new.count >= 1
    BY <2>1, <2>2
  <2>4. heap' = [heap EXCEPT ![item[t]] = new]
    BY <1>3 DEF Bump
  <2> HIDE DEF new
  <2>5. /\ Len(heap') = Len(heap) /\ heap'[item[t]] = new
        /\ \A i \in 1..Len(heap) : i # item[t] => heap'[i] = heap[i]
    BY <1>a, <2>1, <2>4
  <2>6. ASSUME NEW i \in 1..Len(heap')
        PROVE  heap'[i].count >= 1
    BY <2>3, <2>5 DEF CountsPositive
  <2> QED
    BY <2>6 DEF CountsPositive
<1> QED
  BY <1>1, <1>2, <1>3 DEF Next, Step, vars, Reject, Enter, Lock, Find, Load, Unlock

-----------------------------------------------------------------------------
\* What holds of the table and the mutex whatever the counters do.
Structure == TypeOK /\ HolderIsCritical /\ LocalsAreFresh /\ OneItemPerPath

LEMMA InitIInv == Init => IInv
<1> SUFFICES ASSUME Init PROVE IInv
  OBVIOUS
<1>1. HolderIsCritical
  BY NullAssumption DEF Init, HolderIsCritical, Critical
<1>2. LocalsAreFresh
  BY DEF Init, LocalsAreFresh, Fresh
<1>3. OneItemPerPath /\ CountsPositive
  BY DEF Init, OneItemPerPath, CountsPositive
<1>4. NoLostUpdate
  <2> SUFFICES ASSUME NEW p \in Stored
               PROVE  asked[p] = Counter(p) + Cardinality(Pending(p))
    BY DEF NoLostUpdate
  <2>1. Pending(p) = {}
    BY DEF Init, Pending, Uncounted
  <2>2. Counter(p) = 0 /\ asked[p] = 0
    BY DEF Init, Counter
  <2> QED
    BY <2>1, <2>2, FS_EmptySet
<1> QED
  BY <1>1, <1>2, <1>3, <1>4, InitTypeOK DEF IInv

\* The table stays well formed and the mutex does its work in every execution:
\* each variable keeps its type, one thread at most is between lock and unlock,
\* what it knows of the table is true, and no path has two items
\* (Store_In_Hash, lines 224-239).
THEOREM TableStructure == Spec => [](TypeOK /\ OneItemPerPath)
<1>1. Init => Structure
  BY InitIInv DEF IInv, Structure
<1>2. Structure /\ [Next]_vars => Structure'
  BY StepTypeOK, StepHolder, StepFresh, StepOneItem DEF Structure
<1>3. Structure => TypeOK /\ OneItemPerPath
  BY DEF Structure
<1> QED
  BY <1>1, <1>2, <1>3, PTL DEF Spec

LEMMA StepIInv == ASSUME NoWrap, IInv, [Next]_vars PROVE IInv'
BY StepTypeOK, StepHolder, StepFresh, StepOneItem, StepCountsPositive, StepNoLostUpdate
   DEF IInv

\* The invariant holds in every execution, as long as no counter reaches the
\* largest int.
THEOREM Invariance == ASSUME NoWrap PROVE Spec => []IInv
<1>1. Init => IInv
  BY InitIInv
<1>2. IInv /\ [Next]_vars => IInv'
  BY StepIInv
<1> QED
  BY <1>1, <1>2, PTL DEF Spec

\* No call is lost and none is counted twice, for any number of threads and of
\* paths: counter and pending calls always add up to the calls made.
THEOREM CallsAreCounted == ASSUME NoWrap PROVE Spec => []NoLostUpdate
<1>1. IInv => NoLostUpdate
  BY DEF IInv
<1> QED
  BY <1>1, Invariance, PTL

-----------------------------------------------------------------------------
(***************************************************************************)
(* Refinement.                                                             *)
(***************************************************************************)
\* The call of a thread, as AccessLog sees it, depends on that thread alone
\* until the table changes.
LEMMA AbsCallOfThread ==
  ASSUME NEW t \in Threads
  PROVE  AbsCall[t] = IF pc[t] = "idle" THEN NULL
                      ELSE [path |-> arg[t].path, flag |-> arg[t].flag,
                            rc |-> IF pc[t] = "unlock" THEN heap[item[t]].count ELSE 0]
BY DEF AbsCall

\* The initial table is the empty log.
LEMMA InitRefines == Init => AL!Init
<1> SUFFICES ASSUME Init PROVE AL!Init
  OBVIOUS
<1>1. AbsLog = AL!EmptyLog
  BY DEF Init, AbsLog, AL!EmptyLog
<1>2. AbsCall = [t \in Threads |-> NULL]
  BY DEF Init, AbsCall
<1>3. rc = [t \in Threads |-> 0]
  BY DEF Init
<1> QED
  BY <1>1, <1>2, <1>3 DEF AL!Init

\* A record is not the null pointer.
LEMMA CallIsNotNull ==
  ASSUME TypeOK, LocalsAreFresh, NEW t \in Threads, pc[t] # "idle"
  PROVE  AbsCall[t] # NULL
<1>1. arg[t].path \in Paths /\ arg[t].flag \in Flags
  BY DEF LocalsAreFresh, Fresh, Stored
<1>2. pc[t] = "unlock" => heap[item[t]].count \in Int
  <2> SUFFICES ASSUME pc[t] = "unlock" PROVE heap[item[t]].count \in Int
    OBVIOUS
  <2>1. item[t] \in 1..Len(heap) /\ heap \in Seq(Item)
    BY DEF TypeOK, LocalsAreFresh, Fresh
  <2>2. heap[item[t]] \in Item
    BY <2>1, SeqElement
  <2> QED
    BY <2>2 DEF Item
<1>3. PICK n \in Int : n = IF pc[t] = "unlock" THEN heap[item[t]].count ELSE 0
  BY <1>2
<1>4. AbsCall[t] = [path |-> arg[t].path, flag |-> arg[t].flag, rc |-> n]
  BY <1>3 DEF AbsCall
<1>5. AbsCall[t] \in [path : Paths, flag : Flags, rc : Int]
  BY <1>1, <1>4
<1> QED
  BY <1>5, NullAssumption

\* A step that moves one thread changes that component of AbsCall alone.
LEMMA OneFunctionUpdate ==
  ASSUME NEW S, NEW t \in S, NEW e, NEW f, NEW g,
         f = [s \in S |-> f[s]], g = [s \in S |-> g[s]],
         g[t] = e, \A s \in S \ {t} : g[s] = f[s]
  PROVE  g = [f EXCEPT ![t] = e]
<1>1. [f EXCEPT ![t] = e] = [s \in S |-> IF s = t THEN e ELSE f[s]]
  OBVIOUS
<1>2. \A s \in S : g[s] = IF s = t THEN e ELSE f[s]
  OBVIOUS
<1> QED
  BY <1>1, <1>2

LEMMA OneCallChanges ==
  ASSUME NEW t \in Threads, NEW e, AbsCall'[t] = e,
         \A s \in Threads \ {t} : AbsCall'[s] = AbsCall[s]
  PROVE  AbsCall' = [AbsCall EXCEPT ![t] = e]
<1>1. AbsCall = [s \in Threads |-> AbsCall[s]] /\ AbsCall' = [s \in Threads |-> AbsCall'[s]]
  BY DEF AbsCall
<1> HIDE DEF AbsCall
<1> QED
  BY <1>1, OneFunctionUpdate

\* The steps up to the change of the table are invisible.
LEMMA StutterSteps ==
  ASSUME TypeOK, NEW t \in Threads, Lock(t) \/ Find(t) \/ Load(t)
  PROVE  UNCHANGED <<AbsLog, AbsCall, rc>>
<1>0. pc \in [Threads -> Labels]
  BY DEF TypeOK
<1>1. UNCHANGED <<hash, heap, arg, rc>>
  BY DEF Lock, Find, Load
<1>2. /\ pc[t] \notin {"idle", "unlock"} /\ pc'[t] \notin {"idle", "unlock"}
      /\ \A s \in Threads \ {t} : pc'[s] = pc[s] /\ item'[s] = item[s]
  BY <1>0 DEF Lock, Find, Load, Goto, TypeOK
<1>3. AbsCall' = AbsCall
  BY <1>1, <1>2 DEF AbsCall
<1> QED
  BY <1>1, <1>3 DEF AbsLog

\* Entering, leaving and being turned away are the Invoke, the Return and the
\* Ignore of AccessLog.
LEMMA RejectRefines ==
  ASSUME NEW t \in Threads, NEW path, Reject(t, path)
  PROVE  AL!Ignore(t)
BY DEF Reject, AL!Ignore, AbsCall, AbsLog

LEMMA EnterRefines ==
  ASSUME TypeOK, NEW t \in Threads, NEW path \in Paths, NEW flag \in Flags,
         Enter(t, path, flag)
  PROVE  path \in Stored /\ AL!Invoke(t, path, flag)
<1>1. /\ path \in Stored /\ pc[t] = "idle" /\ pc'[t] = "lock"
      /\ arg'[t] = [path |-> path, flag |-> flag]
      /\ \A s \in Threads \ {t} : pc'[s] = pc[s] /\ arg'[s] = arg[s]
      /\ UNCHANGED <<hash, heap, item, rc>>
  BY DEF Enter, Goto, TypeOK, Stored
<1>2. AbsCall[t] = NULL
  BY <1>1 DEF AbsCall
<1>3. AbsCall'[t] = [path |-> path, flag |-> flag, rc |-> 0]
  BY <1>1 DEF AbsCall
<1>4. \A s \in Threads \ {t} : AbsCall'[s] = AbsCall[s]
  BY <1>1 DEF AbsCall
<1>5. AbsCall' = [AbsCall EXCEPT ![t] = [path |-> path, flag |-> flag, rc |-> 0]]
  BY <1>3, <1>4, OneCallChanges
<1> QED
  BY <1>1, <1>2, <1>5 DEF AL!Invoke, AbsLog

LEMMA UnlockRefines ==
  ASSUME TypeOK, LocalsAreFresh, CountsPositive, NEW t \in Threads, Unlock(t)
  PROVE  AL!Return(t)
<1>1. /\ pc[t] = "unlock" /\ pc'[t] = "idle"
      /\ rc' = [rc EXCEPT ![t] = heap[item[t]].count]
      /\ \A s \in Threads \ {t} : pc'[s] = pc[s] /\ arg'[s] = arg[s] /\ item'[s] = item[s]
      /\ UNCHANGED <<hash, heap>>
  BY DEF Unlock, Goto, TypeOK
<1>2. AbsCall[t] # NULL
  BY <1>1, CallIsNotNull
<1>3. AbsCall[t].rc = heap[item[t]].count
  BY <1>1 DEF AbsCall
<1>4. heap[item[t]].count >= 1
  BY <1>1 DEF TypeOK, LocalsAreFresh, Fresh, CountsPositive
<1>5. AbsCall' = [AbsCall EXCEPT ![t] = NULL]
  BY <1>1 DEF AbsCall
<1>6. heap[item[t]].count # 0
  BY <1>4
<1> QED
  BY <1>1, <1>2, <1>3, <1>5, <1>6 DEF AL!Return, AbsLog

\* The step that adds or increments the item is the Record of AccessLog.
LEMMA RecordRefines ==
  ASSUME TypeOK, LocalsAreFresh, HolderIsCritical, NEW t \in Threads,
         NEW path \in Stored, path = arg[t].path,
         pc[t] \in {"add", "bump"}, pc' = [pc EXCEPT ![t] = "unlock"],
         AbsLog' = AL!Recorded(AbsLog, path, arg[t].flag),
         path \in DOMAIN hash', item'[t] = hash'[path],
         UNCHANGED <<arg, rc>>, \A s \in Threads \ {t} : item'[s] = item[s]
  PROVE  AL!Record(t)
<1>1. pc[t] # "idle" /\ pc[t] # "unlock" /\ pc'[t] = "unlock"
  BY DEF TypeOK
<1>2. AbsCall[t] # NULL
  BY <1>1, CallIsNotNull
<1>3. AbsCall[t] = [path |-> path, flag |-> arg[t].flag, rc |-> 0]
  BY <1>1 DEF AbsCall
<1>4. AbsLog'[path].count = heap'[item'[t]].count
  BY DEF AbsLog
<1>5. \A s \in Threads \ {t} : pc[s] \in {"idle", "lock"} /\ pc'[s] = pc[s]
  BY Alone DEF TypeOK, Critical
<1>6. AbsCall' = [AbsCall EXCEPT ![t] = [@ EXCEPT !.rc = AbsLog'[path].count]]
  BY <1>1, <1>3, <1>4, <1>5 DEF AbsCall
<1>7. AbsCall' = [AbsCall EXCEPT ![t].rc = AbsLog'[AbsCall[t].path].count]
  BY <1>3, <1>6
<1> QED
  BY <1>2, <1>3, <1>7 DEF AL!Record

\* A new item: the path enters the log with count 1 and one flag.
LEMMA AddRefines ==
  ASSUME TypeOK, LocalsAreFresh, HolderIsCritical, NEW t \in Threads, Add(t)
  PROVE  AL!Record(t)
<1>a. PICK keys \in SUBSET Stored : hash \in [keys -> 1..Len(heap)]
  BY DEF TypeOK
<1>b. heap \in Seq(Item) /\ pc \in [Threads -> Labels] /\ item \in [Threads -> Nat \cup {NULL}]
  BY DEF TypeOK
<1>0. PICK path \in Stored : path = arg[t].path
  BY DEF Add, LocalsAreFresh, Fresh
<1> DEFINE new == [path |-> path, count |-> 1, flags |-> {arg[t].flag}]
<1>1. path \notin DOMAIN hash
  BY <1>0 DEF Add, LocalsAreFresh, Fresh
<1>2. new.count = 1 /\ new.flags = {arg[t].flag}
  OBVIOUS
<1>3. heap' = Append(heap, new)
  BY <1>0 DEF Add
<1>4. hash' = [p \in DOMAIN hash \cup {path} |-> IF p = path THEN Len(heap) + 1 ELSE hash[p]]
  BY <1>0 DEF Add
<1> HIDE DEF new
<1>5. heap'[Len(heap) + 1] = new /\ \A i \in 1..Len(heap) : heap'[i] = heap[i]
  BY <1>b, <1>3
<1>6. AbsLog' = AL!Recorded(AbsLog, path, arg[t].flag)
  <2>1. AbsLog' = [p \in DOMAIN hash \cup {path} |->
                     IF p = path THEN [count |-> 1, flags |-> {arg[t].flag}]
                     ELSE [count |-> heap[hash[p]].count, flags |-> heap[hash[p]].flags]]
    BY <1>a, <1>2, <1>4, <1>5 DEF AbsLog
  <2>2. DOMAIN AbsLog = DOMAIN hash
    BY DEF AbsLog
  <2> QED
    BY <1>1, <2>1, <2>2 DEF AbsLog, AL!Recorded
<1>7. /\ pc[t] = "add" /\ pc' = [pc EXCEPT ![t] = "unlock"]
      /\ path \in DOMAIN hash' /\ item'[t] = hash'[path]
      /\ UNCHANGED <<arg, rc>> /\ \A s \in Threads \ {t} : item'[s] = item[s]
  BY <1>0, <1>b, <1>4 DEF Add, Goto
<1> QED
  BY <1>0, <1>6, <1>7, RecordRefines

\* An increment: the path is in the log already, once.
LEMMA BumpRefines ==
  ASSUME NoWrap, IInv, NEW t \in Threads, Bump(t)
  PROVE  AL!Record(t)
<1> USE DEF IInv
<1>a. PICK keys \in SUBSET Stored : hash \in [keys -> 1..Len(heap)]
  BY DEF TypeOK
<1>b. heap \in Seq(Item) /\ pc \in [Threads -> Labels]
  BY DEF TypeOK
<1>0. PICK path \in Stored : path = arg[t].path
  BY DEF Bump, LocalsAreFresh, Fresh
<1> DEFINE new == [path |-> heap[item[t]].path, count |-> Inc(reg[t]),
                   flags |-> heap[item[t]].flags \cup {arg[t].flag}]
<1>1. path \in DOMAIN hash /\ item[t] = hash[path]
  BY <1>0 DEF Bump, LocalsAreFresh, Fresh
<1>2. /\ item[t] \in 1..Len(heap) /\ reg[t] = heap[item[t]].count
      /\ Inc(reg[t]) = reg[t] + 1
  BY BumpBelowMax DEF Bump
<1>3. new.count = heap[item[t]].count + 1 /\ new.flags = heap[item[t]].flags \cup {arg[t].flag}
  BY <1>2
<1>4. heap' = [heap EXCEPT ![item[t]] = new] /\ hash' = hash
  BY DEF Bump
<1> HIDE DEF new
<1>5. heap'[item[t]] = new /\ \A i \in 1..Len(heap) : i # item[t] => heap'[i] = heap[i]
  BY <1>b, <1>2, <1>4
<1>6. \A p \in DOMAIN hash : p # path => hash[p] # item[t] /\ hash[p] \in 1..Len(heap)
  BY <1>1, <1>a DEF OneItemPerPath
<1>7. AbsLog' = AL!Recorded(AbsLog, path, arg[t].flag)
  <2>1. AbsLog' = [p \in DOMAIN hash |->
                     IF p = path THEN [count |-> new.count, flags |-> new.flags]
                     ELSE [count |-> heap[hash[p]].count, flags |-> heap[hash[p]].flags]]
    BY <1>1, <1>4, <1>5, <1>6 DEF AbsLog
  <2>2. DOMAIN AbsLog = DOMAIN hash /\ DOMAIN hash \cup {path} = DOMAIN hash
    BY <1>1 DEF AbsLog
  <2>3. AbsLog[path] = [count |-> heap[item[t]].count, flags |-> heap[item[t]].flags]
    BY <1>1 DEF AbsLog
  <2> QED
    BY <1>1, <1>3, <2>1, <2>2, <2>3 DEF AbsLog, AL!Recorded
<1>8. /\ pc[t] = "bump" /\ pc' = [pc EXCEPT ![t] = "unlock"]
      /\ path \in DOMAIN hash' /\ item'[t] = hash'[path]
      /\ UNCHANGED <<arg, item, rc>>
  BY <1>1, <1>4 DEF Bump, Goto
<1> QED
  BY <1>0, <1>7, <1>8, RecordRefines

\* Every step of a thread is a step of AccessLog or leaves its variables alone.
LEMMA StepRefines == ASSUME NoWrap, IInv, [Next]_vars PROVE [AL!Next]_(AL!vars)
<1> USE DEF IInv
<1>1. CASE UNCHANGED vars
  BY <1>1 DEF vars, AL!vars, AbsLog, AbsCall
<1>2. ASSUME NEW t \in Threads, NEW path \in Paths \cup {NULL}, Reject(t, path)
      PROVE  AL!Next
  BY <1>2, RejectRefines DEF AL!Next
<1>3. ASSUME NEW t \in Threads, NEW path \in Paths, NEW flag \in Flags, Enter(t, path, flag)
      PROVE  AL!Next
  BY <1>3, EnterRefines DEF AL!Next
<1>4. ASSUME NEW t \in Threads, Lock(t) \/ Find(t) \/ Load(t)
      PROVE  UNCHANGED AL!vars
  BY <1>4, StutterSteps DEF AL!vars
<1>5. ASSUME NEW t \in Threads, Add(t)
      PROVE  AL!Next
  BY <1>5, AddRefines DEF AL!Next
<1>6. ASSUME NEW t \in Threads, Bump(t)
      PROVE  AL!Next
  BY <1>6, BumpRefines DEF AL!Next
<1>7. ASSUME NEW t \in Threads, Unlock(t)
      PROVE  AL!Next
  BY <1>7, UnlockRefines DEF AL!Next
<1> QED
  BY <1>1, <1>2, <1>3, <1>4, <1>5, <1>6, <1>7 DEF Next, Step

\* Store_In_Hash is linearizable, for any number of threads, paths and flags:
\* every execution of its seven steps is an execution of the indivisible Record
\* of AccessLog (lines 207-242), as long as no counter wraps.
THEOREM Refinement == ASSUME NoWrap PROVE Spec => ImplementsAccessLog
<1>1. Init => AL!Init
  BY InitRefines
<1>2. IInv /\ [Next]_vars => [AL!Next]_(AL!vars)
  BY StepRefines
<1> QED
  BY <1>1, <1>2, Invariance, PTL DEF Spec, ImplementsAccessLog, AL!Spec
=============================================================================
