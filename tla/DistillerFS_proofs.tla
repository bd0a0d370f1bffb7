------------------------- MODULE DistillerFS_proofs -------------------------
(***************************************************************************)
(* Proofs about DistillerFS: descriptors have one owner, an open file is   *)
(* one inode, the log is exact and new entries belong to who made them,    *)
(* for every set of threads, paths, inodes, handles and users, every       *)
(* filter, and any number of calls and descriptors.                        *)
(*                                                                         *)
(* Module DistillerFS_steps has the inductive invariant IInv and the       *)
(* shapes of the steps; here each conjunct is shown to survive each shape. *)
(***************************************************************************)
EXTENDS DistillerFS_steps

(***************************************************************************)
(* What the steps do to the calls under way.                               *)
(***************************************************************************)
\* The call of one thread begins, goes on or ends; the others stay.
LEMMA CallChanges ==
  ASSUME TypeOK, NEW t \in Threads, NEW c \in Call \cup {NULL},
         call' = [call EXCEPT ![t] = c]
  PROVE  /\ call' \in [Threads -> Call \cup {NULL}]
         /\ \A u \in Threads : call'[u] = IF u = t THEN c ELSE call[u]
         /\ InFlight' = IF c = NULL THEN InFlight \ {t} ELSE InFlight \cup {t}
BY DEF TypeOK, InFlight

\* A call that begins.
LEMMA BeginsChanges ==
  ASSUME TypeOK, NEW t \in Threads, NEW c \in Call, Begins(t, c)
  PROVE  /\ call' \in [Threads -> Call \cup {NULL}]
         /\ t \notin InFlight /\ InFlight' = InFlight \cup {t}
         /\ call'[t] = c /\ \A u \in InFlight : u # t /\ call'[u] = call[u]
         /\ UNCHANGED <<file, log, owed>> /\ calls' \in 0..MaxCalls
         /\ Formed(c) /\ TodoIsDue(c) /\ Admitted(c)
<1>1. call[t] = NULL /\ call' = [call EXCEPT ![t] = c] /\ calls' = calls + 1
  BY DEF Begins
<1>2. c # NULL
  BY NullAssumption
<1>3. calls' \in 0..MaxCalls
  BY BoundsAssumption DEF TypeOK, Begins, Admitted
<1>4. UNCHANGED <<file, log, owed>> /\ Formed(c) /\ TodoIsDue(c) /\ Admitted(c)
  BY DEF Begins
<1> QED
  BY <1>1, <1>2, <1>3, <1>4, CallChanges DEF InFlight

\* A call that goes on.
LEMMA GoesOnChanges ==
  ASSUME TypeOK, NEW t \in Threads, NEW c \in Call, GoesOn(t, c)
  PROVE  /\ call' \in [Threads -> Call \cup {NULL}]
         /\ t \in InFlight /\ InFlight' = InFlight
         /\ call'[t] = c /\ \A u \in InFlight : u # t => call'[u] = call[u]
         /\ UNCHANGED <<file, log, owed, calls>>
         /\ Formed(c) /\ TodoIsDue(c) /\ SameRequest(c, call[t])
<1>1. call[t] # NULL /\ call' = [call EXCEPT ![t] = c]
  BY DEF GoesOn
<1>2. c # NULL
  BY NullAssumption
<1>3. UNCHANGED <<file, log, owed, calls>> /\ Formed(c) /\ TodoIsDue(c) /\ SameRequest(c, call[t])
  BY DEF GoesOn
<1> QED
  BY <1>1, <1>2, <1>3, CallChanges DEF InFlight

\* A call that logs a path: its rest gets shorter.
LEMMA StoreChanges ==
  ASSUME TypeOK, NEW t \in Threads, Store_In_Hash(t)
  PROVE  \E c \in Call :
           /\ call' \in [Threads -> Call \cup {NULL}]
           /\ t \in InFlight /\ InFlight' = InFlight
           /\ call'[t] = c /\ \A u \in InFlight : u # t => call'[u] = call[u]
           /\ SameRequest(c, call[t]) /\ c.outcome = call[t].outcome /\ c.fd = call[t].fd
           /\ c.mode = call[t].mode /\ c.entry = call[t].entry
           /\ c.step = "store" /\ call[t].step = "store"
           /\ call[t].todo # << >> /\ c.todo = Tail(call[t].todo)
           /\ UNCHANGED <<fs, fds, file, owed, calls>>
<1>1. call[t] \in Call /\ call[t] # NULL /\ call[t].step = "store" /\ call[t].todo # << >>
  BY DEF Store_In_Hash, At, TypeOK
<1> DEFINE c == [call[t] EXCEPT !.todo = Tail(call[t].todo)]
<1>2. Tail(call[t].todo) \in Seq(LogPaths)
  BY <1>1 DEF Call
<1>3. /\ c \in Call /\ SameRequest(c, call[t]) /\ c.outcome = call[t].outcome
      /\ c.fd = call[t].fd /\ c.mode = call[t].mode /\ c.step = "store"
      /\ c.todo = Tail(call[t].todo) /\ c.entry = call[t].entry
  BY <1>1, <1>2 DEF Call, SameRequest
<1>4. call' = [call EXCEPT ![t] = c]
  BY DEF Store_In_Hash
<1> HIDE DEF c
<1>5. c # NULL
  BY <1>3, NullAssumption
<1>6. UNCHANGED <<fs, fds, file, owed, calls>>
  BY DEF Store_In_Hash
<1>7. /\ call' \in [Threads -> Call \cup {NULL}]
      /\ t \in InFlight /\ InFlight' = InFlight
      /\ call'[t] = c /\ \A u \in InFlight : u # t => call'[u] = call[u]
  BY <1>1, <1>3, <1>4, <1>5, CallChanges DEF InFlight
<1> QED
  BY <1>1, <1>3, <1>6, <1>7

\* A call that ends.
LEMMA ReplyChanges ==
  ASSUME TypeOK, NEW t \in Threads, Ready(t), Reply(t)
  PROVE  /\ call' \in [Threads -> Call \cup {NULL}]
         /\ t \in InFlight /\ InFlight' = InFlight \ {t}
         /\ call[t] \in Call /\ call[t].step = "store" /\ call[t].todo = << >>
         /\ \A u \in InFlight' : u # t /\ u \in InFlight /\ call'[u] = call[u]
         /\ owed' = Logged(owed, call[t]) /\ UNCHANGED <<log, calls>>
<1>1. /\ call[t] # NULL /\ call[t] \in Call /\ call[t].step = "store" /\ call[t].todo = << >>
      /\ call' = [call EXCEPT ![t] = NULL]
      /\ owed' = Logged(owed, call[t]) /\ UNCHANGED <<log, calls>>
  BY DEF Ready, Reply, At, TypeOK
<1> QED
  BY <1>1, CallChanges DEF InFlight

-----------------------------------------------------------------------------
(***************************************************************************)
(* The log.                                                                *)
(***************************************************************************)
\* A call names one path or two.
LEMMA DueForType ==
  ASSUME NEW c \in Call, NEW p
  PROVE  /\ DueFor(c, p) \in SUBSET (1..2) /\ IsFiniteSet(DueFor(c, p))
         /\ Cardinality(DueFor(c, p)) \in Nat
         /\ DueFor(c, p) # {} => Cardinality(DueFor(c, p)) > 0
<1>1. DueFor(c, p) \in SUBSET (1..2)
  BY DEF DueFor, Due, Named
<1>2. DueFor(c, p) \in SUBSET Nat /\ \A k \in DueFor(c, p) : k <= 2
  BY <1>1
<1>3. IsFiniteSet(DueFor(c, p))
  BY <1>2, 2 \in Nat, FS_BoundedSetOfNaturals
<1>4. Cardinality(DueFor(c, p)) \in Nat
  BY <1>3, FS_CardinalityType
<1>5. DueFor(c, p) # {} => Cardinality(DueFor(c, p)) # 0
  BY <1>3, FS_EmptySet
<1> QED
  BY <1>1, <1>3, <1>4, <1>5

\* What the counters and flags of a log are.
LEMMA LogType ==
  ASSUME NEW l, IsLog(l), NEW p
  PROVE  CountIn(l, p) \in Nat /\ FlagsIn(l, p) \in SUBSET Ops
BY DEF IsLog, CountIn, FlagsIn

\* A log with one more entry is a log.
LEMMA RecordedType ==
  ASSUME NEW l, IsLog(l), NEW path \in LogPaths, NEW op \in Ops
  PROVE  /\ IsLog(Recorded(l, path, op))
         /\ \A p : /\ CountIn(Recorded(l, path, op), p) = CountIn(l, p) + IF p = path THEN 1 ELSE 0
                   /\ FlagsIn(Recorded(l, path, op), p)
                        = FlagsIn(l, p) \cup IF p = path THEN {op} ELSE {}
<1> DEFINE new == Recorded(l, path, op)
<1>1. DOMAIN new = DOMAIN l \cup {path}
  BY DEF Recorded
<1>2. \A q \in DOMAIN new : new[q] \in [count : Nat, flags : SUBSET Ops]
  BY DEF Recorded, IsLog
<1>3. IsLog(new)
  BY <1>1, <1>2 DEF IsLog, Recorded
<1>4. ASSUME NEW p
      PROVE  /\ CountIn(new, p) = CountIn(l, p) + IF p = path THEN 1 ELSE 0
             /\ FlagsIn(new, p) = FlagsIn(l, p) \cup IF p = path THEN {op} ELSE {}
  <2>1. CountIn(l, p) \in Nat
    BY LogType
  <2>2. CASE p = path
    BY <2>1, <2>2 DEF CountIn, FlagsIn, Recorded, IsLog
  <2>3. CASE p # path
    BY <2>1, <2>3 DEF CountIn, FlagsIn, Recorded, IsLog
  <2> QED
    BY <2>2, <2>3
<1> QED
  BY <1>3, <1>4

\* A log with what one more call owes it is a log.
LEMMA LoggedType ==
  ASSUME NEW l, IsLog(l), NEW c \in Call
  PROVE  /\ IsLog(Logged(l, c))
         /\ \A p \in LogPaths :
              /\ CountIn(Logged(l, c), p) = CountIn(l, p) + Cardinality(DueFor(c, p))
              /\ FlagsIn(Logged(l, c), p)
                   = FlagsIn(l, p) \cup IF DueFor(c, p) # {} THEN {c.op} ELSE {}
<1> DEFINE new == Logged(l, c)
<1>0. c.op \in Ops
  BY DEF Call
<1>1. DOMAIN new = DOMAIN l \cup {p \in LogPaths : DueFor(c, p) # {}}
  BY DEF Logged
<1>2. \A q \in DOMAIN new :
        new[q] = [count |-> CountIn(l, q) + Cardinality(DueFor(c, q)),
                  flags |-> FlagsIn(l, q) \cup (IF DueFor(c, q) # {} THEN {c.op} ELSE {})]
  BY DEF Logged
<1>3. \A q \in DOMAIN new : new[q] \in [count : Nat, flags : SUBSET Ops]
  <2> SUFFICES ASSUME NEW q \in DOMAIN new
               PROVE  new[q] \in [count : Nat, flags : SUBSET Ops]
    OBVIOUS
  <2>1. CountIn(l, q) \in Nat /\ FlagsIn(l, q) \in SUBSET Ops
    BY LogType
  <2>2. Cardinality(DueFor(c, q)) \in Nat
    BY DueForType
  <2> HIDE DEF new
  <2> QED
    BY <1>0, <1>2, <2>1, <2>2
<1>4. new \in [DOMAIN new -> [count : Nat, flags : SUBSET Ops]]
  <2>1. new = [q \in DOMAIN new |-> new[q]]
    BY DEF Logged
  <2> HIDE DEF new
  <2> QED BY <1>3, <2>1
<1>5. IsLog(new)
  BY <1>1, <1>4 DEF IsLog
<1>6. ASSUME NEW p \in LogPaths
      PROVE  /\ CountIn(new, p) = CountIn(l, p) + Cardinality(DueFor(c, p))
             /\ FlagsIn(new, p) = FlagsIn(l, p) \cup IF DueFor(c, p) # {} THEN {c.op} ELSE {}
  <2>1. CountIn(l, p) \in Nat /\ Cardinality(DueFor(c, p)) \in Nat
    BY LogType, DueForType
  <2> HIDE DEF new
  <2>2. CASE p \in DOMAIN new
    BY <1>2, <2>2 DEF CountIn, FlagsIn
  <2>3. CASE p \notin DOMAIN new
    <3>1. DueFor(c, p) = {} /\ p \notin DOMAIN l
      BY <1>1, <2>3
    <3>2. Cardinality(DueFor(c, p)) = 0
      BY <3>1, FS_EmptySet
    <3> QED
      BY <2>3, <3>1, <3>2 DEF CountIn, FlagsIn
  <2> QED
    BY <2>2, <2>3
<1> QED
  BY <1>5, <1>6

-----------------------------------------------------------------------------
(***************************************************************************)
(* Types.                                                                  *)
(***************************************************************************)
\* What is left of the inodes are inodes.
LEMMA ReclaimedType ==
  ASSUME TypeOK, NEW d, NEW o
  PROVE  /\ Reclaimed(d, o) \in [Inodes -> Inode \cup {NULL}]
         /\ \A i \in Inodes : Reclaimed(d, o)[i] # NULL => Reclaimed(d, o)[i] = inode[i]
         /\ \A p \in Paths : d[p] \in Inodes => Reclaimed(d, o)[d[p]] = inode[d[p]]
         /\ \A n \in 1..MaxFds : o[n] \in Inodes => Reclaimed(d, o)[o[n]] = inode[o[n]]
BY DEF Reclaimed, TypeOK

\* A file that is created is one.
LEMMA NewFileType ==
  ASSUME NEW kind \in {"reg", "dir", "symlink", "fifo"}
  PROVE  NewFile(kind, Daemon) \in Inode
BY DEF NewFile, Inode

\* The entries after a rename are those before it.
LEMMA MovedType ==
  ASSUME TypeOK, NEW from \in Paths, NEW to \in Paths
  PROVE  Moved(from, to) \in [Paths -> Inodes \cup {NULL}]
BY DEF Moved, TypeOK

\* lchown finds the new entry, and changes the owner of its inode.
LEMMA HandsOverOne ==
  ASSUME TypeOK, CallsAreFormed, Backed, NewEntries, NEW t \in Threads, NEW c \in Call,
         HandsOver(t, c)
  PROVE  \E i \in Inodes :
           /\ i = dir[IF c.op = "link" THEN c.other ELSE c.path]
           /\ inode[i] \in Inode
           /\ [inode[i] EXCEPT !.owner = c.user] \in Inode
           /\ inode' = IF c.entry = "given" THEN [inode EXCEPT ![i] = [inode[i] EXCEPT !.owner = c.user]]
                       ELSE inode
<1> DEFINE path == IF c.op = "link" THEN c.other ELSE c.path
           i == dir[path]
<1>1. c.user \in Users /\ t \in InFlight /\ SameRequest(c, call[t]) /\ call[t] \in Call
  BY DEF HandsOver, GoesOn, SameRequest, Formed, InFlight, TypeOK
<1>2. path \in Paths /\ i # NULL
  <2>1. CASE c.op = "link"
    BY <1>1, <2>1 DEF HandsOver, GoesOn, Formed, NewEntries, SameRequest
  <2>2. CASE c.op # "link"
    BY <1>1, <2>2, NullAssumption DEF HandsOver, GoesOn, Call, NewEntries, SameRequest,
       CallsAreFormed, Formed
  <2> QED
    BY <2>1, <2>2
<1>3. i \in Inodes /\ inode[i] \in Inode
  BY <1>2 DEF TypeOK, Backed
<1>4. [inode[i] EXCEPT !.owner = c.user] \in Inode
  BY <1>1, <1>3 DEF Inode
<1>5. inode' = IF c.entry = "given" THEN [inode EXCEPT ![i] = [inode[i] EXCEPT !.owner = c.user]]
               ELSE inode
  BY DEF HandsOver
<1> QED
  BY <1>3, <1>4, <1>5

\* What a call under way has and what its handle is.
LEMMA CallFacts ==
  ASSUME TypeOK, CallsAreFormed, NEW t \in InFlight
  PROVE  /\ call[t] \in Call /\ call[t] # NULL /\ Formed(call[t]) /\ InOrder(call[t])
         /\ call[t].op \in OnFiles => call[t].file \in Handles
         /\ call[t].fd # NULL => call[t].fd \in 1..MaxFds
<1>1. call[t] \in Call /\ call[t] # NULL /\ Formed(call[t]) /\ InOrder(call[t])
  BY DEF TypeOK, CallsAreFormed, InFlight
<1> QED
  BY <1>1 DEF Call, Formed

\* open puts the descriptor it holds into a handle that was not in use.
LEMMA OpenReplyFile ==
  ASSUME TypeOK, CallsAreFormed, Descriptors, HandlesInUse, NEW t \in Threads, openReply(t)
  PROVE  \E d \in 1..MaxFds, f \in Handles, new \in OpenFile :
           /\ Ready(t) /\ Reply(t) /\ UNCHANGED <<fs, fds>>
           /\ t \in InFlight /\ call[t].op = "open" /\ call[t].fd = d /\ call[t].file = f
           /\ t \in Holders(d) /\ fds[d] # NULL /\ file[f] = NULL
           /\ new.path = call[t].path /\ new.fd = d /\ new.inode = fds[d]
           /\ new # NULL /\ file' = [file EXCEPT ![f] = new]
<1>1. /\ Ready(t) /\ Reply(t) /\ UNCHANGED <<fs, fds>>
      /\ call[t].op = "open" /\ call[t].fd # NULL /\ t \in InFlight
  BY DEF openReply, Ready, At, InFlight
<1>2. /\ call[t] \in Call /\ call[t].file \in Handles /\ call[t].fd \in 1..MaxFds
      /\ call[t].mode \in {"r", "w"} /\ file[call[t].file] = NULL
  BY <1>1, CallFacts DEF OnFiles, Formed, HandlesInUse, Call
<1>3. t \in Holders(call[t].fd)
  BY <1>1, <1>2 DEF Holders
<1>4. fds[call[t].fd] \in Inodes /\ fds[call[t].fd] # NULL
  BY <1>2, <1>3 DEF Descriptors, TypeOK
<1> DEFINE new == [path |-> call[t].path, mode |-> call[t].mode,
                   fd |-> call[t].fd, inode |-> fds[call[t].fd]]
<1>5. new \in OpenFile
  BY <1>2, <1>4 DEF OpenFile, Call
<1>6. new.path = call[t].path /\ new.fd = call[t].fd /\ new.inode = fds[call[t].fd]
  OBVIOUS
<1>7. file' = [file EXCEPT ![call[t].file] = new]
  BY DEF openReply, FhOf
<1> HIDE DEF new
<1>8. new # NULL
  BY <1>5, NullAssumption
<1> QED
  BY <1>1, <1>2, <1>3, <1>4, <1>5, <1>6, <1>7, <1>8

\* A step of a call leaves every variable with what it may hold.
LEMMA TypeStep ==
  ASSUME IInv, NEW t \in Threads, Step(t)
  PROVE  TypeOK'
<1>0. TypeOK /\ CallsAreFormed /\ Descriptors /\ HandlesInUse /\ Backed /\ NewEntries
  BY DEF IInv
<1>a. ASSUME NEW c \in Call, Begins(t, c) \/ GoesOn(t, c),
             dir' \in [Paths -> Inodes \cup {NULL}],
             inode' \in [Inodes -> Inode \cup {NULL}],
             fds' \in [1..MaxFds -> Inodes \cup {NULL}]
      PROVE  TypeOK'
  <2>1. /\ call' \in [Threads -> Call \cup {NULL}]
        /\ UNCHANGED <<file, log, owed>> /\ calls' \in 0..MaxCalls
    BY <1>0, <1>a, BeginsChanges, GoesOnChanges DEF TypeOK
  <2> QED
    BY <1>0, <1>a, <2>1 DEF TypeOK, IsLog
<1>b. ASSUME NEW c \in Call, NEW i \in Inodes, TakesNone(c) \/ TakesFd(c, i)
      PROVE  fds' \in [1..MaxFds -> Inodes \cup {NULL}]
  BY <1>0, <1>b DEF TakesNone, TakesFd, TypeOK
<1>c. ASSUME NEW c \in Call, TakesNone(c)
      PROVE  fds' \in [1..MaxFds -> Inodes \cup {NULL}]
  BY <1>0, <1>c DEF TakesNone, TypeOK
<1>1. ASSUME NEW c \in Call, Quiet(t, c)
      PROVE  TypeOK'
  BY <1>0, <1>1, <1>a, <1>c DEF Quiet, Attributes, TypeOK
<1>2. ASSUME NEW c \in Call, Opens(t, c)
      PROVE  TypeOK'
  <2>1. dir[c.path] \in Inodes
    BY <1>0, <1>2 DEF Opens, TypeOK, Call
  <2> QED
    BY <1>0, <1>2, <1>a, <1>b, <2>1 DEF Opens, TypeOK, fs
<1>3. ASSUME NEW c \in Call, BeginsRelease(t, c)
      PROVE  TypeOK'
  BY <1>0, <1>3, <1>a DEF BeginsRelease, TypeOK, fs
<1>4. ASSUME NEW c \in Call, Makes(t, c)
      PROVE  TypeOK'
  <2>1. PICK i \in FreeInodes, kind \in {"reg", "dir", "symlink", "fifo"} :
          Create(c.path, kind, i) /\ (TakesNone(c) \/ TakesFd(c, i))
    BY <1>0, <1>4 DEF Makes
  <2>2. i \in Inodes /\ NewFile(kind, Daemon) \in Inode
    BY <2>1, NewFileType DEF FreeInodes
  <2>3. dir' \in [Paths -> Inodes \cup {NULL}] /\ inode' \in [Inodes -> Inode \cup {NULL}]
    BY <1>0, <2>1, <2>2 DEF Create, TypeOK, Call
  <2> QED
    BY <1>0, <1>4, <1>a, <1>b, <2>1, <2>2, <2>3 DEF Makes
<1>5. ASSUME NEW c \in Call, Links(t, c)
      PROVE  TypeOK'
  <2>1. dir[c.path] \in Inodes
    BY <1>0, <1>5 DEF Links, TypeOK, Call
  <2>2. dir' \in [Paths -> Inodes \cup {NULL}]
    BY <1>0, <1>5, <2>1 DEF Links, TypeOK
  <2> QED
    BY <1>0, <1>5, <1>a, <1>c, <2>2 DEF Links, TypeOK
<1>6. ASSUME NEW c \in Call, Removes(t, c)
      PROVE  TypeOK'
  <2>1. dir' = dir \/ dir' = [dir EXCEPT ![c.path] = NULL]
    BY <1>6 DEF Removes
  <2>2. dir' \in [Paths -> Inodes \cup {NULL}]
    BY <1>0, <2>1 DEF TypeOK
  <2> QED
    BY <1>0, <1>6, <1>a, <1>c, <2>2, ReclaimedType DEF Removes
<1>7. ASSUME NEW c \in Call, Renames(t, c)
      PROVE  TypeOK'
  <2>1. c.outcome = LOG_SUCCESS => c.path \in Paths /\ c.other \in Paths
    BY <1>0, <1>7 DEF Renames, Begins, Formed, Call
  <2>2. dir' \in [Paths -> Inodes \cup {NULL}]
    BY <1>0, <1>7, <2>1, MovedType DEF Renames, TypeOK
  <2> QED
    BY <1>0, <1>7, <1>a, <1>c, <2>2, ReclaimedType DEF Renames
<1>8. ASSUME NEW c \in Call, Closes(t, c)
      PROVE  TypeOK'
  <2>1. fds' \in [1..MaxFds -> Inodes \cup {NULL}]
    BY <1>0, <1>8 DEF Closes, Closed, TypeOK
  <2> QED
    BY <1>0, <1>8, <1>a, <2>1 DEF Closes, TypeOK, fs
<1>9. ASSUME NEW c \in Call, HandsOver(t, c)
      PROVE  TypeOK'
  <2>1. PICK i \in Inodes :
          /\ [inode[i] EXCEPT !.owner = c.user] \in Inode
          /\ inode' = IF c.entry = "given" THEN [inode EXCEPT ![i] = [inode[i] EXCEPT !.owner = c.user]]
                      ELSE inode
    BY <1>0, <1>9, HandsOverOne
  <2>2. inode' \in [Inodes -> Inode \cup {NULL}]
    BY <1>0, <2>1 DEF TypeOK
  <2> QED
    BY <1>0, <1>9, <1>a, <2>2 DEF HandsOver, TypeOK
<1>10. ASSUME NEW c \in Call, Writes(t, c)
       PROVE  TypeOK'
  BY <1>0, <1>10, <1>a DEF Writes, Attributes, TypeOK
<1>11. CASE Store_In_Hash(t)
  <2>1. PICK c \in Call :
          /\ call' \in [Threads -> Call \cup {NULL}]
          /\ t \in InFlight /\ call[t].todo # << >>
          /\ UNCHANGED <<fs, fds, file, owed, calls>>
    BY <1>0, <1>11, StoreChanges
  <2>2. call[t].op \in Ops /\ Head(call[t].todo) \in LogPaths
    BY <1>0, <2>1 DEF TypeOK, InFlight, Call
  <2>3. log' = log \/ log' = Recorded(log, Head(call[t].todo), call[t].op)
    BY <1>11 DEF Store_In_Hash
  <2>4. IsLog(log')
    BY <1>0, <2>2, <2>3, RecordedType DEF TypeOK
  <2> QED
    BY <1>0, <2>1, <2>4 DEF TypeOK, fs, IsLog
<1>d. ASSUME Ready(t), Reply(t), dir' = dir,
             inode' \in [Inodes -> Inode \cup {NULL}],
             fds' \in [1..MaxFds -> Inodes \cup {NULL}],
             file' \in [Handles -> OpenFile \cup {NULL}]
      PROVE  TypeOK'
  <2>1. /\ call' \in [Threads -> Call \cup {NULL}] /\ call[t] \in Call
        /\ owed' = Logged(owed, call[t]) /\ UNCHANGED <<log, calls>>
    BY <1>0, <1>d, ReplyChanges
  <2>2. IsLog(owed')
    BY <1>0, <2>1, LoggedType DEF TypeOK
  <2> QED
    BY <1>0, <1>d, <2>1, <2>2 DEF TypeOK, IsLog
<1>12. CASE openReply(t)
  <2>1. PICK f \in Handles, new \in OpenFile :
          /\ Ready(t) /\ Reply(t) /\ UNCHANGED <<fs, fds>>
          /\ file' = [file EXCEPT ![f] = new]
    BY <1>0, <1>12, OpenReplyFile
  <2>2. file' \in [Handles -> OpenFile \cup {NULL}]
    BY <1>0, <2>1 DEF TypeOK
  <2> QED
    BY <1>0, <1>d, <2>1, <2>2 DEF TypeOK, fs
<1>13. CASE writeReply(t)
  BY <1>0, <1>13, <1>d, ReclaimedType DEF writeReply, Closed, TypeOK
<1>14. CASE releaseReply(t)
  BY <1>0, <1>14, <1>d, ReclaimedType DEF releaseReply, Closed, TypeOK
<1>15. CASE renameReply(t)
  <2>1. /\ call[t] \in Call /\ call[t].op = "rename" /\ t \in InFlight
        /\ Ready(t) /\ Reply(t) /\ UNCHANGED <<fs, fds>>
    BY <1>0, <1>15 DEF renameReply, Ready, At, TypeOK, InFlight
  <2>2. call[t].other \in Paths
    BY <1>0, <2>1 DEF CallsAreFormed, Formed
  <2>3. \A x \in OpenFile : [x EXCEPT !.path = call[t].other] \in OpenFile
    BY <2>2 DEF OpenFile
  <2>4. file' \in [Handles -> OpenFile \cup {NULL}]
    BY <1>0, <1>15, <2>3 DEF renameReply, TypeOK
  <2> QED
    BY <1>0, <1>d, <2>1, <2>4 DEF TypeOK, fs
<1>16. CASE otherReply(t)
  BY <1>0, <1>16, <1>d DEF otherReply, TypeOK, fs
<1> QED
  BY <1>1, <1>2, <1>3, <1>4, <1>5, <1>6, <1>7, <1>8, <1>9, <1>10, <1>11, <1>12, <1>13,
     <1>14, <1>15, <1>16 DEF Step

-----------------------------------------------------------------------------
(***************************************************************************)
(* The calls under way.                                                    *)
(***************************************************************************)
\* A step begins a call, goes on with one, logs a path, or is the reply.
LEMMA StepKinds ==
  ASSUME NEW t \in Threads, Step(t)
  PROVE  \/ \E c \in Call : Begins(t, c) \/ GoesOn(t, c)
         \/ Store_In_Hash(t)
         \/ Ready(t) /\ Reply(t)
<1>1. ASSUME NEW c \in Call,
             \/ Quiet(t, c) \/ Opens(t, c) \/ BeginsRelease(t, c) \/ Makes(t, c)
             \/ Links(t, c) \/ Removes(t, c) \/ Renames(t, c)
      PROVE  Begins(t, c)
  BY <1>1 DEF Quiet, Opens, BeginsRelease, Makes, Links, Removes, Renames
<1>2. ASSUME NEW c \in Call, Closes(t, c) \/ HandsOver(t, c) \/ Writes(t, c)
      PROVE  GoesOn(t, c)
  BY <1>2 DEF Closes, HandsOver, Writes
<1>3. ASSUME \/ openReply(t) \/ writeReply(t) \/ releaseReply(t) \/ renameReply(t)
             \/ otherReply(t)
      PROVE  Ready(t) /\ Reply(t)
  BY <1>3 DEF openReply, writeReply, releaseReply, renameReply, otherReply
<1> QED
  BY <1>1, <1>2, <1>3 DEF Step

\* What a call owes depends on its request and its outcome.
LEMMA DueIsOfRequest ==
  ASSUME NEW c, NEW d, SameRequest(c, d), c.outcome = d.outcome
  PROVE  Due(c) = Due(d)
BY DEF Due, Named, SameRequest

\* The calls stay formed, and log their paths in order.
LEMMA CallsStep ==
  ASSUME TypeOK, CallsAreFormed, NEW t \in Threads, Step(t)
  PROVE  CallsAreFormed'
<1>a. ASSUME NEW c \in Call, Formed(c), InOrder(c), call'[t] = c,
             \A u \in InFlight' : u # t => u \in InFlight /\ call'[u] = call[u]
      PROVE  CallsAreFormed'
  BY <1>a DEF CallsAreFormed
<1>1. ASSUME NEW c \in Call, Begins(t, c) \/ GoesOn(t, c)
      PROVE  CallsAreFormed'
  <2>1. Formed(c) /\ TodoIsDue(c) /\ call'[t] = c
    BY <1>1, BeginsChanges, GoesOnChanges
  <2>2. \A u \in InFlight' : u # t => u \in InFlight /\ call'[u] = call[u]
    BY <1>1, BeginsChanges, GoesOnChanges
  <2>3. InOrder(c)
    BY <2>1 DEF TodoIsDue, InOrder
  <2> QED
    BY <1>a, <2>1, <2>2, <2>3
<1>2. CASE Store_In_Hash(t)
  <2> DEFINE b == call[t]
  <2>1. PICK c \in Call :
          /\ t \in InFlight /\ InFlight' = InFlight
          /\ call'[t] = c /\ \A u \in InFlight : u # t => call'[u] = call[u]
          /\ SameRequest(c, b) /\ c.outcome = b.outcome /\ c.fd = b.fd
          /\ c.mode = b.mode /\ c.entry = b.entry /\ c.step = "store" /\ b.step = "store"
          /\ b.todo # << >> /\ c.todo = Tail(b.todo)
    BY <1>2, StoreChanges
  <2>2. Formed(b) /\ InOrder(b)
    BY <2>1 DEF CallsAreFormed
  <2>3. Formed(c)
    BY <2>1, <2>2 DEF Formed, SameRequest
  <2>4. InOrder(c)
    <3>1. Due(c) = Due(b) /\ c.path = b.path /\ c.other = b.other
      BY <2>1, DueIsOfRequest DEF SameRequest
    <3>2. CASE b.todo = Due(b)
      <4>1. b.todo = <<b.path>> \/ b.todo = <<b.path, b.other>>
        BY <2>1, <3>2 DEF Due, Named
      <4>2. CASE b.todo = <<b.path>>
        BY <2>1, <4>2 DEF InOrder
      <4>3. CASE b.todo = <<b.path, b.other>>
        BY <2>1, <3>1, <3>2, <4>3 DEF InOrder
      <4> QED
        BY <4>1, <4>2, <4>3
    <3>3. CASE b.todo = <<b.other>>
      BY <2>1, <3>3 DEF InOrder
    <3> QED
      BY <2>1, <2>2, <3>2, <3>3 DEF InOrder
  <2> QED
    BY <1>a, <2>1, <2>3, <2>4
<1>3. CASE Ready(t) /\ Reply(t)
  BY <1>3, ReplyChanges DEF CallsAreFormed
<1> QED
  BY <1>1, <1>2, <1>3, StepKinds

\* Requests that the kernel keeps apart stay apart: what a call was asked does
\* not change.
LEMMA ExclusiveStep ==
  ASSUME TypeOK, Exclusive, NEW t \in Threads, Step(t)
  PROVE  Exclusive'
<1>a. ASSUME NEW c, NEW d, NEW e, SameRequest(c, d)
      PROVE  /\ Compatible(d, e) => Compatible(c, e)
             /\ Compatible(e, d) => Compatible(e, c)
  BY <1>a DEF Compatible, SameRequest, Entries, Uses
<1>b. ASSUME NEW c, t \in InFlight, InFlight' = InFlight, call'[t] = c,
             SameRequest(c, call[t]), \A u \in InFlight : u # t => call'[u] = call[u]
      PROVE  Exclusive'
  BY <1>a, <1>b DEF Exclusive
<1>1. ASSUME NEW c \in Call, Begins(t, c)
      PROVE  Exclusive'
  <2>1. /\ t \notin InFlight /\ InFlight' = InFlight \cup {t} /\ call'[t] = c /\ Admitted(c)
        /\ \A u \in InFlight : u # t /\ call'[u] = call[u]
    BY <1>1, BeginsChanges
  <2>2. \A u \in InFlight : Compatible(c, call[u]) /\ Compatible(call[u], c)
    BY <2>1 DEF Admitted, Compatible
  <2> QED
    BY <2>1, <2>2 DEF Exclusive
<1>2. ASSUME NEW c \in Call, GoesOn(t, c)
      PROVE  Exclusive'
  BY <1>2, <1>b, GoesOnChanges
<1>3. CASE Store_In_Hash(t)
  <2>1. PICK c \in Call :
          /\ t \in InFlight /\ InFlight' = InFlight /\ call'[t] = c
          /\ \A u \in InFlight : u # t => call'[u] = call[u]
          /\ SameRequest(c, call[t])
    BY <1>3, StoreChanges
  <2> QED
    BY <1>b, <2>1
<1>4. CASE Ready(t) /\ Reply(t)
  BY <1>4, ReplyChanges DEF Exclusive
<1> QED
  BY <1>1, <1>2, <1>3, <1>4, StepKinds

-----------------------------------------------------------------------------
(***************************************************************************)
(* What has a name or a descriptor exists.                                 *)
(***************************************************************************)
\* The inodes that are reclaimed have neither.
LEMMA ReclaimedBacked ==
  ASSUME TypeOK, Backed, dir' \in [Paths -> Inodes \cup {NULL}],
         \A p \in Paths : dir'[p] # NULL => \E q \in Paths : dir'[p] = dir[q],
         \A d \in 1..MaxFds : fds'[d] # NULL => fds'[d] = fds[d],
         inode' = Reclaimed(dir', fds')
  PROVE  Backed'
<1>1. ASSUME NEW p \in Paths, dir'[p] # NULL
      PROVE  inode'[dir'[p]] # NULL
  <2>1. PICK q \in Paths : dir'[p] = dir[q]
    BY <1>1
  <2>2. dir'[p] \in Inodes /\ inode[dir'[p]] # NULL
    BY <1>1, <2>1 DEF TypeOK, Backed
  <2> QED
    BY <2>2, ReclaimedType
<1>2. ASSUME NEW d \in 1..MaxFds, fds'[d] # NULL
      PROVE  inode'[fds'[d]] # NULL
  <2>1. fds'[d] \in Inodes /\ inode[fds'[d]] # NULL
    BY <1>2 DEF TypeOK, Backed
  <2> QED
    BY <2>1, ReclaimedType
<1> QED
  BY <1>1, <1>2 DEF Backed

\* The inodes that a change of attributes leaves are those there were.
LEMMA AttributesBacked ==
  ASSUME TypeOK, Backed, NEW c, Attributes(c), UNCHANGED <<dir, fds>>
  PROVE  Backed'
BY DEF TypeOK, Backed, Attributes

\* Names and descriptors lead to inodes that exist.
LEMMA BackedStep ==
  ASSUME IInv, NEW t \in Threads, Step(t)
  PROVE  Backed'
<1>0. TypeOK /\ CallsAreFormed /\ Backed /\ NewEntries
  BY DEF IInv
<1>1. ASSUME NEW c \in Call, Quiet(t, c) \/ Writes(t, c)
      PROVE  Backed'
  BY <1>0, <1>1, AttributesBacked DEF Quiet, Writes, TakesNone
<1>2. ASSUME NEW c \in Call, Opens(t, c)
      PROVE  Backed'
  <2>1. dir[c.path] # NULL /\ c.path \in Paths /\ inode' = inode /\ dir' = dir
    BY <1>2 DEF Opens, Call, fs
  <2>2. \A d \in 1..MaxFds : fds'[d] = fds[d] \/ fds'[d] = dir[c.path]
    BY <1>0, <1>2 DEF Opens, TakesFd, TypeOK
  <2> QED
    BY <1>0, <2>1, <2>2 DEF Backed
<1>3. ASSUME NEW c \in Call, BeginsRelease(t, c)
      PROVE  Backed'
  BY <1>0, <1>3 DEF BeginsRelease, Backed, fs
<1>4. ASSUME NEW c \in Call, Makes(t, c)
      PROVE  Backed'
  <2>1. PICK i \in FreeInodes, kind \in {"reg", "dir", "symlink", "fifo"} :
          Create(c.path, kind, i) /\ (TakesNone(c) \/ TakesFd(c, i))
    BY <1>4 DEF Makes
  <2>2. i \in Inodes /\ NewFile(kind, Daemon) # NULL
    BY <2>1, NewFileType, NullAssumption DEF FreeInodes
  <2>3. inode'[i] # NULL /\ \A k \in Inodes : k # i => inode'[k] = inode[k]
    BY <1>0, <2>1, <2>2 DEF Create, TypeOK
  <2>4. \A p \in Paths : dir'[p] = i \/ dir'[p] = dir[p]
    BY <1>0, <2>1 DEF Create, TypeOK
  <2>5. \A d \in 1..MaxFds : fds'[d] = i \/ fds'[d] = fds[d]
    BY <1>0, <2>1 DEF TakesNone, TakesFd, TypeOK
  <2> QED
    BY <1>0, <2>3, <2>4, <2>5 DEF Backed, TypeOK
<1>5. ASSUME NEW c \in Call, Links(t, c)
      PROVE  Backed'
  <2>1. \A p \in Paths : dir'[p] = dir[p] \/ dir'[p] = dir[c.path]
    BY <1>0, <1>5 DEF Links, TypeOK
  <2>2. c.path \in Paths /\ inode' = inode /\ fds' = fds
    BY <1>5 DEF Links, TakesNone, Call
  <2> QED
    BY <1>0, <2>1, <2>2 DEF Backed
<1>6. ASSUME NEW c \in Call, Removes(t, c)
      PROVE  Backed'
  <2>1. /\ dir' = dir \/ dir' = [dir EXCEPT ![c.path] = NULL]
        /\ fds' = fds /\ inode' = Reclaimed(dir', fds')
    BY <1>6 DEF Removes, TakesNone
  <2>2. dir' \in [Paths -> Inodes \cup {NULL}]
    BY <1>0, <2>1 DEF TypeOK
  <2>3. \A p \in Paths : dir'[p] # NULL => dir'[p] = dir[p]
    BY <1>0, <2>1 DEF TypeOK
  <2> QED
    BY <1>0, <2>1, <2>2, <2>3, ReclaimedBacked
<1>7. ASSUME NEW c \in Call, Renames(t, c)
      PROVE  Backed'
  <2>1. /\ dir' = dir \/ dir' = Moved(c.path, c.other)
        /\ fds' = fds /\ inode' = Reclaimed(dir', fds') /\ c.path \in Paths /\ c.other \in Paths
    BY <1>7 DEF Renames, TakesNone, Begins, Formed, Call
  <2>2. dir' \in [Paths -> Inodes \cup {NULL}]
    BY <1>0, <2>1, MovedType DEF TypeOK
  <2>3. \A p \in Paths : dir'[p] # NULL => \E q \in Paths : dir'[p] = dir[q]
    BY <1>0, <2>1 DEF TypeOK, Moved
  <2> QED
    BY <1>0, <2>1, <2>2, <2>3, ReclaimedBacked
<1>8. ASSUME NEW c \in Call, Closes(t, c)
      PROVE  Backed'
  <2>1. dir' = dir /\ inode' = inode /\ \A d \in 1..MaxFds : fds'[d] # NULL => fds'[d] = fds[d]
    BY <1>0, <1>8 DEF Closes, Closed, TypeOK, fs
  <2> QED
    BY <1>0, <2>1 DEF Backed
<1>9. ASSUME NEW c \in Call, HandsOver(t, c)
      PROVE  Backed'
  <2>1. PICK i \in Inodes :
          /\ [inode[i] EXCEPT !.owner = c.user] \in Inode
          /\ inode' = IF c.entry = "given" THEN [inode EXCEPT ![i] = [inode[i] EXCEPT !.owner = c.user]]
                      ELSE inode
    BY <1>0, <1>9, HandsOverOne
  <2>2. \A k \in Inodes : inode[k] # NULL => inode'[k] # NULL
    BY <1>0, <2>1, NullAssumption DEF TypeOK
  <2>3. dir' = dir /\ fds' = fds
    BY <1>9 DEF HandsOver
  <2> QED
    BY <1>0, <2>2, <2>3 DEF Backed, TypeOK
<1>10. CASE Store_In_Hash(t)
  BY <1>0, <1>10 DEF Store_In_Hash, Backed, fs
<1>11. CASE openReply(t) \/ renameReply(t) \/ otherReply(t)
  BY <1>0, <1>11 DEF openReply, renameReply, otherReply, Backed, fs
<1>12. CASE writeReply(t) \/ releaseReply(t)
  <2>1. dir' = dir /\ fds' = Closed(call[t].fd) /\ inode' = Reclaimed(dir', fds')
    BY <1>12 DEF writeReply, releaseReply
  <2>2. \A d \in 1..MaxFds : fds'[d] # NULL => fds'[d] = fds[d]
    BY <1>0, <2>1 DEF Closed, TypeOK
  <2> QED
    BY <1>0, <2>1, <2>2, ReclaimedBacked DEF TypeOK
<1> QED
  BY <1>1, <1>2, <1>3, <1>4, <1>5, <1>6, <1>7, <1>8, <1>9, <1>10, <1>11, <1>12 DEF Step

-----------------------------------------------------------------------------
(***************************************************************************)
(* Descriptors.                                                            *)
(***************************************************************************)
\* A call that begins holds the descriptor it has.
LEMMA BeginsHolders ==
  ASSUME TypeOK, NEW t \in Threads, NEW c \in Call, Begins(t, c), NEW d \in 1..MaxFds
  PROVE  Holders(d)' = Holders(d) \cup (IF c.op # "release" /\ c.fd = d THEN {t} ELSE {})
<1>1. /\ t \notin InFlight /\ InFlight' = InFlight \cup {t}
      /\ call'[t] = c /\ \A u \in InFlight : call'[u] = call[u]
      /\ file' = file
  BY BeginsChanges
<1> QED
  BY <1>1 DEF Holders

\* A call that goes on holds the descriptor it has then.
LEMMA GoesOnHolders ==
  ASSUME TypeOK, NEW t \in Threads, NEW c \in Call, GoesOn(t, c), NEW d \in 1..MaxFds
  PROVE  Holders(d)' = (Holders(d) \ {t}) \cup (IF c.op # "release" /\ c.fd = d THEN {t} ELSE {})
<1>1. /\ t \in InFlight /\ InFlight' = InFlight
      /\ call'[t] = c /\ \A u \in InFlight : u # t => call'[u] = call[u]
      /\ file' = file
  BY GoesOnChanges
<1> QED
  BY <1>1, ActorsAssumption DEF Holders

\* A call that logs keeps what it holds.
LEMMA StoreHolders ==
  ASSUME TypeOK, NEW t \in Threads, Store_In_Hash(t), NEW d
  PROVE  Holders(d)' = Holders(d)
<1>1. PICK c \in Call :
        /\ t \in InFlight /\ InFlight' = InFlight /\ call'[t] = c
        /\ \A u \in InFlight : u # t => call'[u] = call[u]
        /\ SameRequest(c, call[t]) /\ c.fd = call[t].fd
        /\ file' = file
  BY StoreChanges
<1> QED
  BY <1>1 DEF Holders, SameRequest

\* A call that ends leaves what it held.
LEMMA ReplyHolders ==
  ASSUME TypeOK, NEW t \in Threads, Ready(t), Reply(t), NEW d,
         \A f \in Handles : (file'[f] # NULL /\ file'[f].fd = d) <=> (file[f] # NULL /\ file[f].fd = d)
  PROVE  Holders(d)' = Holders(d) \ {t}
<1>1. /\ t \in InFlight /\ InFlight' = InFlight \ {t}
      /\ \A u \in InFlight' : u # t /\ u \in InFlight /\ call'[u] = call[u]
  BY ReplyChanges
<1> QED
  BY <1>1, ActorsAssumption DEF Holders

\* Descriptors that nobody gets or leaves.
LEMMA HoldersStay ==
  ASSUME Descriptors, UNCHANGED fds, \A d \in 1..MaxFds : Holders(d)' = Holders(d)
  PROVE  Descriptors'
BY DEF Descriptors

\* The only holder of a descriptor closes it.
LEMMA HolderCloses ==
  ASSUME TypeOK, Descriptors, NEW d \in 1..MaxFds, fds' = Closed(d), NEW x,
         x \in Holders(d), Holders(d)' = Holders(d) \ {x},
         \A n \in 1..MaxFds : n # d => Holders(n)' = Holders(n)
  PROVE  Descriptors'
<1>1. \A n \in 1..MaxFds : fds'[n] = IF n = d THEN NULL ELSE fds[n]
  BY DEF Closed, TypeOK
<1>2. Holders(d)' = {}
  BY DEF Descriptors
<1> QED
  BY <1>1, <1>2 DEF Descriptors

\* A thread gets a descriptor that nobody held.
LEMMA HolderOpens ==
  ASSUME TypeOK, Descriptors, NEW d \in 1..MaxFds, NEW i \in Inodes, fds[d] = NULL,
         fds' = [fds EXCEPT ![d] = i], NEW t, Holders(d)' = Holders(d) \cup {t},
         \A n \in 1..MaxFds : n # d => Holders(n)' = Holders(n)
  PROVE  Descriptors'
<1>1. \A n \in 1..MaxFds : fds'[n] = IF n = d THEN i ELSE fds[n]
  BY DEF TypeOK
<1>2. i # NULL
  BY NullAssumption
<1>3. Holders(d)' = {t}
  BY DEF Descriptors
<1> QED
  BY <1>1, <1>2, <1>3 DEF Descriptors

\* An open file that is renamed stays the file it is.
LEMMA RenamedFiles ==
  ASSUME TypeOK, CallsAreFormed, NEW t \in Threads, renameReply(t), NEW f \in Handles
  PROVE  /\ file'[f] # NULL <=> file[f] # NULL
         /\ file[f] # NULL => /\ file'[f].fd = file[f].fd /\ file'[f].inode = file[f].inode
                              /\ file'[f].path = IF file[f].path = call[t].path
                                                   THEN call[t].other ELSE file[f].path
<1>1. file'[f] = IF file[f] # NULL /\ file[f].path = call[t].path
                   THEN [file[f] EXCEPT !.path = call[t].other] ELSE file[f]
  BY DEF renameReply
<1>2. call[t].other \in Paths
  BY CallFacts DEF renameReply, Ready, At, InFlight, Formed
<1>3. ASSUME file[f] # NULL
      PROVE  LET new == [file[f] EXCEPT !.path = call[t].other]
             IN /\ file[f] \in OpenFile /\ new \in OpenFile /\ new.fd = file[f].fd
                /\ new.inode = file[f].inode /\ new.path = call[t].other
  BY <1>2, <1>3 DEF TypeOK, OpenFile
<1> QED
  BY <1>1, <1>3, NullAssumption

\* Descriptors have one holder, whatever a step does.
LEMMA DescriptorsStep ==
  ASSUME IInv, NEW t \in Threads, Step(t)
  PROVE  Descriptors'
<1>0. /\ TypeOK /\ CallsAreFormed /\ Exclusive /\ Descriptors /\ HandlesInUse
      /\ t \notin Handles /\ \A d \in 1..MaxFds : d # NULL
  BY ActorsAssumption, NullAssumption DEF IInv
<1>a. ASSUME NEW c \in Call, Begins(t, c), c.op = "release" \/ c.fd = NULL, fds' = fds
      PROVE  Descriptors'
  BY <1>0, <1>a, BeginsHolders, HoldersStay
<1>b. ASSUME NEW c \in Call, NEW i \in Inodes, Begins(t, c), c.op # "release", TakesFd(c, i)
      PROVE  Descriptors'
  <2>1. PICK d \in 1..MaxFds : d = c.fd /\ fds[d] = NULL /\ fds' = [fds EXCEPT ![d] = i]
    BY <1>b DEF TakesFd
  <2>2. \A n \in 1..MaxFds :
          Holders(n)' = Holders(n) \cup (IF c.op # "release" /\ c.fd = n THEN {t} ELSE {})
    BY <1>0, <1>b, BeginsHolders
  <2>3. /\ Holders(d)' = Holders(d) \cup {t}
        /\ \A n \in 1..MaxFds : n # d => Holders(n)' = Holders(n)
    BY <1>b, <2>1, <2>2
  <2> QED
    BY <1>0, <2>1, <2>3, HolderOpens
<1>1. ASSUME NEW c \in Call,
             \/ Quiet(t, c) \/ BeginsRelease(t, c) \/ Links(t, c) \/ Removes(t, c) \/ Renames(t, c)
      PROVE  Descriptors'
  BY <1>1, <1>a DEF Quiet, BeginsRelease, Links, Removes, Renames, TakesNone
<1>2. ASSUME NEW c \in Call, Opens(t, c)
      PROVE  Descriptors'
  <2>1. dir[c.path] \in Inodes /\ c.op # "release"
    BY <1>0, <1>2 DEF Opens, TypeOK, Call
  <2> QED
    BY <1>2, <1>b, <2>1 DEF Opens
<1>3. ASSUME NEW c \in Call, Makes(t, c)
      PROVE  Descriptors'
  <2>1. PICK i \in Inodes : TakesNone(c) \/ TakesFd(c, i)
    BY <1>3 DEF Makes, FreeInodes
  <2>2. Begins(t, c) /\ c.op # "release"
    BY <1>3 DEF Makes, Creating
  <2> QED
    BY <1>a, <1>b, <2>1, <2>2 DEF TakesNone
<1>4. ASSUME NEW c \in Call, Closes(t, c)
      PROVE  Descriptors'
  <2>1. /\ GoesOn(t, c) /\ c.op = call[t].op /\ c.op # "release" /\ c.fd = NULL
        /\ t \in InFlight /\ fds' = Closed(call[t].fd) /\ call[t].fd # NULL
    BY <1>4 DEF Closes, GoesOn, SameRequest, InFlight
  <2>2. PICK d \in 1..MaxFds : d = call[t].fd
    BY <1>0, <2>1, CallFacts
  <2>3. /\ t \in Holders(d) /\ fds' = Closed(d)
        /\ \A n \in 1..MaxFds : n # d => t \notin Holders(n)
    BY <1>0, <2>1, <2>2 DEF Holders
  <2>4. \A n \in 1..MaxFds : Holders(n)' = Holders(n) \ {t}
    BY <1>0, <2>1, GoesOnHolders
  <2> QED
    BY <1>0, <2>3, <2>4, HolderCloses
<1>5. ASSUME NEW c \in Call, HandsOver(t, c) \/ Writes(t, c)
      PROVE  Descriptors'
  <2>1. GoesOn(t, c) /\ c.op = call[t].op /\ t \in InFlight /\ fds' = fds
    BY <1>5 DEF HandsOver, Writes, GoesOn, SameRequest, InFlight
  <2>2. c.fd = call[t].fd
    BY <1>0, <1>5, <2>1 DEF HandsOver, Writes, CallsAreFormed, Formed
  <2>3. \A d \in 1..MaxFds : t \in Holders(d) <=> c.op # "release" /\ c.fd = d
    BY <1>0, <2>1, <2>2 DEF Holders
  <2>4. \A d \in 1..MaxFds : Holders(d)' = Holders(d)
    BY <1>0, <2>1, <2>3, GoesOnHolders
  <2> QED
    BY <1>0, <2>1, <2>4, HoldersStay
<1>6. CASE Store_In_Hash(t)
  BY <1>0, <1>6, StoreHolders, HoldersStay DEF Store_In_Hash
<1>c. ASSUME Ready(t)
      PROVE  t \in InFlight /\ call[t].step = "store"
  BY <1>c DEF Ready, At, InFlight
<1>7. CASE openReply(t)
  <2>1. PICK d \in 1..MaxFds, f \in Handles, new \in OpenFile :
          /\ Ready(t) /\ Reply(t) /\ UNCHANGED fds
          /\ t \in InFlight /\ call[t].fd = d
          /\ t \in Holders(d) /\ file[f] = NULL /\ new.fd = d
          /\ new # NULL /\ file' = [file EXCEPT ![f] = new]
    BY <1>0, <1>7, OpenReplyFile
  <2>2. file'[f] = new /\ \A g \in Handles : g # f => file'[g] = file[g]
    BY <1>0, <2>1 DEF TypeOK
  <2>3. InFlight' = InFlight \ {t} /\ \A u \in InFlight' : u \in InFlight /\ call'[u] = call[u]
    BY <1>0, <2>1, ReplyChanges
  <2>4. Holders(d)' = (Holders(d) \ {t}) \cup {f}
    BY <1>0, <2>1, <2>2, <2>3 DEF Holders
  <2>5. \A n \in 1..MaxFds : n # d => Holders(n)' = Holders(n)
    BY <1>0, <2>1, <2>2, <2>3 DEF Holders
  <2> QED
    BY <1>0, <2>1, <2>4, <2>5 DEF Descriptors
<1>8. CASE writeReply(t)
  <2>1. /\ Ready(t) /\ Reply(t) /\ t \in InFlight /\ call[t].op = "write" /\ call[t].fd # NULL
        /\ fds' = Closed(call[t].fd) /\ file' = file
    BY <1>8, <1>c DEF writeReply
  <2>2. PICK d \in 1..MaxFds : d = call[t].fd
    BY <1>0, <2>1, CallFacts
  <2>3. /\ t \in Holders(d) /\ fds' = Closed(d)
        /\ \A n \in 1..MaxFds : n # d => t \notin Holders(n)
    BY <1>0, <2>1, <2>2 DEF Holders
  <2>4. \A n \in 1..MaxFds : Holders(n)' = Holders(n) \ {t}
    BY <1>0, <2>1, ReplyHolders
  <2> QED
    BY <1>0, <2>3, <2>4, HolderCloses
<1>9. CASE releaseReply(t)
  <2>1. /\ Ready(t) /\ Reply(t) /\ t \in InFlight /\ call[t].op = "release"
        /\ fds' = Closed(call[t].fd) /\ file' = [file EXCEPT ![call[t].file] = NULL]
    BY <1>9, <1>c DEF releaseReply
  <2>2. PICK d \in 1..MaxFds, f \in Handles :
          d = call[t].fd /\ f = call[t].file /\ file[f] # NULL /\ file[f].fd = d
    BY <1>0, <2>1, CallFacts DEF HandlesInUse, Formed, OnFiles
  <2>3. file'[f] = NULL /\ \A g \in Handles : g # f => file'[g] = file[g]
    BY <1>0, <2>1, <2>2 DEF TypeOK
  <2>4. InFlight' = InFlight \ {t} /\ \A u \in InFlight' : u \in InFlight /\ call'[u] = call[u]
    BY <1>0, <2>1, ReplyChanges
  <2>5. f \in Holders(d) /\ fds' = Closed(d)
    BY <2>1, <2>2 DEF Holders
  <2>6. \A n \in 1..MaxFds : t \notin Holders(n)
    BY <1>0, <2>1 DEF Holders
  <2>7. Holders(d)' = Holders(d) \ {f}
    <3>1. \A u \in InFlight : u # f
      BY ActorsAssumption DEF InFlight
    <3>2. \A u \in InFlight : u \in InFlight' \/ call[u].op = "release"
      BY <2>1, <2>4
    <3>3. \A u \in InFlight' : u \in InFlight /\ call'[u] = call[u]
      BY <2>4
    <3> QED
      BY <2>3, <2>4, <2>1, <3>1, <3>2, <3>3 DEF Holders
  <2>8. \A n \in 1..MaxFds : n # d => Holders(n)' = Holders(n)
    BY <1>0, <2>2, <2>3, <2>4, <2>6 DEF Holders
  <2> QED
    BY <1>0, <2>5, <2>7, <2>8, HolderCloses
<1>10. CASE renameReply(t) \/ otherReply(t)
  <2>1. Ready(t) /\ Reply(t) /\ t \in InFlight /\ fds' = fds /\ call[t].step = "store"
    BY <1>10, <1>c DEF renameReply, otherReply
  <2>2. call[t].op = "release" \/ call[t].fd = NULL
    BY <1>0, <1>10, <2>1, CallFacts DEF renameReply, otherReply, Formed
  <2>3. \A d \in 1..MaxFds : t \notin Holders(d)
    BY <1>0, <2>1, <2>2 DEF Holders
  <2>4. \A f \in Handles : /\ file'[f] # NULL <=> file[f] # NULL
                           /\ file[f] # NULL => file'[f].fd = file[f].fd
    BY <1>0, <1>10, RenamedFiles DEF otherReply
  <2>5. \A d \in 1..MaxFds, f \in Handles :
          (file'[f] # NULL /\ file'[f].fd = d) <=> (file[f] # NULL /\ file[f].fd = d)
    BY <2>4
  <2>6. \A d \in 1..MaxFds : Holders(d)' = Holders(d) \ {t}
    BY <1>0, <2>1, <2>5, ReplyHolders
  <2>7. \A d \in 1..MaxFds : Holders(d)' = Holders(d)
    BY <2>3, <2>6
  <2> QED
    BY <1>0, <2>1, <2>7, HoldersStay
<1> QED
  BY <1>1, <1>2, <1>3, <1>4, <1>5, <1>6, <1>7, <1>8, <1>9, <1>10 DEF Step

\* While an open or a release of a handle runs, no other call uses the handle.
LEMMA HandleIsExclusive ==
  ASSUME TypeOK, CallsAreFormed, Exclusive, NEW t \in InFlight, NEW u \in InFlight, u # t,
         call[u].op \in OnFiles, call[u].file = call[t].file
  PROVE  {call[t].op, call[u].op} \cap {"open", "release"} = {}
<1>1. call[u].file # NULL
  BY CallFacts DEF Formed
<1> QED
  BY <1>1 DEF Exclusive, Compatible

\* The handle of an open stays out of use, that of a release in use.
LEMMA HandlesInUseStep ==
  ASSUME IInv, NEW t \in Threads, Step(t)
  PROVE  HandlesInUse'
<1>0. TypeOK /\ CallsAreFormed /\ Exclusive /\ Descriptors /\ HandlesInUse
  BY DEF IInv
<1>a. ASSUME NEW c \in Call, Begins(t, c), c.op = "open" => file[c.file] = NULL,
             c.op = "release" => file[c.file] # NULL /\ file[c.file].fd = c.fd
      PROVE  HandlesInUse'
  <2>1. /\ InFlight' = InFlight \cup {t} /\ call'[t] = c /\ file' = file
        /\ \A u \in InFlight : call'[u] = call[u]
    BY <1>0, <1>a, BeginsChanges
  <2> QED
    BY <1>0, <1>a, <2>1 DEF HandlesInUse
<1>1. ASSUME NEW c \in Call,
             \/ Quiet(t, c) \/ Opens(t, c) \/ BeginsRelease(t, c) \/ Makes(t, c)
             \/ Links(t, c) \/ Removes(t, c) \/ Renames(t, c)
      PROVE  HandlesInUse'
  BY <1>1, <1>a DEF Quiet, Opens, BeginsRelease, Makes, Links, Removes, Renames, Creating
<1>2. ASSUME NEW c \in Call, Closes(t, c) \/ HandsOver(t, c) \/ Writes(t, c)
      PROVE  HandlesInUse'
  <2>1. GoesOn(t, c) /\ c.op # "open" /\ c.op # "release"
    BY <1>2 DEF Closes, HandsOver, Writes, GoesOn, SameRequest, Creating
  <2>2. /\ InFlight' = InFlight /\ call'[t] = c /\ file' = file
        /\ \A u \in InFlight : u # t => call'[u] = call[u]
    BY <1>0, <2>1, GoesOnChanges
  <2> QED
    BY <1>0, <2>1, <2>2 DEF HandlesInUse
<1>3. CASE Store_In_Hash(t)
  <2>1. PICK c \in Call :
          /\ t \in InFlight /\ InFlight' = InFlight /\ call'[t] = c
          /\ \A u \in InFlight : u # t => call'[u] = call[u]
          /\ SameRequest(c, call[t]) /\ c.fd = call[t].fd
          /\ file' = file
    BY <1>0, <1>3, StoreChanges
  <2> QED
    BY <1>0, <2>1 DEF HandlesInUse, SameRequest
<1>b. ASSUME Ready(t), Reply(t), NEW f, t \in InFlight, call[t].file = f,
             call[t].op \in {"open", "release"},
             \A g \in Handles : g # f => file'[g] = file[g]
      PROVE  HandlesInUse'
  <2>1. InFlight' = InFlight \ {t} /\ \A u \in InFlight' : u \in InFlight /\ call'[u] = call[u]
    BY <1>0, <1>b, ReplyChanges
  <2>2. ASSUME NEW u \in InFlight', call[u].op \in {"open", "release"}
        PROVE  file'[call[u].file] = file[call[u].file]
    <3>1. u \in InFlight /\ u # t
      BY <2>1
    <3>2. call[u].file \in Handles
      BY <1>0, <2>2, <3>1, CallFacts DEF OnFiles
    <3>3. call[u].file # f
      BY <1>0, <1>b, <2>2, <3>1, HandleIsExclusive DEF OnFiles
    <3> QED
      BY <1>b, <3>2, <3>3
  <2> QED
    BY <1>0, <2>1, <2>2 DEF HandlesInUse
<1>4. CASE openReply(t)
  <2>1. PICK f \in Handles, new \in OpenFile :
          /\ Ready(t) /\ Reply(t) /\ t \in InFlight /\ call[t].file = f /\ call[t].op = "open"
          /\ file' = [file EXCEPT ![f] = new]
    BY <1>0, <1>4, OpenReplyFile
  <2> QED
    BY <1>0, <1>b, <2>1 DEF TypeOK
<1>5. CASE releaseReply(t)
  <2>1. /\ Ready(t) /\ Reply(t) /\ call[t].op = "release" /\ t \in InFlight
        /\ file' = [file EXCEPT ![call[t].file] = NULL]
    BY <1>5 DEF releaseReply, Ready, At, InFlight
  <2> QED
    BY <1>0, <1>b, <2>1 DEF TypeOK
<1>6. CASE writeReply(t) \/ renameReply(t) \/ otherReply(t)
  <2>1. Ready(t) /\ Reply(t)
    BY <1>6 DEF writeReply, renameReply, otherReply
  <2>2. \A u \in InFlight' : u \in InFlight /\ call'[u] = call[u]
    BY <1>0, <2>1, ReplyChanges
  <2>3. \A f \in Handles : /\ file'[f] # NULL <=> file[f] # NULL
                           /\ file[f] # NULL => file'[f].fd = file[f].fd
    BY <1>0, <1>6, RenamedFiles DEF otherReply, writeReply
  <2>4. \A u \in InFlight : call[u].op \in {"open", "release"} => call[u].file \in Handles
    BY <1>0, CallFacts DEF OnFiles
  <2> QED
    BY <1>0, <2>2, <2>3, <2>4 DEF HandlesInUse
<1> QED
  BY <1>1, <1>2, <1>3, <1>4, <1>5, <1>6 DEF Step

-----------------------------------------------------------------------------
(***************************************************************************)
(* New entries.                                                            *)
(***************************************************************************)
\* A request that changes an entry is the only one, and the only one that uses
\* the entry.
LEMMA EntryIsExclusive ==
  ASSUME Exclusive, NEW t \in InFlight, NEW u \in InFlight, u # t, call[t].op \in EntryOps
  PROVE  call[u].op \notin EntryOps
BY DEF Exclusive, Compatible

\* A request that begins to change an entry finds no other that does.
LEMMA EntryIsAdmitted ==
  ASSUME NEW c, Admitted(c), NEW u \in InFlight
  PROVE  /\ c.op \in EntryOps => call[u].op \notin EntryOps
         /\ Entries(c) \cap Uses(call[u]) = {} /\ Uses(c) \cap Entries(call[u]) = {}
BY DEF Admitted

\* Nothing touches a new entry before the call that made it returns.
LEMMA NewEntriesStep ==
  ASSUME IInv, NEW t \in Threads, Step(t)
  PROVE  NewEntries'
<1>0. TypeOK /\ CallsAreFormed /\ Exclusive /\ Backed /\ NewEntries
  BY DEF IInv
<1> DEFINE Makers == Creating \cup {"link"}
<1>e. Makers \subseteq EntryOps
  BY DEF EntryOps, Creating
<1> DEFINE New(c, d, n) ==
             /\ c.op \in Creating /\ c.entry # NULL =>
                  /\ d[c.path] # NULL
                  /\ \A p \in Paths : d[p] = d[c.path] => p = c.path
                  /\ n[d[c.path]].owner = IF c.entry = "given" THEN c.user ELSE Daemon
             /\ c.op = "link" /\ c.outcome = LOG_SUCCESS => d[c.other] # NULL
<1>n. NewEntries = \A u \in InFlight : New(call[u], dir, inode)
  BY DEF NewEntries
<1>m. ASSUME \A u \in InFlight' : New(call'[u], dir', inode')
      PROVE  NewEntries'
  BY <1>m DEF NewEntries
<1>o. \A c, d, n : c.op \notin Makers => New(c, d, n)
  BY DEF Creating
<1> HIDE DEF New, Makers
<1>q. ASSUME NEW c \in Call, Begins(t, c), c.op \notin Makers \/ New(c, dir', inode'),
             c.op \in EntryOps
      PROVE  NewEntries'
  <2>1. /\ InFlight' = InFlight \cup {t} /\ call'[t] = c /\ Admitted(c)
        /\ \A u \in InFlight : call'[u] = call[u]
    BY <1>0, <1>q, BeginsChanges
  <2>2. \A u \in InFlight : call[u].op \notin Makers
    BY <1>e, <1>q, <2>1, EntryIsAdmitted
  <2> QED
    BY <1>m, <1>o, <1>q, <2>1, <2>2
<1>1. ASSUME NEW c \in Call, Quiet(t, c)
      PROVE  NewEntries'
  <2>1. /\ InFlight' = InFlight \cup {t} /\ call'[t] = c /\ Admitted(c) /\ Begins(t, c)
        /\ \A u \in InFlight : call'[u] = call[u]
    BY <1>0, <1>1, BeginsChanges DEF Quiet
  <2>2. New(c, dir', inode')
    BY <1>1 DEF Quiet, New, Creating, LOG_SUCCESS, LOG_UNSUCCESS
  <2>3. ASSUME NEW u \in InFlight
        PROVE  New(call[u], dir', inode')
    <3>1. CASE call[u].op \in Makers /\ (call[u].outcome = LOG_SUCCESS \/ call[u].entry # NULL)
      <4>1. call[u].op \in Creating => call[u].path \in Entries(call[u])
        BY DEF Entries, Creating
      <4>2. c.path \in Uses(c) /\ c.path \in Paths
        BY DEF Uses, Call
      <4>3. call[u].op \in Creating => c.path # call[u].path
        BY <2>1, <4>1, <4>2, EntryIsAdmitted
      <4>4. call[u].path \in Paths /\ call[u].op \in Ops
        BY <1>0, CallFacts DEF Call
      <4>5. call[u].op \in Creating /\ call[u].entry # NULL =>
              /\ dir[call[u].path] \in Inodes /\ inode[dir[call[u].path]] # NULL
              /\ dir[c.path] # dir[call[u].path]
        BY <1>0, <1>n, <3>1, <4>2, <4>3, <4>4 DEF New, Backed, TypeOK
      <4>6. call[u].op \in Creating /\ call[u].entry # NULL =>
              inode'[dir[call[u].path]].owner = inode[dir[call[u].path]].owner
        BY <1>1, <4>5 DEF Quiet, Attributes
      <4>7. dir' = dir /\ New(call[u], dir, inode)
        BY <1>0, <1>1, <1>n DEF Quiet
      <4> QED
        BY <4>6, <4>7 DEF New
    <3>2. CASE ~(call[u].op \in Makers /\ (call[u].outcome = LOG_SUCCESS \/ call[u].entry # NULL))
      BY <3>2 DEF New, Makers
    <3> QED
      BY <3>1, <3>2
  <2> QED
    BY <1>m, <2>1, <2>2, <2>3
<1>2. ASSUME NEW c \in Call, Opens(t, c) \/ BeginsRelease(t, c)
      PROVE  NewEntries'
  <2>1. Begins(t, c) /\ UNCHANGED fs /\ c.op \notin Makers
    BY <1>2 DEF Opens, BeginsRelease, Makers, Creating
  <2>2. /\ InFlight' = InFlight \cup {t} /\ call'[t] = c
        /\ \A u \in InFlight : call'[u] = call[u]
    BY <1>0, <2>1, BeginsChanges
  <2> QED
    BY <1>0, <1>m, <1>n, <1>o, <2>1, <2>2 DEF fs
<1>3. ASSUME NEW c \in Call, Makes(t, c)
      PROVE  NewEntries'
  <2>1. PICK i \in Inodes, kind \in {"reg", "dir", "symlink", "fifo"} :
           inode[i] = NULL /\ Create(c.path, kind, i)
    BY <1>3 DEF Makes, FreeInodes
  <2>2. \A p \in Paths : dir[p] # i
    BY <1>0, <2>1, NullAssumption DEF Backed
  <2>3. c.path \in Paths /\ c.op \in Creating /\ c.entry = "new" /\ i # NULL
    BY <1>3, NullAssumption DEF Makes, Call
  <2>4. \A p \in Paths : dir'[p] = IF p = c.path THEN i ELSE dir[p]
    BY <1>0, <2>1 DEF Create, TypeOK
  <2>6. inode'[i].owner = Daemon
    BY <1>0, <2>1 DEF Create, NewFile, TypeOK
  <2>5. New(c, dir', inode')
    BY <2>2, <2>3, <2>4, <2>6 DEF New, Creating
  <2> QED
    BY <1>3, <1>q, <2>5 DEF Makes, Creating, EntryOps
<1>4. ASSUME NEW c \in Call, Links(t, c)
      PROVE  NewEntries'
  <2>1. c.op = "link" /\ c.other \in Paths /\ Begins(t, c) /\ dir[c.path] # NULL
    BY <1>4 DEF Links, Begins, Formed
  <2>2. dir'[c.other] = dir[c.path]
    BY <1>0, <1>4, <2>1 DEF Links, TypeOK
  <2>3. New(c, dir', inode')
    BY <2>1, <2>2 DEF New, Creating
  <2> QED
    BY <1>q, <2>1, <2>3 DEF EntryOps
<1>5. ASSUME NEW c \in Call, Removes(t, c) \/ Renames(t, c)
      PROVE  NewEntries'
  <2>1. Begins(t, c) /\ c.op \in {"unlink", "rmdir", "rename"}
    BY <1>5 DEF Removes, Renames
  <2> QED
    BY <1>q, <2>1 DEF EntryOps, Makers, Creating
<1>r. ASSUME NEW c \in Call, GoesOn(t, c), New(c, dir', inode'), dir' = dir,
             \/ inode' = inode
             \/ c.op \in EntryOps
             \/ \A i \in Inodes : inode[i] # NULL => inode'[i].owner = inode[i].owner
      PROVE  NewEntries'
  <2>1. /\ InFlight' = InFlight /\ call'[t] = c /\ t \in InFlight /\ call[t].op = c.op
        /\ \A u \in InFlight : u # t => call'[u] = call[u]
    BY <1>0, <1>r, GoesOnChanges DEF SameRequest
  <2>2. ASSUME NEW u \in InFlight, u # t
        PROVE  New(call[u], dir', inode')
    <3>1. New(call[u], dir, inode)
      BY <1>0, <1>n
    <3>2. CASE inode' = inode
      BY <1>r, <3>1, <3>2
    <3>3. CASE c.op \in EntryOps
      <4>1. call[u].op \notin Makers
        BY <1>0, <1>e, <2>1, <2>2, <3>3, EntryIsExclusive
      <4> QED
        BY <1>o, <4>1
    <3>4. CASE \A i \in Inodes : inode[i] # NULL => inode'[i].owner = inode[i].owner
      <4>1. call[u].path \in Paths
        BY <1>0, CallFacts DEF Call
      <4>2. dir[call[u].path] # NULL =>
              dir[call[u].path] \in Inodes /\ inode[dir[call[u].path]] # NULL
        BY <1>0, <4>1 DEF TypeOK, Backed
      <4> QED
        BY <1>r, <3>1, <3>4, <4>2 DEF New
    <3> QED
      BY <1>r, <3>2, <3>3, <3>4
  <2> QED
    BY <1>m, <1>r, <2>1, <2>2
<1>6. ASSUME NEW c \in Call, Closes(t, c)
      PROVE  NewEntries'
  <2>1. /\ GoesOn(t, c) /\ dir' = dir /\ inode' = inode /\ t \in InFlight
        /\ c.path = call[t].path /\ c.op = call[t].op /\ c.op \in {"readdir", "mknod"}
        /\ c.user = call[t].user
    BY <1>6 DEF Closes, GoesOn, SameRequest, fs, InFlight
  <2>2. New(call[t], dir, inode)
    BY <1>0, <1>n, <2>1
  <2>3. New(c, dir', inode')
    BY <1>6, <2>1, <2>2 DEF Closes, New, Creating
  <2> QED
    BY <1>r, <2>1, <2>3
<1>7. ASSUME NEW c \in Call, HandsOver(t, c)
      PROVE  NewEntries'
  <2>1. /\ GoesOn(t, c) /\ dir' = dir /\ t \in InFlight /\ SameRequest(c, call[t])
        /\ c.op \in Creating \cup {"link"} /\ call[t].outcome = LOG_SUCCESS
    BY <1>7 DEF HandsOver, GoesOn, SameRequest, InFlight
  <2>2. New(call[t], dir, inode)
    BY <1>0, <1>n, <2>1
  <2>3. PICK i \in Inodes :
          /\ i = dir[IF c.op = "link" THEN c.other ELSE c.path]
          /\ inode[i] \in Inode
          /\ inode' = IF c.entry = "given" THEN [inode EXCEPT ![i] = [inode[i] EXCEPT !.owner = c.user]]
                      ELSE inode
    BY <1>0, <1>7, HandsOverOne
  <2>4. inode'[i].owner = IF c.entry = "given" THEN c.user ELSE inode[i].owner
    BY <1>0, <2>3 DEF TypeOK, Inode
  <2>7. c.op \in Creating => call[t].entry = "new" /\ c.entry \in {"given", "kept"}
    BY <1>0, <1>7, <2>1 DEF HandsOver, CallsAreFormed, Formed, SameRequest
  <2>5. New(c, dir', inode')
    BY <2>1, <2>2, <2>3, <2>4, <2>7, NullAssumption DEF New, Creating, SameRequest
  <2>6. c.op \in EntryOps
    BY <2>1 DEF Creating, EntryOps
  <2> QED
    BY <1>r, <2>1, <2>5, <2>6
<1>8. ASSUME NEW c \in Call, Writes(t, c)
      PROVE  NewEntries'
  <2>1. GoesOn(t, c) /\ dir' = dir /\ c.op \notin Makers /\ c.op = "write" /\ Attributes(c)
    BY <1>8 DEF Writes, Makers, Creating
  <2>2. \A i \in Inodes : inode[i] # NULL => inode'[i].owner = inode[i].owner
    BY <2>1 DEF Attributes
  <2> QED
    BY <1>o, <1>r, <2>1, <2>2
<1>9. CASE Store_In_Hash(t)
  <2>1. PICK c \in Call :
          /\ t \in InFlight /\ InFlight' = InFlight /\ call'[t] = c
          /\ \A u \in InFlight : u # t => call'[u] = call[u]
          /\ SameRequest(c, call[t]) /\ c.outcome = call[t].outcome /\ c.entry = call[t].entry
          /\ c.step = "store" /\ call[t].step = "store" /\ UNCHANGED fs
    BY <1>0, <1>9, StoreChanges
  <2>2. dir' = dir /\ inode' = inode /\ New(call[t], dir, inode)
    BY <1>0, <1>n, <2>1 DEF fs
  <2>3. New(c, dir', inode')
    BY <2>1, <2>2 DEF New, SameRequest
  <2> QED
    BY <1>0, <1>m, <1>n, <2>1, <2>2, <2>3
<1>10. CASE openReply(t) \/ writeReply(t) \/ releaseReply(t) \/ renameReply(t) \/ otherReply(t)
  <2>1. Ready(t) /\ Reply(t) /\ dir' = dir
    BY <1>10 DEF openReply, writeReply, releaseReply, renameReply, otherReply, fs
  <2>2. \A u \in InFlight' : u \in InFlight /\ call'[u] = call[u]
    BY <1>0, <2>1, ReplyChanges
  <2>3. \A p \in Paths : dir[p] # NULL => inode'[dir[p]] = inode[dir[p]]
    BY <1>0, <1>10, ReclaimedType
    DEF openReply, writeReply, releaseReply, renameReply, otherReply, fs, TypeOK
  <2>4. \A u \in InFlight : call[u].path \in Paths
    BY <1>0, CallFacts DEF Call
  <2>5. ASSUME NEW u \in InFlight'
        PROVE  New(call'[u], dir', inode')
    <3>1. New(call[u], dir, inode)
      BY <1>0, <1>n, <2>2
    <3> QED
      BY <2>1, <2>2, <2>3, <2>4, <3>1 DEF New
  <2> QED
    BY <1>m, <2>5
<1> QED
  BY <1>1, <1>2, <1>3, <1>4, <1>5, <1>6, <1>7, <1>8, <1>9, <1>10 DEF Step

-----------------------------------------------------------------------------
(***************************************************************************)
(* The log is exact.                                                       *)
(***************************************************************************)
\* A call has at most two entries, so a finite number are made at a time.
LEMMA EntriesAreFinite ==
  ASSUME NEW p
  PROVE  IsFiniteSet(EntriesFor(p)) /\ Cardinality(EntriesFor(p)) \in Nat
<1>1. (1..2) \in SUBSET Nat /\ \A k \in 1..2 : k <= 2
  OBVIOUS
<1>2. IsFiniteSet(1..2)
  BY <1>1, 2 \in Nat, FS_BoundedSetOfNaturals
<1>3. IsFiniteSet(Threads \X (1..2))
  BY <1>2, ActorsAssumption, FS_Product
<1>4. EntriesFor(p) \in SUBSET (Threads \X (1..2))
  BY DEF EntriesFor
<1>5. IsFiniteSet(EntriesFor(p))
  BY <1>3, <1>4, FS_Subset
<1> QED
  BY <1>5, FS_CardinalityType

\* Call c has made its k-th entry, for path p.
Made(c, k, p) ==
  c.step = "store" /\ k \in DueFor(c, p) /\ k <= Len(Due(c)) - Len(c.todo)

\* What the entries made so far are, before and after a step.
LEMMA EntriesOf ==
  ASSUME NEW p, NEW e
  PROVE  /\ e \in EntriesFor(p) <=>
              \E u \in InFlight, k \in 1..2 : e = <<u, k>> /\ Made(call[u], k, p)
         /\ e \in EntriesFor(p)' <=>
              \E u \in InFlight', k \in 1..2 : e = <<u, k>> /\ Made(call'[u], k, p)
<1>1. e \in Threads \X (1..2) <=> \E u \in Threads, k \in 1..2 : e = <<u, k>>
  OBVIOUS
<1>2. /\ e \in EntriesFor(p) <=> /\ e \in Threads \X (1..2)
                                  /\ e[1] \in InFlight /\ Made(call[e[1]], e[2], p)
      /\ e \in EntriesFor(p)' <=> /\ e \in Threads \X (1..2)
                                   /\ e[1] \in InFlight' /\ Made(call'[e[1]], e[2], p)
  BY DEF EntriesFor, Made
<1>3. (\A u \in InFlight : u \in Threads) /\ (\A u \in InFlight' : u \in Threads)
  BY DEF InFlight
<1> QED
  BY <1>1, <1>2, <1>3

\* A call that has made no entry does not count.
LEMMA SameEntries ==
  ASSUME TypeOK, CallsAreFormed, NEW t \in Threads, NEW c \in Call,
         Begins(t, c) \/ GoesOn(t, c), NEW p
  PROVE  /\ EntriesFor(p)' = EntriesFor(p)
         /\ \A e \in EntriesFor(p) : call'[e[1]].op = call[e[1]].op
<1>1. /\ InFlight' = InFlight \cup {t} /\ call'[t] = c /\ TodoIsDue(c)
      /\ \A u \in InFlight : u # t => call'[u] = call[u]
  BY BeginsChanges, GoesOnChanges
<1>2. t \notin InFlight \/ call[t].step # "store"
  BY DEF Begins, GoesOn, InFlight
<1>3. c.step = "store" => Len(Due(c)) - Len(c.todo) = 0
  BY <1>1, NamedType DEF TodoIsDue
<1>4. \A k \in 1..2 : ~Made(c, k, p) /\ (t \in InFlight => ~Made(call[t], k, p))
  BY <1>2, <1>3 DEF Made
<1>5. \A e \in EntriesFor(p) : \E u \in InFlight, k \in 1..2 : e = <<u, k>> /\ u # t
  BY <1>4, EntriesOf
<1>6. \A e : e \in EntriesFor(p)' <=> e \in EntriesFor(p)
  BY <1>1, <1>4, EntriesOf
<1>7. \A e \in EntriesFor(p) : call'[e[1]].op = call[e[1]].op
  BY <1>1, <1>5
<1> QED
  BY <1>6, <1>7

\* The entry that Store_In_Hash makes is the next one of its call.
LEMMA NextEntry ==
  ASSUME TypeOK, CallsAreFormed, NEW t \in Threads, Store_In_Hash(t)
  PROVE  \E k \in 1..2 :
           /\ k = Len(Due(call[t])) - Len(call[t].todo) + 1
           /\ k \in DOMAIN Due(call[t]) /\ Due(call[t])[k] = Head(call[t].todo)
           /\ Len(Tail(call[t].todo)) = Len(call[t].todo) - 1
<1> DEFINE b == call[t]
<1>1. b \in Call /\ t \in InFlight /\ b.todo # << >> /\ InOrder(b)
  BY CallFacts DEF Store_In_Hash, At, InFlight
<1>2. Due(b) = << >> \/ Due(b) = <<b.path>> \/ Due(b) = <<b.path, b.other>>
  BY DEF Due, Named
<1>3. b.todo = Due(b) \/ (Due(b) = <<b.path, b.other>> /\ b.todo = <<b.other>>)
  BY <1>1 DEF InOrder
<1> HIDE DEF b
<1> SUFFICES \E k \in 1..2 :
           /\ k = Len(Due(b)) - Len(b.todo) + 1
           /\ k \in DOMAIN Due(b) /\ Due(b)[k] = Head(b.todo)
           /\ Len(Tail(b.todo)) = Len(b.todo) - 1
  BY DEF b
<1>4. CASE b.todo = <<b.path>> /\ Due(b) = <<b.path>>
  BY <1>4
<1>5. CASE b.todo = <<b.path, b.other>> /\ Due(b) = <<b.path, b.other>>
  BY <1>5
<1>6. CASE b.todo = <<b.other>> /\ Due(b) = <<b.path, b.other>>
  BY <1>6
<1> QED
  BY <1>1, <1>2, <1>3, <1>4, <1>5, <1>6

\* The log stays exact: what a call adds to it is one of its entries, and what
\* is owed for the call when it returns are its entries.
LEMMA LogStep ==
  ASSUME IInv, NEW t \in Threads, Step(t)
  PROVE  LogIsExact'
<1>0. TypeOK /\ CallsAreFormed /\ LogIsExact
  BY DEF IInv
<1> SUFFICES ASSUME NEW p \in LogPaths
             PROVE  /\ CountIn(log', p) = CountIn(owed', p) + Cardinality(EntriesFor(p)')
                    /\ FlagsIn(log', p) = FlagsIn(owed', p) \cup {call'[e[1]].op : e \in EntriesFor(p)'}
  BY DEF LogIsExact
<1>1. /\ CountIn(log, p) = CountIn(owed, p) + Cardinality(EntriesFor(p))
      /\ FlagsIn(log, p) = FlagsIn(owed, p) \cup {call[e[1]].op : e \in EntriesFor(p)}
  BY <1>0 DEF LogIsExact
<1>2. IsFiniteSet(EntriesFor(p)) /\ Cardinality(EntriesFor(p)) \in Nat
  BY EntriesAreFinite
<1>3. CountIn(log, p) \in Nat /\ CountIn(owed, p) \in Nat
  BY <1>0, LogType DEF TypeOK
<1>4. ASSUME NEW c \in Call, Begins(t, c) \/ GoesOn(t, c)
      PROVE  /\ CountIn(log', p) = CountIn(owed', p) + Cardinality(EntriesFor(p)')
             /\ FlagsIn(log', p) = FlagsIn(owed', p) \cup {call'[e[1]].op : e \in EntriesFor(p)'}
  <2>1. log' = log /\ owed' = owed
    BY <1>4 DEF Begins, GoesOn
  <2>2. EntriesFor(p)' = EntriesFor(p)
    BY <1>0, <1>4, SameEntries
  <2>3. {call'[e[1]].op : e \in EntriesFor(p)} = {call[e[1]].op : e \in EntriesFor(p)}
    BY <1>0, <1>4, SameEntries
  <2> QED
    BY <1>1, <2>1, <2>2, <2>3
<1>5. CASE Store_In_Hash(t)
  <2> DEFINE b == call[t]
             path == Head(b.todo)
             op == b.op
  <2>1. PICK c \in Call :
          /\ t \in InFlight /\ InFlight' = InFlight /\ call'[t] = c
          /\ \A u \in InFlight : u # t => call'[u] = call[u]
          /\ SameRequest(c, b) /\ c.outcome = b.outcome /\ c.step = "store" /\ b.step = "store"
          /\ b.todo # << >> /\ c.todo = Tail(b.todo)
          /\ owed' = owed
    BY <1>0, <1>5, StoreChanges
  <2>2. PICK k \in 1..2 :
          /\ k = Len(Due(b)) - Len(b.todo) + 1
          /\ k \in DOMAIN Due(b) /\ Due(b)[k] = path
          /\ Len(Tail(b.todo)) = Len(b.todo) - 1
    BY <1>0, <1>5, NextEntry
  <2>3. b \in Call /\ op \in Ops /\ path \in LogPaths
    BY <1>0, <2>1, CallFacts DEF Call
  <2>4. log' = IF LoggedPath(path) THEN Recorded(log, path, op) ELSE log
    BY <1>5 DEF Store_In_Hash
  <2>5. Due(c) = Due(b) /\ c.op = op /\ DueFor(c, p) = DueFor(b, p)
    BY <2>1, DueIsOfRequest DEF SameRequest, DueFor
  <2>6. Len(b.todo) \in Nat /\ Len(Due(b)) \in Nat
    BY <2>3, NamedType DEF Call
  <2> DEFINE New == IF LoggedPath(path) /\ path = p THEN {<<t, k>>} ELSE {}
  <2>7. k \in DueFor(b, p) <=> LoggedPath(path) /\ path = p
    BY <2>2 DEF DueFor
  <2>8. \A j \in 1..2 : j <= Len(Due(c)) - Len(c.todo) <=> (j <= Len(Due(b)) - Len(b.todo) \/ j = k)
    <3>1. Len(c.todo) = Len(b.todo) - 1
      BY <2>1, <2>2
    <3> HIDE DEF b
    <3> QED
      BY <2>2, <2>5, <2>6, <3>1
  <2>9. \A j \in 1..2 : Made(c, j, p) <=> (Made(b, j, p) \/ (j = k /\ k \in DueFor(b, p)))
    BY <2>1, <2>5, <2>8 DEF Made
  <2>10. \A e : e \in EntriesFor(p)' <=> e \in EntriesFor(p) \cup New
    <3>1. ASSUME NEW e, e \in EntriesFor(p)'
          PROVE  e \in EntriesFor(p) \cup New
      <4>1. PICK u \in InFlight, j \in 1..2 : e = <<u, j>> /\ Made(call'[u], j, p)
        BY <2>1, <3>1, EntriesOf
      <4>2. CASE u # t
        BY <2>1, <4>1, <4>2, EntriesOf
      <4>3. CASE u = t /\ Made(b, j, p)
        BY <4>1, <4>3, EntriesOf
      <4>4. CASE u = t /\ j = k /\ k \in DueFor(b, p)
        BY <2>7, <4>1, <4>4
      <4> QED
        BY <2>1, <2>9, <4>1, <4>2, <4>3, <4>4
    <3>2. ASSUME NEW e, e \in EntriesFor(p)
          PROVE  e \in EntriesFor(p)'
      <4>1. PICK u \in InFlight, j \in 1..2 : e = <<u, j>> /\ Made(call[u], j, p)
        BY <3>2, EntriesOf
      <4>2. Made(call'[u], j, p)
        BY <2>1, <2>9, <4>1
      <4> QED
        BY <2>1, <4>1, <4>2, EntriesOf
    <3>3. ASSUME NEW e, e \in New
          PROVE  e \in EntriesFor(p)'
      <4>1. e = <<t, k>> /\ k \in DueFor(b, p)
        BY <2>7, <3>3
      <4>2. Made(call'[t], k, p)
        BY <2>1, <2>9, <4>1
      <4> QED
        BY <2>1, <4>1, <4>2, EntriesOf
    <3> QED
      BY <3>1, <3>2, <3>3
  <2>11. EntriesFor(p)' = EntriesFor(p) \cup New
    BY <2>10
  <2>12. <<t, k>> \notin EntriesFor(p)
    <3>1. ~(k <= Len(Due(b)) - Len(b.todo))
      <4> HIDE DEF b
      <4> QED
        BY <2>2, <2>6
    <3>2. ~Made(b, k, p)
      BY <3>1 DEF Made
    <3>3. ASSUME <<t, k>> \in EntriesFor(p)
          PROVE  FALSE
      <4>1. PICK u \in InFlight, j \in 1..2 : <<t, k>> = <<u, j>> /\ Made(call[u], j, p)
        BY <3>3, EntriesOf
      <4>2. u = t /\ j = k
        BY <4>1
      <4> QED
        BY <3>2, <4>1, <4>2
    <3> QED
      BY <3>3
  <2> DEFINE Adds == LoggedPath(path) /\ path = p
             Ops0 == {call[e[1]].op : e \in EntriesFor(p)}
             Ops1 == {call'[e[1]].op : e \in EntriesFor(p)'}
  <2>13. (Adds /\ New = {<<t, k>>}) \/ (~Adds /\ New = {})
    OBVIOUS
  <2>14. Ops1 = Ops0 \cup IF Adds THEN {op} ELSE {}
    <3>1. \A e \in EntriesFor(p) : e[1] \in InFlight
      BY DEF EntriesFor
    <3>2. \A u \in InFlight : call'[u].op = call[u].op
      BY <2>1, <2>5
    <3>3. call'[<<t, k>>[1]].op = op
      BY <2>1, <2>5
    <3> HIDE DEF New, Adds, op
    <3> QED
      BY <2>11, <2>13, <3>1, <3>2, <3>3
  <2>15. Cardinality(EntriesFor(p)') = Cardinality(EntriesFor(p)) + IF Adds THEN 1 ELSE 0
    <3>1. Cardinality(EntriesFor(p) \cup {<<t, k>>}) = Cardinality(EntriesFor(p)) + 1
      BY <1>2, <2>12, FS_AddElement
    <3> HIDE DEF New, Adds
    <3>2. CASE Adds
      <4>1. EntriesFor(p)' = EntriesFor(p) \cup {<<t, k>>}
        BY <2>11, <2>13, <3>2
      <4> QED
        BY <3>1, <3>2, <4>1
    <3>3. CASE ~Adds
      <4>1. EntriesFor(p)' = EntriesFor(p)
        BY <2>11, <2>13, <3>3
      <4> QED
        BY <1>2, <3>3, <4>1
    <3> QED
      BY <3>2, <3>3
  <2>16. /\ CountIn(log', p) = CountIn(log, p) + IF Adds THEN 1 ELSE 0
         /\ FlagsIn(log', p) = FlagsIn(log, p) \cup IF Adds THEN {op} ELSE {}
    <3>1. CASE ~LoggedPath(path)
      BY <1>3, <2>4, <3>1
    <3>2. CASE LoggedPath(path)
      BY <1>0, <2>3, <2>4, <3>2, RecordedType DEF TypeOK
    <3> QED
      BY <3>1, <3>2
  <2>17. FlagsIn(log, p) = FlagsIn(owed, p) \cup Ops0
    BY <1>1
  <2> HIDE DEF New, Adds, Ops0, b, path, op
  <2>18. CountIn(log', p) = CountIn(owed', p) + Cardinality(EntriesFor(p)')
    BY <1>1, <1>2, <1>3, <2>1, <2>15, <2>16
  <2>19. FlagsIn(log', p) = FlagsIn(owed', p) \cup Ops1
    <3> HIDE DEF Ops1
    <3> QED
      BY <2>1, <2>14, <2>16, <2>17
  <2> QED
    BY <2>18, <2>19
<1>6. CASE Ready(t) /\ Reply(t)
  <2> DEFINE b == call[t]
             D == DueFor(b, p)
             Gone == {t} \X D
  <2>1. /\ t \in InFlight /\ InFlight' = InFlight \ {t}
        /\ b \in Call /\ b.step = "store" /\ b.todo = << >>
        /\ \A u \in InFlight' : u # t /\ u \in InFlight /\ call'[u] = call[u]
        /\ owed' = Logged(owed, b) /\ log' = log
    BY <1>0, <1>6, ReplyChanges
  <2>2. /\ CountIn(owed', p) = CountIn(owed, p) + Cardinality(D)
        /\ FlagsIn(owed', p) = FlagsIn(owed, p) \cup IF D # {} THEN {b.op} ELSE {}
    BY <1>0, <2>1, LoggedType DEF TypeOK
  <2>3. D \in SUBSET (1..2) /\ IsFiniteSet(D) /\ Cardinality(D) \in Nat
    BY <2>1, DueForType
  <2>4. IsFiniteSet(Gone) /\ Cardinality(Gone) = Cardinality(D)
    <3>1. IsFiniteSet({t}) /\ Cardinality({t}) = 1
      BY FS_Singleton
    <3>2. IsFiniteSet(Gone) /\ Cardinality(Gone) = Cardinality({t}) * Cardinality(D)
      BY <2>3, <3>1, FS_Product
    <3> QED
      BY <2>3, <3>1, <3>2
  <2>5. \A k \in D : k <= Len(Due(b)) - Len(b.todo)
    BY <2>1, NamedType DEF DueFor
  <2>6. \A k \in D : Made(b, k, p)
    BY <2>1, <2>5 DEF Made
  <2>7. Gone \subseteq EntriesFor(p)
    BY <2>1, <2>3, <2>6, EntriesOf
  <2>8. EntriesFor(p)' = EntriesFor(p) \ Gone
    <3>1. ASSUME NEW e, e \in EntriesFor(p)'
          PROVE  e \in EntriesFor(p) \ Gone
      <4>1. PICK u \in InFlight', j \in 1..2 : e = <<u, j>> /\ Made(call'[u], j, p)
        BY <3>1, EntriesOf
      <4>2. e \in EntriesFor(p)
        BY <2>1, <4>1, EntriesOf
      <4> QED
        BY <2>1, <4>1, <4>2
    <3>2. ASSUME NEW e, e \in EntriesFor(p) \ Gone
          PROVE  e \in EntriesFor(p)'
      <4>1. PICK u \in InFlight, j \in 1..2 : e = <<u, j>> /\ Made(call[u], j, p)
        BY <3>2, EntriesOf
      <4>2. u # t
        BY <3>2, <4>1 DEF Made
      <4>3. u \in InFlight' /\ call'[u] = call[u]
        BY <2>1, <4>2
      <4> QED
        BY <4>1, <4>3, EntriesOf
    <3> QED
      BY <3>1, <3>2
  <2> HIDE DEF Gone
  <2>9. Cardinality(EntriesFor(p)') = Cardinality(EntriesFor(p)) - Cardinality(D)
    <3>1. EntriesFor(p) \cap Gone = Gone
      BY <2>7
    <3>2. Cardinality(EntriesFor(p) \ Gone)
            = Cardinality(EntriesFor(p)) - Cardinality(EntriesFor(p) \cap Gone)
      BY <1>2, FS_Difference
    <3> QED
      BY <2>4, <2>8, <3>1, <3>2
  <2>10. {call[e[1]].op : e \in EntriesFor(p)}
           = {call'[e[1]].op : e \in EntriesFor(p)'} \cup IF D # {} THEN {b.op} ELSE {}
    <3>1. \A e \in EntriesFor(p)' : call'[e[1]].op = call[e[1]].op
      BY <2>1, EntriesOf
    <3>2. \A e \in Gone : call[e[1]].op = b.op
      BY DEF Gone
    <3>3. D # {} <=> Gone # {}
      <4>1. \A k \in D : <<t, k>> \in Gone
        BY DEF Gone
      <4>2. D = {} => Gone = {}
        BY DEF Gone
      <4> QED
        BY <4>1, <4>2
    <3>4. EntriesFor(p) = EntriesFor(p)' \cup Gone
      BY <2>7, <2>8
    <3> HIDE DEF b, D
    <3> QED
      BY <3>1, <3>2, <3>3, <3>4
  <2> HIDE DEF b, D
  <2> QED
    BY <1>1, <1>2, <1>3, <2>1, <2>2, <2>3, <2>9, <2>10
<1> QED
  BY <1>4, <1>5, <1>6, StepKinds

-----------------------------------------------------------------------------
(***************************************************************************)
(* Names of open files.                                                    *)
(***************************************************************************)
\* A step keeps the open file f, what the call of u has to do with names, the
\* renames under way, and the kinds of what the descriptors are open on.
KeepsFile(f) ==
  /\ file'[f] = file[f]
  /\ dir'[file[f].path] = dir[file[f].path] /\ fds'[file[f].fd] = fds[file[f].fd]

KeepsCall(u) ==
  /\ u \in InFlight /\ SameRequest(call'[u], call[u]) /\ call'[u].fd = call[u].fd
  /\ call[u].op \in {"open", "write"} => fds'[call[u].fd] = fds[call[u].fd]
  /\ call[u].op = "open" => dir'[call[u].path] = dir[call[u].path]
  /\ call[u].op = "write" /\ file[call[u].file] # NULL =>
       /\ file'[call[u].file] # NULL
       /\ file'[call[u].file].inode = file[call[u].file].inode

KeepsRenames ==
  \A u \in Threads, p \in Paths :
    /\ Renaming(u, p)' <=> Renaming(u, p)
    /\ Renaming(u, p) => /\ call'[u].other = call[u].other
                         /\ dir'[call[u].other] = dir[call[u].other]

KeepsKinds ==
  \A d \in 1..MaxFds : fds[d] # NULL /\ fds'[d] = fds[d] => inode'[fds[d]].kind = inode[fds[d]].kind

\* An open file that is kept keeps its name.
LEMMA FileStays ==
  ASSUME TypeOK, Names, NEW f \in Handles, file[f] # NULL,
         KeepsFile(f), KeepsRenames, KeepsKinds
  PROVE  FileNamed(f)'
<1> DEFINE p == file[f].path
           d == file[f].fd
           i == file[f].inode
<1>1. p \in Paths /\ d \in 1..MaxFds /\ i \in Inodes /\ i # NULL
  BY NullAssumption DEF TypeOK, OpenFile
<1>2. /\ fds[d] = i /\ inode[i].kind = "reg"
      /\ dir[p] = i \/ \E t \in Threads : Renaming(t, p)
      /\ \A t \in Threads : Renaming(t, p) => dir[call[t].other] = i
  BY DEF Names, FileNamed
<1>3. file'[f].path = p /\ file'[f].fd = d /\ file'[f].inode = i /\ dir'[p] = dir[p] /\ fds'[d] = i
  BY <1>2 DEF KeepsFile
<1>4. inode'[i].kind = "reg"
  BY <1>1, <1>2, <1>3 DEF KeepsKinds
<1>5. PICK q \in Paths : q = p
  BY <1>1
<1>6. \A t \in Threads : Renaming(t, q)' <=> Renaming(t, q)
  BY DEF KeepsRenames
<1>7. \A t \in Threads : Renaming(t, q) => dir'[call'[t].other] = i
  BY <1>2, <1>5 DEF KeepsRenames
<1> HIDE DEF p, d, i
<1>8. \A t \in Threads : Renaming(t, file[f].path)' <=> Renaming(t, q)'
  BY <1>3, <1>5 DEF Renaming
<1> QED
  BY <1>2, <1>3, <1>4, <1>5, <1>6, <1>7, <1>8 DEF FileNamed

\* A call that is kept keeps what it knows of names.
LEMMA CallStays ==
  ASSUME TypeOK, CallsAreFormed, Descriptors, Names, NEW u \in InFlight, call[u].fd # NULL,
         KeepsCall(u), KeepsKinds
  PROVE  CallNamed(u)'
<1>1. CallNamed(u) /\ call[u].fd \in 1..MaxFds
  BY CallFacts DEF Names
<1>2. PICK d \in 1..MaxFds : d = call[u].fd
  BY <1>1
<1>3. CASE call[u].op = "open"
  <2>1. u \in Holders(d)
    BY <1>2, <1>3 DEF Holders
  <2>2. fds[d] # NULL /\ fds'[d] = fds[d] /\ call'[u].fd = d
    BY <1>2, <1>3, <2>1 DEF Descriptors, KeepsCall
  <2>3. inode'[fds[d]].kind = inode[fds[d]].kind
    BY <2>2 DEF KeepsKinds
  <2> QED
    BY <1>1, <1>2, <1>3, <2>2, <2>3 DEF KeepsCall, CallNamed, SameRequest
<1>4. CASE call[u].op = "write"
  BY <1>1, <1>4 DEF KeepsCall, CallNamed, SameRequest
<1>5. CASE call[u].op \notin {"open", "write"}
  BY <1>5 DEF KeepsCall, CallNamed, SameRequest
<1> QED
  BY <1>3, <1>4, <1>5

\* A step that keeps all but the call of t keeps the names.
LEMMA NamesStay ==
  ASSUME TypeOK, CallsAreFormed, Descriptors, Names, KeepsKinds,
         \A f \in Handles : file'[f] # NULL =>
           FileNamed(f)' \/ (file[f] # NULL /\ KeepsFile(f) /\ KeepsRenames),
         \A u \in InFlight' : call'[u].fd # NULL => CallNamed(u)' \/ KeepsCall(u)
  PROVE  Names'
<1>1. ASSUME NEW f \in Handles, file'[f] # NULL
      PROVE  FileNamed(f)'
  BY <1>1, FileStays
<1>2. ASSUME NEW u \in InFlight', call'[u].fd # NULL
      PROVE  CallNamed(u)'
  <2>1. KeepsCall(u) => u \in InFlight /\ call[u].fd # NULL
    BY <1>2 DEF KeepsCall
  <2> QED
    BY <1>2, <2>1, CallStays
<1> QED
  BY <1>1, <1>2 DEF Names

\* A call that is no successful rename leaves those that run as they are.
LEMMA RenamesStay ==
  ASSUME TypeOK, CallsAreFormed, NEW t \in Threads, NEW c \in Call,
         \/ GoesOn(t, c) /\ dir' = dir
         \/ /\ Begins(t, c) /\ ~(c.op = "rename" /\ c.outcome = LOG_SUCCESS)
            /\ dir' = dir \/ c.op \in EntryOps
  PROVE  KeepsRenames
<1>1. CASE GoesOn(t, c) /\ dir' = dir
  <2>1. /\ t \in InFlight /\ InFlight' = InFlight /\ call'[t] = c /\ c.op = call[t].op
        /\ \A u \in InFlight : u # t => call'[u] = call[u]
    BY <1>1, GoesOnChanges DEF SameRequest
  <2>2. c.op # "rename"
    <3>1. Formed(call[t]) /\ call[t].step # "store" /\ call[t] \in Call
      BY <1>1, <2>1, CallFacts DEF GoesOn
    <3> QED
      BY <2>1, <3>1 DEF Formed, Call, Steps, Creating
  <2> QED
    BY <1>1, <2>1, <2>2 DEF KeepsRenames, Renaming
<1>2. CASE Begins(t, c) /\ ~(c.op = "rename" /\ c.outcome = LOG_SUCCESS) /\ (dir' = dir \/ c.op \in EntryOps)
  <2>1. /\ t \notin InFlight /\ InFlight' = InFlight \cup {t} /\ call'[t] = c /\ Admitted(c)
        /\ \A u \in InFlight : u # t /\ call'[u] = call[u]
    BY <1>2, BeginsChanges
  <2>2. c.op \in EntryOps => \A u \in InFlight : call[u].op # "rename"
    BY <2>1, EntryIsAdmitted DEF EntryOps
  <2> QED
    BY <1>2, <2>1, <2>2 DEF KeepsRenames, Renaming
<1> QED
  BY <1>1, <1>2

\* A call that begins leaves the entries that those under way use.
LEMMA BeginsKeepsCall ==
  ASSUME TypeOK, CallsAreFormed, Descriptors, NEW t \in Threads, NEW c \in Call, Begins(t, c),
         \A d \in 1..MaxFds : fds[d] # NULL => fds'[d] = fds[d],
         \A p \in Paths : p \notin Entries(c) => dir'[p] = dir[p],
         NEW u \in InFlight, call[u].fd # NULL
  PROVE  KeepsCall(u)
<1>1. /\ Admitted(c) /\ call'[u] = call[u] /\ file' = file
  BY BeginsChanges
<1>2. call[u].fd \in 1..MaxFds /\ call[u].path \in Paths
  BY CallFacts DEF Call
<1>3. call[u].op # "release" => u \in Holders(call[u].fd)
  BY DEF Holders
<1>4. call[u].op # "release" => fds'[call[u].fd] = fds[call[u].fd]
  BY <1>2, <1>3 DEF Descriptors
<1>5. call[u].op = "open" => call[u].path \notin Entries(c)
  BY <1>1, EntryIsAdmitted DEF Uses
<1> QED
  BY <1>1, <1>2, <1>4, <1>5 DEF KeepsCall, SameRequest

\* A call that begins leaves the names, when the entries it changes are no open
\* file's and it finds its own.
LEMMA BeginsKeepsNames ==
  ASSUME IInv, NEW t \in Threads, NEW c \in Call, Begins(t, c),
         ~(c.op = "rename" /\ c.outcome = LOG_SUCCESS),
         dir' = dir \/ c.op \in EntryOps,
         \A d \in 1..MaxFds : fds[d] # NULL => fds'[d] = fds[d],
         \A p \in Paths : p \notin Entries(c) => dir'[p] = dir[p],
         \A f \in Handles : file[f] # NULL => dir'[file[f].path] = dir[file[f].path],
         KeepsKinds,
         c.fd # NULL => CallNamed(t)'
  PROVE  Names'
<1>0. TypeOK /\ CallsAreFormed /\ Descriptors /\ Names
  BY DEF IInv
<1>1. /\ t \notin InFlight /\ InFlight' = InFlight \cup {t} /\ call'[t] = c /\ Admitted(c)
      /\ \A u \in InFlight : u # t /\ call'[u] = call[u]
      /\ file' = file
  BY <1>0, BeginsChanges
<1>2. KeepsRenames
  BY <1>0, RenamesStay
<1>3. ASSUME NEW f \in Handles, file[f] # NULL
      PROVE  KeepsFile(f)
  <2>1. file[f].fd \in 1..MaxFds /\ fds[file[f].fd] = file[f].inode /\ file[f].inode # NULL
    BY <1>0, <1>3, NullAssumption DEF TypeOK, OpenFile, Names, FileNamed
  <2> QED
    BY <1>1, <1>3, <2>1 DEF KeepsFile
<1>4. ASSUME NEW u \in InFlight, call[u].fd # NULL
      PROVE  KeepsCall(u)
  BY <1>0, <1>4, BeginsKeepsCall
<1>5. \A u \in InFlight' : call'[u].fd # NULL => CallNamed(u)' \/ KeepsCall(u)
  BY <1>1, <1>4
<1>6. \A f \in Handles : file'[f] # NULL => file[f] # NULL /\ KeepsFile(f)
  BY <1>1, <1>3
<1> QED
  BY <1>0, <1>2, <1>5, <1>6, NamesStay

\* While no other entry changes, an open file has its name.
LEMMA OpenFileHasEntry ==
  ASSUME TypeOK, Names, NEW c, Admitted(c), c.op \in EntryOps, NEW f \in Handles, file[f] # NULL
  PROVE  /\ dir[file[f].path] = file[f].inode /\ file[f].inode # NULL
         /\ inode[file[f].inode].kind = "reg" /\ file[f].path \in Paths
<1>1. \A u \in Threads : ~Renaming(u, file[f].path)
  BY EntryIsAdmitted DEF EntryOps, Renaming
<1> QED
  BY <1>1, NullAssumption DEF Names, FileNamed, TypeOK, OpenFile

\* Attributes that change are no kinds, and inodes that are open stay.
LEMMA KindsStay ==
  ASSUME TypeOK, Backed, (\E c : Attributes(c)) \/ inode' = inode \/ inode' = Reclaimed(dir', fds')
  PROVE  KeepsKinds
<1> SUFFICES ASSUME NEW d \in 1..MaxFds, fds[d] # NULL, fds'[d] = fds[d]
             PROVE  inode'[fds[d]].kind = inode[fds[d]].kind
  BY DEF KeepsKinds
<1>1. fds[d] \in Inodes /\ inode[fds[d]] # NULL
  BY DEF TypeOK, Backed
<1> QED
  BY <1>1, ReclaimedType DEF Attributes

\* A call that goes on leaves the names, when all it closes is its descriptor.
LEMMA GoesOnKeepsNames ==
  ASSUME IInv, NEW t \in Threads, NEW c \in Call, GoesOn(t, c), dir' = dir, KeepsKinds,
         \/ fds' = fds /\ (c.fd # NULL => c.fd = call[t].fd)
         \/ /\ fds' = Closed(call[t].fd) /\ call[t].fd # NULL /\ call[t].op # "release"
            /\ c.fd = NULL
  PROVE  Names'
<1>0. TypeOK /\ CallsAreFormed /\ Descriptors /\ Names /\ t \notin Handles
  BY ActorsAssumption DEF IInv
<1>1. /\ t \in InFlight /\ InFlight' = InFlight /\ call'[t] = c /\ SameRequest(c, call[t])
      /\ \A u \in InFlight : u # t => call'[u] = call[u]
      /\ file' = file
  BY <1>0, GoesOnChanges
<1>2. ASSUME NEW d \in 1..MaxFds, NEW x \in Holders(d), x # t
      PROVE  fds'[d] = fds[d]
  <2>1. CASE fds' = Closed(call[t].fd) /\ call[t].fd # NULL /\ call[t].op # "release"
    <3>1. t \in Holders(call[t].fd) /\ call[t].fd \in 1..MaxFds
      BY <1>0, <1>1, <2>1, CallFacts DEF Holders
    <3>2. d # call[t].fd
      BY <1>0, <1>2, <3>1 DEF Descriptors
    <3> QED
      BY <1>0, <2>1, <3>2 DEF Closed, TypeOK
  <2> QED
    BY <2>1
<1>3. ASSUME NEW f \in Handles, file[f] # NULL
      PROVE  KeepsFile(f)
  <2>1. f # t /\ file[f].fd \in 1..MaxFds /\ f \in Holders(file[f].fd)
    BY <1>0, <1>3 DEF TypeOK, OpenFile, Holders
  <2> QED
    BY <1>1, <1>2, <2>1 DEF KeepsFile
<1>4. ASSUME NEW u \in InFlight, call'[u].fd # NULL
      PROVE  KeepsCall(u)
  <2>1. SameRequest(call'[u], call[u]) /\ call'[u].fd = call[u].fd /\ call[u].fd # NULL
    BY <1>1, <1>4 DEF SameRequest
  <2>2. call[u].fd \in 1..MaxFds /\ (call[u].op # "release" => u \in Holders(call[u].fd))
    BY <1>0, <2>1, CallFacts DEF Holders
  <2>3. call[u].op # "release" => fds'[call[u].fd] = fds[call[u].fd]
    BY <1>1, <1>2, <1>4, <2>2
  <2> QED
    BY <1>1, <2>1, <2>3 DEF KeepsCall
<1>5. KeepsRenames
  BY <1>0, RenamesStay
<1>6. \A u \in InFlight' : call'[u].fd # NULL => KeepsCall(u)
  BY <1>1, <1>4
<1>7. \A f \in Handles : file'[f] # NULL => file[f] # NULL /\ KeepsFile(f)
  BY <1>1, <1>3
<1> QED
  BY <1>0, <1>5, <1>6, <1>7, NamesStay

\* A rename moves the name of the files that are open under it.
LEMMA RenamesKeepsNames ==
  ASSUME IInv, NEW t \in Threads, NEW c \in Call, Renames(t, c)
  PROVE  Names'
<1>0. TypeOK /\ CallsAreFormed /\ Descriptors /\ Names /\ Backed
  BY DEF IInv
<1>1. /\ Begins(t, c) /\ c.op = "rename" /\ fds' = fds /\ inode' = Reclaimed(dir', fds')
      /\ c.fd = NULL /\ c.path \in Paths /\ c.other \in Paths
      /\ Entries(c) = {c.path, c.other} /\ c.op \in EntryOps
  BY DEF Renames, TakesNone, Begins, Formed, Call, Entries, EntryOps
<1>2. /\ t \notin InFlight /\ InFlight' = InFlight \cup {t} /\ call'[t] = c /\ Admitted(c)
      /\ \A u \in InFlight : u # t /\ call'[u] = call[u]
      /\ file' = file
  BY <1>0, <1>1, BeginsChanges
<1>3. KeepsKinds
  BY <1>0, <1>1, KindsStay
<1>4. CASE c.outcome # LOG_SUCCESS
  BY <1>1, <1>3, <1>4, BeginsKeepsNames DEF Renames
<1>5. CASE c.outcome = LOG_SUCCESS
  <2>1. \A p \in Paths : p # c.path /\ p # c.other => dir'[p] = dir[p]
    BY <1>0, <1>1, <1>5 DEF Renames, Moved, TypeOK
  <2>2. dir'[c.other] = dir[c.path] /\ c.path # c.other
    BY <1>0, <1>1, <1>2, <1>5 DEF Renames, Moved, TypeOK, Admitted
  <2>3. ASSUME NEW f \in Handles, file[f] # NULL
        PROVE  FileNamed(f)'
    <3>1. /\ dir[file[f].path] = file[f].inode /\ file[f].inode # NULL
          /\ inode[file[f].inode].kind = "reg" /\ file[f].path \in Paths
          /\ fds[file[f].fd] = file[f].inode /\ file[f].fd \in 1..MaxFds
      BY <1>0, <1>1, <1>2, <2>3, OpenFileHasEntry DEF Names, FileNamed, TypeOK, OpenFile
    <3>2. file[f].path # c.other
      BY <1>1, <1>2, <2>3 DEF Admitted, IsOpen
    <3>3. inode'[file[f].inode].kind = "reg"
      BY <1>1, <1>3, <3>1 DEF KeepsKinds
    <3>4. \A u \in InFlight : call[u].op # "rename"
      BY <1>1, <1>2, EntryIsAdmitted DEF EntryOps
    <3>5. file'[f] = file[f]
      BY <1>2
    <3>6. \A u \in Threads : Renaming(u, file[f].path)' <=> u = t /\ c.path = file[f].path
      BY <1>1, <1>2, <1>5, <3>4, <3>5 DEF Renaming
    <3>7. \/ dir'[file[f].path] = file[f].inode
          \/ c.path = file[f].path
      BY <2>1, <3>1, <3>2
    <3>8. c.path = file[f].path => dir'[call'[t].other] = file[f].inode
      BY <1>2, <2>2, <3>1
    <3> QED
      BY <1>1, <3>1, <3>3, <3>5, <3>6, <3>7, <3>8 DEF FileNamed
  <2>4. ASSUME NEW u \in InFlight, call[u].fd # NULL
        PROVE  KeepsCall(u)
    BY <1>0, <1>1, <2>1, <2>4, BeginsKeepsCall
  <2>5. \A u \in InFlight' : call'[u].fd # NULL => KeepsCall(u)
    BY <1>1, <1>2, <2>4
  <2>6. \A f \in Handles : file'[f] # NULL => FileNamed(f)'
    BY <1>2, <2>3
  <2> QED
    BY <1>0, <1>3, <2>5, <2>6, NamesStay
<1> QED
  BY <1>4, <1>5

\* A reply that changes no entry leaves the renames that run, if it is none.
LEMMA ReplyKeepsRenames ==
  ASSUME TypeOK, NEW t \in Threads, Ready(t), Reply(t), dir' = dir,
         call[t].op = "rename" => call[t].outcome # LOG_SUCCESS
  PROVE  KeepsRenames
<1>1. /\ t \in InFlight /\ InFlight' = InFlight \ {t}
      /\ \A u \in InFlight' : u # t /\ u \in InFlight /\ call'[u] = call[u]
  BY ReplyChanges
<1> QED
  BY <1>1 DEF KeepsRenames, Renaming

\* open gives the handle the name that the call found.
LEMMA OpenReplyKeepsNames ==
  ASSUME IInv, NEW t \in Threads, openReply(t)
  PROVE  Names'
<1>0. /\ TypeOK /\ CallsAreFormed /\ Descriptors /\ Names /\ HandlesInUse /\ Exclusive
  BY DEF IInv
<1>1. PICK d \in 1..MaxFds, f \in Handles, new \in OpenFile :
        /\ Ready(t) /\ Reply(t) /\ UNCHANGED <<fs, fds>>
        /\ t \in InFlight /\ call[t].op = "open" /\ call[t].fd = d /\ call[t].file = f
        /\ t \in Holders(d) /\ fds[d] # NULL /\ file[f] = NULL
        /\ new.path = call[t].path /\ new.fd = d /\ new.inode = fds[d]
        /\ new # NULL /\ file' = [file EXCEPT ![f] = new]
  BY <1>0, OpenReplyFile
<1>2. file'[f] = new /\ \A g \in Handles : g # f => file'[g] = file[g]
  BY <1>0, <1>1 DEF TypeOK
<1>3. /\ InFlight' = InFlight \ {t} /\ dir' = dir /\ inode' = inode /\ fds' = fds
      /\ \A u \in InFlight' : u # t /\ u \in InFlight /\ call'[u] = call[u]
  BY <1>0, <1>1, ReplyChanges DEF fs
<1>4. KeepsRenames
  BY <1>0, <1>1, <1>3, ReplyKeepsRenames
<1>5. dir[call[t].path] = fds[d] /\ inode[fds[d]].kind = "reg"
  BY <1>0, <1>1, NullAssumption DEF Names, CallNamed
<1>6. \A u \in Threads : ~Renaming(u, new.path)'
  <2>1. SUFFICES ASSUME NEW u \in InFlight', call[u].op = "rename", call[u].path = new.path
                 PROVE  FALSE
    BY <1>3 DEF Renaming
  <2>2. u # t /\ u \in InFlight
    BY <1>3
  <2>3. call[t].path \in Entries(call[u]) /\ call[t].path \in Uses(call[t])
    BY <1>1, <2>1 DEF Entries, Uses
  <2> QED
    BY <1>0, <1>1, <2>2, <2>3 DEF Exclusive, Compatible
<1>7. FileNamed(f)'
  <2>1. file'[f] = new /\ new.path = call[t].path /\ new.fd = d /\ new.inode = fds[d]
    BY <1>1, <1>2
  <2>2. \A u \in Threads : ~Renaming(u, file[f].path)'
    BY <1>6, <2>1 DEF Renaming
  <2> QED
    BY <1>3, <1>5, <2>1, <2>2 DEF FileNamed
<1>8. \A g \in Handles : g # f /\ file'[g] # NULL => file[g] # NULL /\ KeepsFile(g)
  BY <1>2, <1>3 DEF KeepsFile
<1>9. ASSUME NEW u \in InFlight'
      PROVE  KeepsCall(u)
  <2>1. call[u].op = "write" => call[u].file \in Handles
    BY <1>0, <1>3, CallFacts DEF OnFiles
  <2>2. call[u].op = "write" /\ file[call[u].file] # NULL => file'[call[u].file] = file[call[u].file]
    BY <1>1, <1>2, <2>1
  <2> QED
    BY <1>3, <2>2 DEF KeepsCall, SameRequest
<1>10. KeepsKinds
  BY <1>3 DEF KeepsKinds
<1> QED
  BY <1>0, <1>4, <1>7, <1>8, <1>9, <1>10, NamesStay

\* A reply that closes a descriptor closes that of no other file or call.
LEMMA CloseReplyKeepsNames ==
  ASSUME IInv, NEW t \in Threads, writeReply(t) \/ releaseReply(t)
  PROVE  Names'
<1>0. /\ TypeOK /\ CallsAreFormed /\ Descriptors /\ Names /\ HandlesInUse /\ Exclusive /\ Backed
      /\ t \notin Handles
  BY ActorsAssumption DEF IInv
<1>1. /\ Ready(t) /\ Reply(t) /\ t \in InFlight /\ call[t].op \in {"write", "release"}
      /\ call[t].op = "write" => call[t].fd # NULL
      /\ fds' = Closed(call[t].fd) /\ dir' = dir /\ inode' = Reclaimed(dir', fds')
      /\ file' = IF call[t].op = "release" THEN [file EXCEPT ![call[t].file] = NULL] ELSE file
  BY DEF writeReply, releaseReply, Ready, At, InFlight
<1>2. /\ InFlight' = InFlight \ {t}
      /\ \A u \in InFlight' : u # t /\ u \in InFlight /\ call'[u] = call[u]
  BY <1>0, <1>1, ReplyChanges
<1>3. call[t].fd # NULL /\ call[t].file \in Handles
  BY <1>0, <1>1, CallFacts DEF Formed, OnFiles
<1>4. PICK d \in 1..MaxFds, f \in Handles : d = call[t].fd /\ f = call[t].file
  BY <1>0, <1>1, <1>3, CallFacts
<1>5. PICK x \in Holders(d) : x = IF call[t].op = "release" THEN f ELSE t
  BY <1>0, <1>1, <1>4 DEF Holders, HandlesInUse
<1>6. /\ \A n \in 1..MaxFds : n # d => fds'[n] = fds[n]
      /\ \A g \in Handles : file'[g] = IF call[t].op = "release" /\ g = f THEN NULL ELSE file[g]
  BY <1>0, <1>1, <1>4 DEF Closed, TypeOK
<1>7. ASSUME NEW g \in Handles, file'[g] # NULL
      PROVE  file[g] # NULL /\ KeepsFile(g)
  <2>1. file[g] # NULL /\ file'[g] = file[g] /\ g # x
    BY <1>0, <1>5, <1>6, <1>7
  <2>2. file[g].fd \in 1..MaxFds /\ g \in Holders(file[g].fd)
    BY <1>0, <2>1 DEF TypeOK, OpenFile, Holders
  <2>3. file[g].fd # d
    BY <1>0, <1>5, <2>1, <2>2 DEF Descriptors
  <2> QED
    BY <1>1, <1>6, <2>1, <2>2, <2>3 DEF KeepsFile
<1>8. ASSUME NEW u \in InFlight', call'[u].fd # NULL
      PROVE  KeepsCall(u)
  <2>1. u # t /\ u \in InFlight /\ call'[u] = call[u] /\ call[u].fd \in 1..MaxFds /\ u # x
    BY <1>0, <1>2, <1>5, <1>8, CallFacts, ActorsAssumption DEF InFlight
  <2>2. call[u].op \in {"open", "write"} => fds'[call[u].fd] = fds[call[u].fd]
    BY <1>0, <1>5, <1>6, <2>1 DEF Descriptors, Holders
  <2>3. call[u].op = "write" => file'[call[u].file] = file[call[u].file]
    <3>1. call[u].op = "write" => call[u].file \in Handles
      BY <1>0, <2>1, CallFacts DEF OnFiles
    <3>2. call[u].op = "write" /\ call[t].op = "release" => call[u].file # f
      BY <1>0, <1>1, <1>4, <2>1, HandleIsExclusive DEF OnFiles
    <3> QED
      BY <1>6, <3>1, <3>2
  <2> QED
    BY <1>1, <2>1, <2>2, <2>3 DEF KeepsCall, SameRequest
<1>9. KeepsRenames
  BY <1>0, <1>1, ReplyKeepsRenames
<1>10. KeepsKinds
  BY <1>0, <1>1, KindsStay
<1> QED
  BY <1>0, <1>7, <1>8, <1>9, <1>10, NamesStay

\* The end of a rename gives the files that were open under it the new path.
LEMMA RenameReplyKeepsNames ==
  ASSUME IInv, NEW t \in Threads, renameReply(t)
  PROVE  Names'
<1>0. TypeOK /\ CallsAreFormed /\ Descriptors /\ Names /\ Exclusive
  BY DEF IInv
<1>1. /\ Ready(t) /\ Reply(t) /\ dir' = dir /\ inode' = inode /\ fds' = fds
      /\ t \in InFlight /\ call[t].op = "rename" /\ call[t].outcome = LOG_SUCCESS
  BY DEF renameReply, Ready, At, InFlight, fs
<1>2. /\ InFlight' = InFlight \ {t}
      /\ \A u \in InFlight' : u # t /\ u \in InFlight /\ call'[u] = call[u]
  BY <1>0, <1>1, ReplyChanges
<1>3. \A u \in InFlight : u # t => call[u].op # "rename"
  BY <1>0, <1>1, EntryIsExclusive DEF EntryOps
<1>4. \A u \in Threads : \A p : Renaming(u, p) <=> u = t /\ p = call[t].path
  BY <1>1, <1>3 DEF Renaming
<1>5. ASSUME NEW f \in Handles, file'[f] # NULL
      PROVE  FileNamed(f)'
  <2>1. /\ file[f] # NULL /\ file'[f].fd = file[f].fd /\ file'[f].inode = file[f].inode
        /\ file'[f].path = IF file[f].path = call[t].path THEN call[t].other ELSE file[f].path
    BY <1>0, <1>5, RenamedFiles
  <2>2. /\ fds[file[f].fd] = file[f].inode
        /\ inode[file[f].inode].kind = "reg"
        /\ dir[file[f].path] = file[f].inode \/ file[f].path = call[t].path
        /\ file[f].path = call[t].path => dir[call[t].other] = file[f].inode
    BY <1>0, <1>4, <2>1 DEF Names, FileNamed
  <2>3. dir[file'[f].path] = file[f].inode
    BY <2>1, <2>2
  <2>4. \A u \in Threads : ~Renaming(u, file[f].path)'
    BY <1>2, <1>3 DEF Renaming
  <2> QED
    BY <1>1, <2>1, <2>2, <2>3, <2>4 DEF FileNamed
<1>6. ASSUME NEW u \in InFlight'
      PROVE  KeepsCall(u)
  <2>1. call[u].op = "write" => call[u].file \in Handles
    BY <1>0, <1>2, CallFacts DEF OnFiles
  <2> QED
    BY <1>0, <1>1, <1>2, <2>1, RenamedFiles DEF KeepsCall, SameRequest
<1>7. KeepsKinds
  BY <1>1 DEF KeepsKinds
<1> QED
  BY <1>0, <1>5, <1>6, <1>7, NamesStay

\* The names of open files lead to their inodes, whatever a step does.
LEMMA NamesStep ==
  ASSUME IInv, NEW t \in Threads, Step(t)
  PROVE  Names'
<1>0. /\ TypeOK /\ CallsAreFormed /\ Descriptors /\ Names /\ Backed /\ NewEntries
      /\ NULL \notin 1..MaxFds
  BY NullAssumption DEF IInv
<1>a. \A f \in Handles : file[f] # NULL => file[f].path \in Paths /\ file[f].inode # NULL
  BY <1>0, NullAssumption DEF TypeOK, OpenFile
<1>1. ASSUME NEW c \in Call, Quiet(t, c)
      PROVE  Names'
  <2>1. /\ Begins(t, c) /\ c.fd = NULL /\ dir' = dir /\ fds' = fds /\ Attributes(c)
        /\ ~(c.op = "rename" /\ c.outcome = LOG_SUCCESS)
    BY <1>1 DEF Quiet, TakesNone, LOG_SUCCESS, LOG_UNSUCCESS
  <2>2. KeepsKinds
    BY <1>0, <2>1, KindsStay
  <2> QED
    BY <2>1, <2>2, BeginsKeepsNames
<1>2. ASSUME NEW c \in Call, Opens(t, c)
      PROVE  Names'
  <2>1. PICK d \in 1..MaxFds, i \in Inodes :
          /\ d = c.fd /\ i = dir[c.path] /\ fds[d] = NULL /\ fds' = [fds EXCEPT ![d] = i]
    BY <1>0, <1>2 DEF Opens, TakesFd, Call, TypeOK
  <2>2. fds'[d] = i /\ \A n \in 1..MaxFds : fds[n] # NULL => fds'[n] = fds[n]
    BY <1>0, <2>1 DEF TypeOK
  <2>3. /\ Begins(t, c) /\ c.op \in {"open", "readdir", "write"} /\ dir' = dir /\ inode' = inode
        /\ c.op = "open" => inode[i].kind = "reg"
        /\ c.op = "write" => file[c.file] # NULL /\ file[c.file].path = c.path
    BY <1>2, <2>1 DEF Opens, fs
  <2>4. /\ call'[t] = c /\ file' = file /\ Admitted(c) /\ c.path \in Uses(c)
        /\ c.op = "write" => c.file \in Handles
    BY <1>0, <2>3, BeginsChanges DEF Uses, Formed, OnFiles, Call
  <2>5. c.op = "write" => i = file[c.file].inode
    <3>1. \A u \in InFlight : c.path \notin Entries(call[u])
      BY <2>4, EntryIsAdmitted
    <3>2. \A u \in Threads : ~Renaming(u, c.path)
      BY <3>1 DEF Renaming, Entries
    <3> QED
      BY <1>0, <2>1, <2>3, <2>4, <3>2 DEF Names, FileNamed
  <2>6. CallNamed(t)'
    BY <2>1, <2>2, <2>3, <2>4, <2>5 DEF CallNamed
  <2>7. KeepsKinds
    BY <1>0, <2>3, KindsStay
  <2> QED
    BY <2>2, <2>3, <2>6, <2>7, BeginsKeepsNames
<1>3. ASSUME NEW c \in Call, BeginsRelease(t, c)
      PROVE  Names'
  <2>1. Begins(t, c) /\ c.op = "release" /\ dir' = dir /\ inode' = inode /\ fds' = fds
    BY <1>3 DEF BeginsRelease, fs
  <2>2. call'[t] = c
    BY <1>0, <2>1, BeginsChanges
  <2>3. CallNamed(t)'
    BY <2>1, <2>2 DEF CallNamed
  <2>4. KeepsKinds
    BY <1>0, <2>1, KindsStay
  <2> QED
    BY <2>1, <2>3, <2>4, BeginsKeepsNames
<1>b. ASSUME NEW c \in Call, Begins(t, c), c.op \in EntryOps \ {"rename"}, KeepsKinds,
             \A d \in 1..MaxFds : fds[d] # NULL => fds'[d] = fds[d],
             NEW p \in Paths, Entries(c) = {p},
             \A q \in Paths : q # p => dir'[q] = dir[q],
             dir'[p] = dir[p] \/ ~(\E f \in Handles : file[f] # NULL /\ file[f].path = p)
      PROVE  Names'
  <2>1. call'[t] = c
    BY <1>0, <1>b, BeginsChanges
  <2>2. CallNamed(t)'
    BY <1>b, <2>1 DEF CallNamed, EntryOps
  <2>3. \A f \in Handles : file[f] # NULL => dir'[file[f].path] = dir[file[f].path]
    BY <1>a, <1>b
  <2>4. /\ c.op \in EntryOps /\ c.op # "rename"
        /\ \A q \in Paths : q \notin Entries(c) => dir'[q] = dir[q]
    BY <1>b
  <2> QED
    BY <1>b, <2>2, <2>3, <2>4, BeginsKeepsNames
<1>c. ASSUME NEW c \in Call, Begins(t, c), c.op \in EntryOps, NEW f \in Handles, file[f] # NULL
      PROVE  /\ dir[file[f].path] = file[f].inode /\ dir[file[f].path] # NULL
             /\ inode[dir[file[f].path]].kind = "reg"
  <2>1. Admitted(c)
    BY <1>c DEF Begins
  <2> QED
    BY <1>0, <1>c, <2>1, OpenFileHasEntry
<1>4. ASSUME NEW c \in Call, Makes(t, c)
      PROVE  Names'
  <2>1. PICK i \in FreeInodes, kind \in {"reg", "dir", "symlink", "fifo"} :
          Create(c.path, kind, i) /\ (TakesNone(c) \/ TakesFd(c, i))
    BY <1>4 DEF Makes
  <2>2. /\ Begins(t, c) /\ c.op \in EntryOps \ {"rename"} /\ c.path \in Paths
        /\ Entries(c) = {c.path} /\ dir[c.path] = NULL
    BY <1>4 DEF Makes, Creating, EntryOps, Entries, Call
  <2>3. \A q \in Paths : q # c.path => dir'[q] = dir[q]
    BY <1>0, <2>1 DEF Create, TypeOK
  <2>4. \A d \in 1..MaxFds : fds[d] # NULL => fds'[d] = fds[d]
    BY <1>0, <2>1 DEF TakesNone, TakesFd, TypeOK
  <2>5. KeepsKinds
    <3>1. \A k \in Inodes : inode[k] # NULL => inode'[k] = inode[k]
      BY <1>0, <2>1 DEF Create, TypeOK, FreeInodes
    <3> QED
      BY <1>0, <3>1 DEF KeepsKinds, Backed, TypeOK
  <2>6. ~(\E f \in Handles : file[f] # NULL /\ file[f].path = c.path)
    BY <1>c, <2>2
  <2> QED
    BY <1>b, <2>2, <2>3, <2>4, <2>5, <2>6
<1>5. ASSUME NEW c \in Call, Links(t, c)
      PROVE  Names'
  <2>1. /\ Begins(t, c) /\ c.op \in EntryOps \ {"rename"} /\ c.other \in Paths
        /\ Entries(c) = {c.other} /\ dir[c.other] = NULL /\ fds' = fds /\ inode' = inode
    BY <1>5 DEF Links, EntryOps, Entries, Begins, Formed, TakesNone
  <2>2. \A q \in Paths : q # c.other => dir'[q] = dir[q]
    BY <1>0, <1>5 DEF Links, TypeOK
  <2>3. KeepsKinds
    BY <1>0, <2>1, KindsStay
  <2>4. ~(\E f \in Handles : file[f] # NULL /\ file[f].path = c.other)
    BY <1>c, <2>1
  <2> QED
    BY <1>b, <2>1, <2>2, <2>3, <2>4
<1>6. ASSUME NEW c \in Call, Removes(t, c)
      PROVE  Names'
  <2>1. /\ Begins(t, c) /\ c.op \in EntryOps \ {"rename"} /\ c.path \in Paths
        /\ Entries(c) = {c.path} /\ fds' = fds /\ inode' = Reclaimed(dir', fds')
    BY <1>6 DEF Removes, EntryOps, Entries, TakesNone, Call
  <2>2. \A q \in Paths : q # c.path => dir'[q] = dir[q]
    BY <1>0, <1>6 DEF Removes, TypeOK
  <2>3. KeepsKinds
    BY <1>0, <2>1, KindsStay
  <2>4. ASSUME dir' # dir, NEW f \in Handles, file[f] # NULL, file[f].path = c.path
        PROVE  FALSE
    <3>1. c.op = "rmdir" => inode[dir[c.path]].kind = "dir"
      BY <1>6, <2>4 DEF Removes
    <3>2. c.op = "unlink" => ~IsOpen(c.path)
      BY <2>1 DEF Begins, Admitted
    <3>3. inode[dir[c.path]].kind = "reg"
      BY <1>c, <2>1, <2>4
    <3> QED
      BY <1>6, <2>4, <3>1, <3>2, <3>3 DEF Removes, IsOpen
  <2>5. dir'[c.path] = dir[c.path] \/ ~(\E f \in Handles : file[f] # NULL /\ file[f].path = c.path)
    BY <2>4
  <2> QED
    BY <1>b, <2>1, <2>2, <2>3, <2>5
<1>7. ASSUME NEW c \in Call, Renames(t, c)
      PROVE  Names'
  BY <1>7, RenamesKeepsNames
<1>8. ASSUME NEW c \in Call, Closes(t, c)
      PROVE  Names'
  <2>1. /\ GoesOn(t, c) /\ dir' = dir /\ inode' = inode /\ fds' = Closed(call[t].fd)
        /\ call[t].fd # NULL /\ call[t].op # "release" /\ c.fd = NULL
    BY <1>8 DEF Closes, fs, GoesOn, SameRequest
  <2>2. KeepsKinds
    BY <1>0, <2>1, KindsStay
  <2> QED
    BY <2>1, <2>2, GoesOnKeepsNames
<1>9. ASSUME NEW c \in Call, HandsOver(t, c)
      PROVE  Names'
  <2>1. GoesOn(t, c) /\ dir' = dir /\ fds' = fds /\ c.fd = NULL
    BY <1>9 DEF HandsOver
  <2>2. PICK i \in Inodes :
          /\ inode[i] \in Inode
          /\ inode' = IF c.entry = "given" THEN [inode EXCEPT ![i] = [inode[i] EXCEPT !.owner = c.user]]
                      ELSE inode
    BY <1>0, <1>9, HandsOverOne
  <2>3. \A k \in Inodes : inode'[k].kind = inode[k].kind
    BY <1>0, <2>2 DEF TypeOK, Inode
  <2>4. KeepsKinds
    BY <1>0, <2>3 DEF KeepsKinds, TypeOK
  <2> QED
    BY <2>1, <2>4, GoesOnKeepsNames
<1>10. ASSUME NEW c \in Call, Writes(t, c)
       PROVE  Names'
  <2>1. GoesOn(t, c) /\ dir' = dir /\ fds' = fds /\ c.fd = call[t].fd /\ Attributes(c)
    BY <1>10 DEF Writes
  <2>2. KeepsKinds
    BY <1>0, <2>1, KindsStay
  <2> QED
    BY <2>1, <2>2, GoesOnKeepsNames
<1>11. CASE Store_In_Hash(t)
  <2>1. PICK c \in Call :
          /\ t \in InFlight /\ InFlight' = InFlight
          /\ call'[t] = c /\ \A u \in InFlight : u # t => call'[u] = call[u]
          /\ SameRequest(c, call[t]) /\ c.outcome = call[t].outcome /\ c.fd = call[t].fd
          /\ dir' = dir /\ inode' = inode /\ fds' = fds /\ file' = file
    BY <1>0, <1>11, StoreChanges DEF fs
  <2>2. \A u \in InFlight' : KeepsCall(u)
    BY <2>1 DEF KeepsCall, SameRequest
  <2>3. KeepsRenames
    BY <2>1 DEF KeepsRenames, Renaming, SameRequest
  <2>4. KeepsKinds
    BY <2>1 DEF KeepsKinds
  <2>5. \A f \in Handles : file'[f] # NULL => file[f] # NULL /\ KeepsFile(f)
    BY <2>1 DEF KeepsFile
  <2> QED
    BY <1>0, <2>2, <2>3, <2>4, <2>5, NamesStay
<1>12. CASE otherReply(t)
  <2>1. /\ Ready(t) /\ Reply(t) /\ dir' = dir /\ inode' = inode /\ fds' = fds /\ file' = file
        /\ call[t].op = "rename" => call[t].outcome # LOG_SUCCESS
    BY <1>12 DEF otherReply, fs, LOG_SUCCESS, LOG_UNSUCCESS
  <2>2. \A u \in InFlight' : u \in InFlight /\ call'[u] = call[u]
    BY <1>0, <2>1, ReplyChanges
  <2>3. \A u \in InFlight' : KeepsCall(u)
    BY <2>1, <2>2 DEF KeepsCall, SameRequest
  <2>4. KeepsRenames
    BY <1>0, <2>1, ReplyKeepsRenames
  <2>5. KeepsKinds
    BY <2>1 DEF KeepsKinds
  <2>6. \A f \in Handles : file'[f] # NULL => file[f] # NULL /\ KeepsFile(f)
    BY <2>1 DEF KeepsFile
  <2> QED
    BY <1>0, <2>3, <2>4, <2>5, <2>6, NamesStay
<1> QED
  BY <1>1, <1>2, <1>3, <1>4, <1>5, <1>6, <1>7, <1>8, <1>9, <1>10, <1>11, <1>12,
     OpenReplyKeepsNames, CloseReplyKeepsNames, RenameReplyKeepsNames DEF Step

-----------------------------------------------------------------------------
(***************************************************************************)
(* The theorems.                                                           *)
(***************************************************************************)
\* When the mount begins no call runs, no descriptor is open and the log is
\* empty.
LEMMA InitInv ==
  ASSUME Init
  PROVE  IInv
<1>1. InFlight = {}
  BY DEF Init, InFlight
<1>2. TypeOK
  <2>1. NewFile("reg", Daemon) \in Inode
    BY NewFileType
  <2>2. dir \in [Paths -> Inodes \cup {NULL}] /\ inode \in [Inodes -> Inode \cup {NULL}]
    BY <2>1, MountedAssumption DEF Init
  <2>3. /\ fds \in [1..MaxFds -> Inodes \cup {NULL}] /\ file \in [Handles -> OpenFile \cup {NULL}]
        /\ call \in [Threads -> Call \cup {NULL}]
    BY DEF Init
  <2>4. IsLog(log) /\ IsLog(owed)
    BY DEF Init, IsLog, EmptyLog
  <2>5. calls \in 0..MaxCalls
    BY BoundsAssumption DEF Init
  <2> QED
    BY <2>2, <2>3, <2>4, <2>5 DEF TypeOK
<1>3. CallsAreFormed /\ Exclusive /\ HandlesInUse /\ NewEntries
  BY <1>1 DEF CallsAreFormed, Exclusive, HandlesInUse, NewEntries
<1>4. Descriptors
  <2>1. \A d \in 1..MaxFds : fds[d] = NULL /\ Holders(d) = {}
    BY <1>1 DEF Init, Holders
  <2> QED
    BY <2>1 DEF Descriptors
<1>5. Names
  BY <1>1 DEF Init, Names
<1>6. Backed
  <2>1. NewFile("reg", Daemon) # NULL
    BY NewFileType, NullAssumption
  <2>2. \A p \in Paths : dir[p] # NULL => inode[dir[p]] # NULL
    BY <2>1, MountedAssumption DEF Init
  <2> QED
    BY <2>2 DEF Init, Backed
<1>7. LogIsExact
  <2>1. \A p : EntriesFor(p) = {}
    BY <1>1 DEF EntriesFor
  <2>2. Cardinality({}) = 0
    BY FS_EmptySet
  <2>3. \A p : CountIn(log, p) = 0 /\ CountIn(owed, p) = 0 /\ FlagsIn(log, p) = {} /\ FlagsIn(owed, p) = {}
    BY DEF Init, CountIn, FlagsIn, EmptyLog
  <2>4. \A p : {call[e[1]].op : e \in EntriesFor(p)} = {}
    BY <2>1
  <2> QED
    BY <2>1, <2>2, <2>3, <2>4 DEF LogIsExact
<1> QED
  BY <1>2, <1>3, <1>4, <1>5, <1>6, <1>7 DEF IInv

\* A state that repeats keeps the invariant.
LEMMA StutterInv ==
  ASSUME IInv, UNCHANGED vars
  PROVE  IInv'
<1>0. /\ dir' = dir /\ inode' = inode /\ fds' = fds /\ file' = file /\ log' = log
      /\ call' = call /\ calls' = calls /\ owed' = owed
  BY DEF vars
<1>1. InFlight' = InFlight
  BY <1>0 DEF InFlight
<1>2. TypeOK'
  BY <1>0 DEF IInv, TypeOK, IsLog
<1>3. CallsAreFormed' /\ Exclusive' /\ HandlesInUse' /\ NewEntries' /\ Backed'
  BY <1>0, <1>1 DEF IInv, CallsAreFormed, Exclusive, HandlesInUse, NewEntries, Backed
<1>4. Descriptors'
  <2>1. \A d \in 1..MaxFds : Holders(d)' = Holders(d)
    BY <1>0, <1>1 DEF Holders
  <2> QED
    BY <1>0, <2>1 DEF IInv, Descriptors
<1>5. Names'
  BY <1>0, <1>1 DEF IInv, Names, FileNamed, CallNamed, Renaming
<1>6. LogIsExact'
  <2>1. \A p \in LogPaths : EntriesFor(p)' = EntriesFor(p)
    BY <1>0, <1>1 DEF EntriesFor
  <2> QED
    BY <1>0, <2>1 DEF IInv, LogIsExact
<1> QED
  BY <1>2, <1>3, <1>4, <1>5, <1>6 DEF IInv

\* The invariant is inductive.
LEMMA NextInv ==
  ASSUME IInv, [Next]_vars
  PROVE  IInv'
<1>1. CASE UNCHANGED vars
  BY <1>1, StutterInv
<1>2. ASSUME NEW t \in Threads, Step(t)
      PROVE  IInv'
  <2>1. TypeOK /\ CallsAreFormed /\ Exclusive
    BY DEF IInv
  <2> QED
    BY <1>2, <2>1, TypeStep, CallsStep, ExclusiveStep, DescriptorsStep, HandlesInUseStep,
       NamesStep, BackedStep, NewEntriesStep, LogStep DEF IInv
<1>3. TypeOK /\ CallsAreFormed /\ Descriptors /\ Backed
  BY DEF IInv
<1> QED
  BY <1>1, <1>2, <1>3, NextIsStep

\* The inductive invariant holds in every state of every mount.
THEOREM Invariance == Spec => []IInv
<1>1. Init => IInv
  BY InitInv
<1>2. IInv /\ [Next]_vars => IInv'
  BY NextInv
<1> QED
  BY <1>1, <1>2, PTL DEF Spec

\* Every variable holds what the code and the kernel may put there.
THEOREM TypeCorrect == Spec => []TypeOK
<1>1. IInv => TypeOK
  BY DEF IInv
<1> QED
  BY <1>1, Invariance, PTL

\* Every descriptor that is open has one owner, an open file of the kernel or a
\* call that runs, and one that is not has none: no handler leaks a descriptor
\* on any path through it, closes one twice or closes one that is not its own.
THEOREM DescriptorsAreOwned == Spec => []OneOwnerPerFd
<1>1. IInv => OneOwnerPerFd
  <2> SUFFICES ASSUME IInv, NEW d \in 1..MaxFds
               PROVE  Cardinality(Holders(d)) = (IF fds[d] = NULL THEN 0 ELSE 1)
    BY DEF OneOwnerPerFd
  <2>1. /\ fds[d] = NULL <=> Holders(d) = {}
        /\ \A x, y \in Holders(d) : x = y
    BY DEF IInv, Descriptors
  <2>2. CASE fds[d] = NULL
    BY <2>1, <2>2, FS_EmptySet
  <2>3. CASE fds[d] # NULL
    <3>1. PICK x : x \in Holders(d)
      BY <2>1, <2>3
    <3>2. Holders(d) = {x}
      BY <2>1, <3>1
    <3> QED
      BY <2>3, <3>2, FS_Singleton
  <2> QED
    BY <2>2, <2>3
<1> QED
  BY <1>1, Invariance, PTL

\* read, which uses fi->fh, and write, which opens the path again, reach the
\* inode that was opened, whatever is renamed, linked or removed meanwhile.
THEOREM OpenFilesAreOneInode == Spec => []OpenFileIsOneInode
<1>1. IInv => OpenFileIsOneInode
  <2> SUFFICES ASSUME IInv, NEW f \in Handles, file[f] # NULL
               PROVE  /\ fds[file[f].fd] = file[f].inode
                      /\ \/ dir[file[f].path] = file[f].inode
                         \/ \E t \in InFlight : call[t].op = "rename" /\ call[t].path = file[f].path
                      /\ \A t \in InFlight :
                           call[t].op = "write" /\ call[t].file = f /\ call[t].fd # NULL
                             => fds[call[t].fd] = file[f].inode
    BY DEF OpenFileIsOneInode
  <2>1. FileNamed(f) /\ \A t \in InFlight : call[t].fd # NULL => CallNamed(t)
    BY DEF IInv, Names
  <2> QED
    BY <2>1 DEF FileNamed, CallNamed, Renaming
<1> QED
  BY <1>1, Invariance, PTL

\* At every moment the counters and flags of the log are those of the calls
\* that have returned and of the entries that running calls have made.
THEOREM TheLogIsExact == Spec => []LogIsExact
<1>1. IInv => LogIsExact
  BY DEF IInv
<1> QED
  BY <1>1, Invariance, PTL

\* When a call that makes an entry gets to the log, the entry is where the call
\* has made it, and belongs to who asked for it: unless lchown has failed, whose
\* result no handler looks at, or the call has failed in close, after it had
\* made the entry.  Then it belongs to the monitor's user.
THEOREM NewEntriesBelong == Spec => []CreatorOwns
<1>1. IInv => CreatorOwns
  <2>1. ASSUME IInv, NEW t \in InFlight, call[t].op \in Creating, call[t].step = "store"
        PROVE  /\ call[t].outcome = LOG_SUCCESS <=> call[t].entry \in {"given", "kept"}
               /\ call[t].entry # NULL =>
                    /\ Exists(call[t].path)
                    /\ inode[dir[call[t].path]].owner =
                         IF call[t].entry = "given" THEN call[t].user ELSE Daemon
    <3>1. Formed(call[t]) /\ NewEntries
      BY <2>1 DEF IInv, CallsAreFormed
    <3> QED
      BY <2>1, <3>1 DEF Formed, NewEntries, Exists
  <2> QED
    BY <2>1 DEF CreatorOwns, Creating
<1> QED
  BY <1>1, Invariance, PTL

\* An open that returns a handle has made its entries in the log.
LEMMA OpenIsLoggedStep ==
  ASSUME IInv, NEW t \in Threads, Step(t), NEW f \in Handles, file[f] = NULL, file'[f] # NULL,
         should_log("open", LOG_SUCCESS), LoggedPath(file'[f].path)
  PROVE  "open" \in FlagsIn(log, file'[f].path)
<1>0. /\ TypeOK /\ CallsAreFormed /\ Descriptors /\ HandlesInUse /\ LogIsExact
  BY DEF IInv
<1>1. openReply(t)
  <2>1. CASE file' = file
    BY <2>1
  <2>2. CASE releaseReply(t)
    BY <1>0, <2>2 DEF releaseReply, TypeOK
  <2>3. CASE renameReply(t)
    BY <1>0, <2>3, RenamedFiles
  <2>4. file' = file \/ openReply(t) \/ releaseReply(t) \/ renameReply(t)
    BY StepKinds DEF Step, Begins, GoesOn, Quiet, Opens, BeginsRelease, Makes, Links, Removes,
       Renames, Closes, HandsOver, Writes, Store_In_Hash, writeReply, otherReply
  <2> QED
    BY <2>1, <2>2, <2>3, <2>4
<1>2. PICK d \in 1..MaxFds, g \in Handles, new \in OpenFile :
        /\ Ready(t) /\ t \in InFlight /\ call[t].op = "open" /\ call[t].fd = d
        /\ new.path = call[t].path /\ file' = [file EXCEPT ![g] = new]
  BY <1>0, <1>1, OpenReplyFile
<1>3. file'[f] = new
  BY <1>0, <1>2 DEF TypeOK
<1>4. /\ call[t] \in Call /\ call[t].outcome = LOG_SUCCESS /\ call[t].step = "store"
      /\ call[t].todo = << >> /\ call[t].path \in LogPaths /\ call[t].other = NULL
  BY <1>0, <1>2, CallFacts, NullAssumption DEF Formed, Ready, At, Call, LogPaths
<1>5. Due(call[t]) = <<call[t].path>>
  BY <1>2, <1>4 DEF Due, Named
<1>6. 1 \in DueFor(call[t], call[t].path) /\ 1 <= Len(Due(call[t])) - Len(call[t].todo)
  BY <1>2, <1>3, <1>4, <1>5 DEF DueFor
<1>7. <<t, 1>> \in EntriesFor(call[t].path)
  BY <1>2, <1>4, <1>6, 1 \in 1..2, EntriesOf DEF Made
<1>8. call[<<t, 1>>[1]].op = "open"
  BY <1>2
<1>9. "open" \in {call[e[1]].op : e \in EntriesFor(call[t].path)}
  BY <1>7, <1>8
<1> QED
  BY <1>0, <1>2, <1>3, <1>4, <1>9 DEF LogIsExact

\* A client that holds a handle finds the open in the log.
THEOREM HandlesAreLogged == Spec => OpenIsLogged
<1> DEFINE A == \A f \in Handles :
                  file[f] = NULL /\ file'[f] # NULL /\ should_log("open", LOG_SUCCESS)
                    /\ LoggedPath(file'[f].path)
                  => "open" \in FlagsIn(log, file'[f].path)
<1>1. IInv /\ [Next]_vars => [A]_vars
  <2>1. ASSUME IInv, NEW t \in Threads, Step(t)
        PROVE  A
    BY <2>1, OpenIsLoggedStep
  <2> HIDE DEF A
  <2>2. IInv => TypeOK /\ CallsAreFormed /\ Descriptors /\ Backed
    BY DEF IInv
  <2> QED
    BY <2>1, <2>2, NextIsStep
<1> HIDE DEF A
<1>2. OpenIsLogged <=> [][A]_vars
  BY DEF OpenIsLogged, A
<1> QED
  BY <1>1, <1>2, Invariance, PTL DEF Spec

\* A step that changes the owner of an inode is chown, or lchown of a new one.
LEMMA OwnerStep ==
  ASSUME "link" \notin Ops, IInv, NEW t \in Threads, Step(t), NEW i \in Inodes,
         inode[i] # NULL, inode'[i] # NULL, inode'[i].owner # inode[i].owner
  PROVE  \/ /\ call[t] = NULL /\ call'[t] # NULL
            /\ call'[t].op = "chown" /\ dir[call'[t].path] = i
         \/ /\ At(t, "lchown") /\ call'[t].step = "store"
            /\ call[t].op \in {"mknod", "mkdir", "symlink"}
            /\ call[t].entry = "new" /\ call'[t].entry = "given"
            /\ dir[call[t].path] = i
<1>0. /\ TypeOK /\ CallsAreFormed /\ Backed /\ NewEntries
  BY DEF IInv
<1>1. ASSUME NEW c \in Call, Quiet(t, c)
      PROVE  call[t] = NULL /\ call'[t] = c /\ c # NULL /\ c.op = "chown" /\ dir[c.path] = i
  <2>1. Begins(t, c) /\ call'[t] = c
    BY <1>0, <1>1, BeginsChanges DEF Quiet
  <2> QED
    BY <1>1, <2>1, NullAssumption DEF Begins, Quiet, Attributes
<1>2. ASSUME NEW c \in Call, HandsOver(t, c)
      PROVE  /\ At(t, "lchown") /\ call'[t].step = "store"
             /\ call[t].op \in {"mknod", "mkdir", "symlink"}
             /\ call[t].entry = "new" /\ call'[t].entry = "given"
             /\ dir[call[t].path] = i
  <2>1. /\ GoesOn(t, c) /\ call'[t] = c /\ SameRequest(c, call[t]) /\ call[t] # NULL
        /\ call[t].op \in Ops /\ call[t].op \in Creating \cup {"link"}
        /\ call[t].step = "lchown" /\ c.step = "store" /\ call[t].outcome = LOG_SUCCESS
    BY <1>0, <1>2, GoesOnChanges DEF HandsOver, GoesOn, SameRequest, Call
  <2>2. PICK k \in Inodes :
          /\ k = dir[IF c.op = "link" THEN c.other ELSE c.path]
          /\ inode' = IF c.entry = "given" THEN [inode EXCEPT ![k] = [inode[k] EXCEPT !.owner = c.user]]
                      ELSE inode
    BY <1>0, <1>2, HandsOverOne
  <2>3. k = i /\ c.entry = "given"
    BY <1>0, <2>2 DEF TypeOK
  <2>4. call[t].op \in Creating
    BY <2>1
  <2>5. call[t].entry = "new"
    BY <1>0, <2>1, <2>4 DEF CallsAreFormed, Formed, InFlight
  <2> QED
    BY <2>1, <2>2, <2>3, <2>4, <2>5 DEF Creating, At, SameRequest
<1>3. ASSUME NEW c \in Call, Writes(t, c)
      PROVE  FALSE
  BY <1>3 DEF Writes, Attributes
<1>4. ASSUME NEW c \in Call, Makes(t, c)
      PROVE  FALSE
  BY <1>0, <1>4 DEF Makes, Create, FreeInodes, TypeOK
<1>5. ASSUME inode' = Reclaimed(dir', fds')
      PROVE  FALSE
  BY <1>0, <1>5, ReclaimedType
<1>6. ASSUME NEW c \in Call,
             \/ Opens(t, c) \/ BeginsRelease(t, c) \/ Links(t, c) \/ Closes(t, c)
      PROVE  FALSE
  BY <1>6 DEF Opens, BeginsRelease, Links, Closes, fs
<1>7. CASE Store_In_Hash(t) \/ openReply(t) \/ renameReply(t) \/ otherReply(t)
  BY <1>7 DEF Store_In_Hash, openReply, renameReply, otherReply, fs
<1>8. ASSUME NEW c \in Call, Removes(t, c) \/ Renames(t, c)
      PROVE  FALSE
  <2>1. inode' = Reclaimed(dir', fds) /\ fds' = fds
    BY <1>8 DEF Removes, Renames, TakesNone
  <2> QED
    BY <1>5, <2>1
<1>9. CASE writeReply(t) \/ releaseReply(t)
  <2>1. inode' = Reclaimed(dir', fds')
    BY <1>9 DEF writeReply, releaseReply
  <2> QED
    BY <1>5, <2>1
<1> QED
  BY <1>1, <1>2, <1>3, <1>4, <1>6, <1>7, <1>8, <1>9 DEF Step

\* Among clients that make no hard links, nobody but chown, and the creation of
\* the inode itself, changes who owns a file.  (link gives the file away: its
\* run shows it.)
THEOREM OwnersChangeByChown ==
  ASSUME "link" \notin Ops
  PROVE  Spec => OnlyChownChangesOwner
<1> DEFINE A == \A i \in Inodes :
       inode[i] # NULL /\ inode'[i] # NULL /\ inode'[i].owner # inode[i].owner =>
         \E t \in Threads :
           \/ /\ call[t] = NULL /\ call'[t] # NULL
              /\ call'[t].op = "chown" /\ dir[call'[t].path] = i
           \/ /\ At(t, "lchown") /\ call'[t].step = "store"
              /\ call[t].op \in {"mknod", "mkdir", "symlink"}
              /\ call[t].entry = "new" /\ call'[t].entry = "given"
              /\ dir[call[t].path] = i
<1>1. IInv /\ [Next]_vars => [A]_vars
  <2>1. ASSUME IInv, NEW t \in Threads, Step(t)
        PROVE  A
    BY <2>1, OwnerStep
  <2> HIDE DEF A
  <2>2. IInv => TypeOK /\ CallsAreFormed /\ Descriptors /\ Backed
    BY DEF IInv
  <2> QED
    BY <2>1, <2>2, NextIsStep
<1> HIDE DEF A
<1>2. OnlyChownChangesOwner <=> [][A]_vars
  BY DEF OnlyChownChangesOwner, A
<1> QED
  BY <1>1, <1>2, Invariance, PTL DEF Spec
=============================================================================
