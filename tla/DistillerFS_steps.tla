-------------------------- MODULE DistillerFS_steps -------------------------
(***************************************************************************)
(* The inductive invariant of DistillerFS, and the steps its proof is      *)
(* about.  The next-state relation has some thirty handlers; what they do  *)
(* to the shared state takes ten shapes, besides Store_In_Hash and the     *)
(* replies.  NextIsStep shows that there are no others, and                *)
(* DistillerFS_proofs that each of them keeps the invariant.               *)
(***************************************************************************)
EXTENDS DistillerFS, NatLemmas, FiniteSetTheorems, TLAPS

(***************************************************************************)
(* The inductive invariant.                                                *)
(***************************************************************************)
OnFiles == {"open", "read", "write", "release", "fsync"}
Creating == {"mknod", "mkdir", "symlink"}

\* What the fields of a call say about each other.
Formed(c) ==
  /\ c.op \in {"rename", "link", "symlink"} <=> c.other # NULL
  /\ c.op \in {"rename", "link"} => c.other \in Paths
  /\ c.op \in OnFiles <=> c.file # NULL
  /\ c.op \in Creating \cup {"link"} => c.user \in Users
  /\ c.step = "closedir" => c.op = "readdir" /\ c.fd # NULL
  /\ c.step = "close" => c.op = "mknod" /\ c.fd # NULL /\ c.outcome = LOG_SUCCESS
  /\ c.op \in Creating => IF c.step = "store" THEN c.outcome = LOG_SUCCESS <=> c.entry \in {"given", "kept"}
                                               ELSE c.entry = "new"
  /\ c.step = "lchown" =>
       c.op \in Creating \cup {"link"} /\ c.fd = NULL /\ c.outcome = LOG_SUCCESS
  /\ c.step = "pwrite" => c.op = "write" /\ c.fd # NULL
  /\ c.step = "store" /\ c.fd # NULL => c.op \in {"open", "write", "release"}
  /\ c.op = "release" => c.step = "store" /\ c.fd # NULL
  /\ c.op = "open" =>
       c.step = "store" /\ c.mode # NULL /\ (c.fd # NULL <=> c.outcome = LOG_SUCCESS)

\* What a call has still to log is the end of what it has to log.
InOrder(c) ==
  \/ c.todo = << >>
  \/ c.step = "store" /\ c.todo = Due(c)
  \/ c.step = "store" /\ Due(c) = <<c.path, c.other>> /\ c.todo = <<c.other>>

CallsAreFormed == \A t \in InFlight : Formed(call[t]) /\ InOrder(call[t])

\* The requests that Admitted keeps apart.
Compatible(c, d) ==
  /\ ~(c.op \in EntryOps /\ d.op \in EntryOps)
  /\ Entries(c) \cap Uses(d) = {}
  /\ c.file # NULL /\ c.file = d.file => {c.op, d.op} \cap {"open", "release"} = {}

Exclusive == \A t, u \in InFlight : t # u => Compatible(call[t], call[u])

\* A descriptor is open iff it has an owner, and has only one.
Descriptors ==
  /\ \A d \in 1..MaxFds : fds[d] = NULL <=> Holders(d) = {}
  /\ \A d \in 1..MaxFds : \A x, y \in Holders(d) : x = y

\* The handle of an open that runs is not in use; that of a release is, and the
\* release closes its descriptor.
HandlesInUse ==
  \A t \in InFlight :
    /\ call[t].op = "open" => file[call[t].file] = NULL
    /\ call[t].op = "release" => /\ file[call[t].file] # NULL
                                 /\ file[call[t].file].fd = call[t].fd

Renaming(t, path) ==
  /\ t \in InFlight /\ call[t].op = "rename" /\ call[t].outcome = LOG_SUCCESS
  /\ call[t].path = path

\* The path of an open file leads to its inode, a regular file; while a rename of
\* it runs the new path does.
FileNamed(f) ==
  /\ fds[file[f].fd] = file[f].inode
  /\ inode[file[f].inode].kind = "reg"
  /\ \/ dir[file[f].path] = file[f].inode
     \/ \E t \in Threads : Renaming(t, file[f].path)
  /\ \A t \in Threads : Renaming(t, file[f].path) => dir[call[t].other] = file[f].inode

\* So does the path of a file that is being opened; a write has opened the inode
\* of its handle.
CallNamed(t) ==
  /\ call[t].op = "open" =>
       dir[call[t].path] = fds[call[t].fd] /\ inode[fds[call[t].fd]].kind = "reg"
  /\ call[t].op = "write" =>
       file[call[t].file] # NULL /\ fds[call[t].fd] = file[call[t].file].inode

Names ==
  /\ \A f \in Handles : file[f] # NULL => FileNamed(f)
  /\ \A t \in InFlight : call[t].fd # NULL => CallNamed(t)

\* What has a name or a descriptor exists.
Backed ==
  /\ \A p \in Paths : dir[p] # NULL => inode[dir[p]] # NULL
  /\ \A d \in 1..MaxFds : fds[d] # NULL => inode[fds[d]] # NULL

\* Until the call that made it returns, a new inode has one name, and belongs to
\* the user once lchown has given it away, and to Daemon before that or without.
NewEntries ==
  \A t \in InFlight :
    LET c == call[t]
    IN /\ c.op \in Creating /\ c.entry # NULL =>
            /\ dir[c.path] # NULL
            /\ \A p \in Paths : dir[p] = dir[c.path] => p = c.path
            /\ inode[dir[c.path]].owner = IF c.entry = "given" THEN c.user ELSE Daemon
       /\ c.op = "link" /\ c.outcome = LOG_SUCCESS => dir[c.other] # NULL

IInv ==
  /\ TypeOK
  /\ CallsAreFormed
  /\ Exclusive
  /\ Descriptors
  /\ HandlesInUse
  /\ Names
  /\ Backed
  /\ NewEntries
  /\ LogIsExact

-----------------------------------------------------------------------------
(***************************************************************************)
(* The shapes of the steps.  A handler's first step begins a call, with or *)
(* without a new descriptor; its later steps go on with it.                *)
(***************************************************************************)
\* What a call that begins, or goes on, has to log: all of it, once it logs.
TodoIsDue(c) == c.todo = IF c.step = "store" THEN Due(c) ELSE << >>

Begins(t, c) ==
  /\ call[t] = NULL
  /\ c \in Call
  /\ call' = [call EXCEPT ![t] = c]
  /\ Admitted(c)
  /\ Formed(c) /\ TodoIsDue(c)
  /\ calls' = calls + 1
  /\ UNCHANGED <<file, log, owed>>

SameRequest(c, d) ==
  /\ c.op = d.op /\ c.path = d.path /\ c.other = d.other
  /\ c.user = d.user /\ c.file = d.file

GoesOn(t, c) ==
  /\ call[t] # NULL /\ call[t].step # "store"
  /\ c \in Call
  /\ call' = [call EXCEPT ![t] = c]
  /\ SameRequest(c, call[t])
  /\ Formed(c) /\ TodoIsDue(c)
  /\ UNCHANGED <<file, log, calls, owed>>

TakesFd(c, i) == c.fd \in 1..MaxFds /\ fds[c.fd] = NULL /\ fds' = [fds EXCEPT ![c.fd] = i]
TakesNone(c) == c.fd = NULL /\ fds' = fds

OutcomeSet == {LOG_SUCCESS, LOG_UNSUCCESS}

\* Attributes change, and no owner but that of the file chown is called for.
Attributes(c) ==
  /\ inode' \in [Inodes -> Inode \cup {NULL}]
  /\ \A i \in Inodes : inode'[i] = NULL <=> inode[i] = NULL
  /\ \A i \in Inodes : inode[i] # NULL => inode'[i].kind = inode[i].kind
  /\ \A i \in Inodes : inode[i] # NULL /\ inode'[i].owner # inode[i].owner =>
       c.op = "chown" /\ i = dir[c.path]

\* Calls that begin and leave entries and descriptors alone.
Quiet(t, c) ==
  /\ Begins(t, c) /\ TakesNone(c) /\ Attributes(c) /\ dir' = dir
  /\ c.op = "open" => file[c.file] = NULL
  /\ c.op # "release"
  /\ c.op \in Creating \cup {"link", "rename"} => c.outcome = LOG_UNSUCCESS
  /\ c.op \in Creating => c.entry = NULL

\* Calls that begin with a new descriptor for the file at the path.
Opens(t, c) ==
  /\ Begins(t, c) /\ TakesFd(c, dir[c.path]) /\ UNCHANGED fs
  /\ dir[c.path] # NULL
  /\ c.op \in {"open", "readdir", "write"}
  /\ c.op = "open" => file[c.file] = NULL /\ inode[dir[c.path]].kind = "reg"
  /\ c.op = "write" => file[c.file] # NULL /\ file[c.file].path = c.path

BeginsRelease(t, c) ==
  /\ Begins(t, c) /\ UNCHANGED <<fs, fds>>
  /\ c.op = "release" /\ file[c.file] # NULL /\ c.fd = file[c.file].fd

\* A new entry, with or without a descriptor.
Makes(t, c) ==
  /\ Begins(t, c)
  /\ c.op \in Creating /\ c.step # "store" /\ c.entry = "new" /\ dir[c.path] = NULL
  /\ \E i \in FreeInodes, kind \in {"reg", "dir", "symlink", "fifo"} :
       Create(c.path, kind, i) /\ (TakesNone(c) \/ TakesFd(c, i))

Links(t, c) ==
  /\ Begins(t, c) /\ TakesNone(c) /\ UNCHANGED inode
  /\ c.op = "link" /\ dir[c.path] # NULL /\ dir[c.other] = NULL
  /\ dir' = [dir EXCEPT ![c.other] = dir[c.path]]

Removes(t, c) ==
  /\ Begins(t, c) /\ TakesNone(c)
  /\ c.op \in {"unlink", "rmdir"}
  /\ \/ dir' = dir
     \/ /\ dir' = [dir EXCEPT ![c.path] = NULL]
        /\ c.op = "rmdir" => inode[dir[c.path]].kind = "dir"
  /\ inode' = Reclaimed(dir', fds)

Renames(t, c) ==
  /\ Begins(t, c) /\ TakesNone(c)
  /\ c.op = "rename"
  /\ c.outcome = LOG_SUCCESS => dir[c.path] # NULL
  /\ dir' = IF c.outcome = LOG_SUCCESS THEN Moved(c.path, c.other) ELSE dir
  /\ inode' = Reclaimed(dir', fds)

\* Calls that go on: close, lchown and pwrite.
Closes(t, c) ==
  /\ GoesOn(t, c) /\ UNCHANGED fs
  /\ c.op \in {"readdir", "mknod"} /\ call[t].fd # NULL /\ c.fd = NULL
  /\ fds' = Closed(call[t].fd)
  /\ c.entry = call[t].entry

HandsOver(t, c) ==
  /\ GoesOn(t, c) /\ UNCHANGED <<dir, fds>>
  /\ call[t].step = "lchown" /\ c.step = "store" /\ c.fd = NULL
  /\ call[t].op \in Creating \cup {"link"} /\ call[t].outcome = LOG_SUCCESS
  /\ c.entry \in {"given", "kept"}
  /\ LET path == IF c.op = "link" THEN c.other ELSE c.path
     IN inode' = IF c.entry = "given" THEN [inode EXCEPT ![dir[path]].owner = c.user] ELSE inode

Writes(t, c) ==
  /\ GoesOn(t, c) /\ UNCHANGED <<dir, fds>>
  /\ c.op = "write" /\ c.fd = call[t].fd /\ c.fd # NULL
  /\ Attributes(c)

-----------------------------------------------------------------------------
(***************************************************************************)
(* Frames.                                                                 *)
(***************************************************************************)
\* The frame of a call is one.
LEMMA FrameType ==
  ASSUME NEW op \in Ops, NEW path \in Paths, NEW o \in OutcomeSet
  PROVE  /\ Frame(op, path, o) \in Call
         /\ Frame(op, path, o).op = op /\ Frame(op, path, o).path = path
         /\ Frame(op, path, o).outcome = o
         /\ Frame(op, path, o).step = "store"
         /\ Frame(op, path, o).other = NULL /\ Frame(op, path, o).user = NULL
         /\ Frame(op, path, o).file = NULL /\ Frame(op, path, o).mode = NULL
         /\ Frame(op, path, o).fd = NULL /\ Frame(op, path, o).entry = NULL
         /\ Frame(op, path, o).todo = << >>
BY DEF Frame, Call, Steps, OutcomeSet

\* What a call names are paths of the log.
LEMMA NamedType ==
  ASSUME NEW c \in Call
  PROVE  Named(c) \in Seq(LogPaths) /\ ToLog(c) \in Seq(LogPaths) /\ Due(c) \in Seq(LogPaths)
<1>1. c.path \in LogPaths /\ (c.other # NULL => c.other \in LogPaths)
  BY DEF Call, LogPaths
<1>2. Named(c) \in Seq(LogPaths)
  BY <1>1 DEF Named
<1> QED
  BY <1>2 DEF ToLog, Due

\* Logging(c) is c at its log, with all it has to log; asking the filter of the
\* outcome of c makes it due.
LEMMA LoggingType ==
  ASSUME NEW c \in Call
  PROVE  /\ Logging(c) \in Call
         /\ SameRequest(Logging(c), c)
         /\ Logging(c).outcome = c.outcome /\ Logging(c).fd = c.fd
         /\ Logging(c).mode = c.mode /\ Logging(c).entry = c.entry
         /\ Logging(c).step = "store"
         /\ c.op \notin {"release", "fsync"} => TodoIsDue(Logging(c))
<1>1. ToLog(c) \in Seq(LogPaths)
  BY NamedType
<1>2. Logging(c) = [c EXCEPT !.step = "store", !.todo = ToLog(c)]
  BY DEF Logging
<1>3. /\ Logging(c) \in Call
      /\ SameRequest(Logging(c), c)
      /\ Logging(c).outcome = c.outcome /\ Logging(c).fd = c.fd
      /\ Logging(c).mode = c.mode /\ Logging(c).entry = c.entry
      /\ Logging(c).step = "store" /\ Logging(c).todo = ToLog(c)
  <2> HIDE DEF ToLog, Logging
  <2> QED BY <1>1, <1>2 DEF Call, Steps, SameRequest
<1>4. c.op \notin {"release", "fsync"} => Due(Logging(c)) = ToLog(c)
  BY <1>3 DEF Due, ToLog, Named, SameRequest
<1> QED
  BY <1>3, <1>4 DEF TodoIsDue

\* A call whose system call has made an entry, or not.
LEMMA MadeEntryType ==
  ASSUME NEW c \in Call, NEW o \in OutcomeSet
  PROVE  LET d == MadeEntry(c, o)
         IN /\ d \in Call /\ SameRequest(d, c) /\ d.outcome = o
            /\ d.step = c.step /\ d.fd = c.fd /\ d.todo = c.todo
            /\ o = LOG_SUCCESS => d.entry = "new"
            /\ o # LOG_SUCCESS => d.entry = NULL
BY DEF MadeEntry, Call, SameRequest, OutcomeSet

-----------------------------------------------------------------------------
(***************************************************************************)
(* Every step has one of the shapes.                                       *)
(***************************************************************************)
\* A call that the kernel admits begins.
LEMMA BeginsCall ==
  ASSUME NEW t \in Threads, NEW c \in Call, Begin(t, c), Formed(c), TodoIsDue(c)
  PROVE  Begins(t, c)
BY DEF Begin, Begins

\* A handler that is a system call, the log and the reply begins at its log.
LEMMA SimpleBegins ==
  ASSUME NEW t \in Threads, NEW c \in Call, Simple(t, c), Formed(c), c.step = "store",
         c.op \notin {"release", "fsync"}
  PROVE  Begins(t, Logging(c))
<1>1. /\ Logging(c) \in Call /\ TodoIsDue(Logging(c)) /\ SameRequest(Logging(c), c)
      /\ Logging(c).step = "store" /\ Logging(c).fd = c.fd /\ Logging(c).outcome = c.outcome
      /\ Logging(c).mode = c.mode /\ Logging(c).entry = c.entry
  BY LoggingType
<1>2. Formed(Logging(c))
  BY <1>1 DEF Formed, SameRequest
<1> QED
  BY <1>1, <1>2, BeginsCall DEF Simple

\* The attributes stay when the inodes do.
LEMMA SameAttributes ==
  ASSUME TypeOK, UNCHANGED inode, NEW c
  PROVE  Attributes(c)
BY DEF Attributes, TypeOK

\* The frame of a call on a path alone begins, when it is all there is to do
\* but log.
LEMMA FrameBegins ==
  ASSUME NEW t \in Threads, NEW op, NEW path \in Paths, NEW o \in OutcomeSet,
         op \notin OnFiles \cup Creating \cup {"link", "rename"},
         Simple(t, Frame(op, path, o))
  PROVE  \E c \in Call : /\ Begins(t, c)
                         /\ c.op = op /\ c.path = path /\ c.outcome = o /\ c.fd = NULL
<1>2. op \in Ops
  BY DEF Simple, Begin, Admitted, Logging, Frame
<1> DEFINE c == Frame(op, path, o)
<1>3. /\ c \in Call /\ c.op = op /\ c.step = "store" /\ c.other = NULL /\ c.file = NULL
      /\ c.fd = NULL /\ c.path = path /\ c.outcome = o
  BY <1>2, FrameType
<1>4. Formed(c)
  BY <1>3 DEF Formed, OnFiles, Creating
<1> HIDE DEF c
<1>5. Begins(t, Logging(c))
  BY <1>3, <1>4, SimpleBegins DEF OnFiles, c
<1> QED
  BY <1>3, <1>5, LoggingType DEF SameRequest

\* A call that only looks.
LEMMA LookIsQuiet ==
  ASSUME TypeOK, NEW t \in Threads, NEW op, NEW path \in Paths, NEW possible,
         op \notin OnFiles \cup Creating \cup {"link", "rename"},
         Look(t, op, path, possible)
  PROVE  \E c \in Call : Quiet(t, c)
<1>1. PICK o \in OutcomeSet : Simple(t, Frame(op, path, o)) /\ UNCHANGED <<fs, fds>>
  BY DEF Look, Outcomes, OutcomeSet
<1>2. PICK c \in Call : Begins(t, c) /\ c.op = op /\ c.fd = NULL
  BY <1>1, FrameBegins
<1> QED
  BY <1>1, <1>2, SameAttributes DEF Quiet, TakesNone, fs, OnFiles, Creating

\* An inode that gets another attribute, with its owner kept or its call chown.
LEMMA NewAttributes ==
  ASSUME TypeOK, NEW c, NEW i \in Inodes, inode[i] # NULL, NEW new \in Inode,
         new.kind = inode[i].kind,
         new.owner = inode[i].owner \/ (c.op = "chown" /\ i = dir[c.path]),
         inode' = [inode EXCEPT ![i] = new]
  PROVE  Attributes(c)
<1>1. new # NULL /\ inode \in [Inodes -> Inode \cup {NULL}]
  BY NullAssumption DEF TypeOK
<1>2. inode' \in [Inodes -> Inode \cup {NULL}]
  BY <1>1
<1>3. \A k \in Inodes : inode'[k] = IF k = i THEN new ELSE inode[k]
  BY <1>1
<1> QED
  BY <1>1, <1>2, <1>3 DEF Attributes

\* chmod and truncate set an attribute, chown the owner, of the file at the path.
LEMMA AttributesAreQuiet ==
  ASSUME TypeOK, Backed, NEW t \in Threads, NEW path \in Paths,
         \/ \E wr \in BOOLEAN : chmod(t, path, wr)
         \/ truncate(t, path)
         \/ \E user \in Users : chown(t, path, user)
  PROVE  \E c \in Call : Quiet(t, c)
<1>1. ASSUME NEW wr \in BOOLEAN, chmod(t, path, wr)
      PROVE  \E c \in Call : Quiet(t, c)
  <2>1. PICK o \in Outcomes(Owned(path) /\ ~IsKind(path, "symlink")) :
          /\ Simple(t, Frame("chmod", path, o))
          /\ IF o = LOG_SUCCESS THEN inode' = [inode EXCEPT ![dir[path]].wr = wr]
                                ELSE UNCHANGED inode
          /\ UNCHANGED <<dir, fds>>
    BY <1>1 DEF chmod
  <2>2. o \in OutcomeSet /\ (o = LOG_SUCCESS => dir[path] # NULL)
    BY <2>1 DEF Outcomes, OutcomeSet, Owned, Exists, LOG_SUCCESS, LOG_UNSUCCESS
  <2>3. PICK c \in Call : Begins(t, c) /\ c.op = "chmod" /\ c.path = path /\ c.fd = NULL
    BY <2>1, <2>2, FrameBegins DEF OnFiles, Creating
  <2>4. Attributes(c)
    <3> DEFINE i == dir[path]
    <3>1. CASE o = LOG_SUCCESS
      <4>1. i \in Inodes /\ inode[i] # NULL /\ inode[i] \in Inode
        BY <2>2, <3>1 DEF TypeOK, Backed
      <4>2. /\ [inode[i] EXCEPT !.wr = wr] \in Inode
            /\ [inode[i] EXCEPT !.wr = wr].owner = inode[i].owner
            /\ [inode[i] EXCEPT !.wr = wr].kind = inode[i].kind
        BY <4>1 DEF Inode
      <4>3. inode' = [inode EXCEPT ![i] = [inode[i] EXCEPT !.wr = wr]]
        BY <2>1, <3>1
      <4> QED
        BY <2>3, <4>1, <4>2, <4>3, NewAttributes
    <3>2. CASE o # LOG_SUCCESS
      BY <2>1, <3>2, SameAttributes
    <3> QED
      BY <3>1, <3>2
  <2> QED
    BY <2>1, <2>3, <2>4 DEF Quiet, TakesNone, Creating
<1>2. ASSUME truncate(t, path)
      PROVE  \E c \in Call : Quiet(t, c)
  <2>1. PICK o \in Outcomes(Writable(path)) :
          /\ Simple(t, Frame("truncate", path, o))
          /\ IF o = LOG_SUCCESS THEN inode' = [inode EXCEPT ![dir[path]].dirty = TRUE]
                                ELSE UNCHANGED inode
          /\ UNCHANGED <<dir, fds>>
    BY <1>2 DEF truncate
  <2>2. o \in OutcomeSet /\ (o = LOG_SUCCESS => dir[path] # NULL)
    BY <2>1 DEF Outcomes, OutcomeSet, Writable, IsKind, Exists, LOG_SUCCESS, LOG_UNSUCCESS
  <2>3. PICK c \in Call : Begins(t, c) /\ c.op = "truncate" /\ c.path = path /\ c.fd = NULL
    BY <2>1, <2>2, FrameBegins DEF OnFiles, Creating
  <2>4. Attributes(c)
    <3> DEFINE i == dir[path]
    <3>1. CASE o = LOG_SUCCESS
      <4>1. i \in Inodes /\ inode[i] # NULL /\ inode[i] \in Inode
        BY <2>2, <3>1 DEF TypeOK, Backed
      <4>2. /\ [inode[i] EXCEPT !.dirty = TRUE] \in Inode
            /\ [inode[i] EXCEPT !.dirty = TRUE].owner = inode[i].owner
            /\ [inode[i] EXCEPT !.dirty = TRUE].kind = inode[i].kind
        BY <4>1 DEF Inode
      <4>3. inode' = [inode EXCEPT ![i] = [inode[i] EXCEPT !.dirty = TRUE]]
        BY <2>1, <3>1
      <4> QED
        BY <2>3, <4>1, <4>2, <4>3, NewAttributes
    <3>2. CASE o # LOG_SUCCESS
      BY <2>1, <3>2, SameAttributes
    <3> QED
      BY <3>1, <3>2
  <2> QED
    BY <2>1, <2>3, <2>4 DEF Quiet, TakesNone, Creating
<1>3. ASSUME NEW user \in Users, chown(t, path, user)
      PROVE  \E c \in Call : Quiet(t, c)
  <2>1. PICK o \in Outcomes(Exists(path) /\ Privileged) :
          /\ Simple(t, Frame("chown", path, o))
          /\ IF o = LOG_SUCCESS THEN inode' = [inode EXCEPT ![dir[path]].owner = user]
                                ELSE UNCHANGED inode
          /\ UNCHANGED <<dir, fds>>
    BY <1>3 DEF chown
  <2>2. o \in OutcomeSet /\ (o = LOG_SUCCESS => dir[path] # NULL)
    BY <2>1 DEF Outcomes, OutcomeSet, Exists, LOG_SUCCESS, LOG_UNSUCCESS
  <2>3. PICK c \in Call : Begins(t, c) /\ c.op = "chown" /\ c.path = path /\ c.fd = NULL
    BY <2>1, <2>2, FrameBegins DEF OnFiles, Creating
  <2>4. Attributes(c)
    <3> DEFINE i == dir[path]
    <3>1. CASE o = LOG_SUCCESS
      <4>1. i \in Inodes /\ inode[i] # NULL /\ inode[i] \in Inode
        BY <2>2, <3>1 DEF TypeOK, Backed
      <4>2. /\ [inode[i] EXCEPT !.owner = user] \in Inode
            /\ [inode[i] EXCEPT !.owner = user].kind = inode[i].kind
        BY <4>1 DEF Inode
      <4>3. inode' = [inode EXCEPT ![i] = [inode[i] EXCEPT !.owner = user]]
        BY <2>1, <3>1
      <4> QED
        BY <2>3, <4>1, <4>2, <4>3, NewAttributes
    <3>2. CASE o # LOG_SUCCESS
      BY <2>1, <3>2, SameAttributes
    <3> QED
      BY <3>1, <3>2
  <2> QED
    BY <2>1, <2>3, <2>4 DEF Quiet, TakesNone, Creating
<1> QED
  BY <1>1, <1>2, <1>3
\* The descriptor that open returns is one that is free.
LEMMA LowestFd ==
  ASSUME FreeFds # {}
  PROVE  Min(FreeFds) \in 1..MaxFds /\ fds[Min(FreeFds)] = NULL
<1>1. FreeFds \in SUBSET Nat
  BY BoundsAssumption DEF FreeFds
<1>2. Min(FreeFds) \in FreeFds
  BY <1>1, MinNat
<1> QED
  BY <1>2 DEF FreeFds


\* readdir begins with a descriptor, or fails.
LEMMA ReaddirShape ==
  ASSUME TypeOK, NEW t \in Threads, NEW path \in Paths, readdir(t, path)
  PROVE  \E c \in Call : Quiet(t, c) \/ Opens(t, c)
<1>1. PICK o \in Outcomes(IsKind(path, "dir") /\ FreeFds # {}) :
        /\ IF o = LOG_SUCCESS
             THEN /\ Begin(t, [Frame("readdir", path, o) EXCEPT !.step = "closedir", !.fd = Min(FreeFds)])
                  /\ fds' = Opened(dir[path])
             ELSE Simple(t, Frame("readdir", path, o)) /\ UNCHANGED fds
        /\ UNCHANGED fs
  BY DEF readdir
<1>2. o \in OutcomeSet /\ (o = LOG_SUCCESS => dir[path] # NULL /\ FreeFds # {})
  BY <1>1 DEF Outcomes, OutcomeSet, IsKind, Exists, LOG_SUCCESS, LOG_UNSUCCESS
<1>3. CASE o # LOG_SUCCESS
  <2>1. PICK c \in Call : Begins(t, c) /\ c.op = "readdir" /\ c.fd = NULL
    BY <1>1, <1>2, <1>3, FrameBegins DEF OnFiles, Creating
  <2> QED
    BY <1>1, <1>3, <2>1, SameAttributes DEF Quiet, TakesNone, fs, Creating
<1>4. CASE o = LOG_SUCCESS
  <2> DEFINE c0 == Frame("readdir", path, o)
             c == [c0 EXCEPT !.step = "closedir", !.fd = Min(FreeFds)]
  <2>0. Begin(t, c) /\ fds' = [fds EXCEPT ![Min(FreeFds)] = dir[path]]
    BY <1>1, <1>4 DEF Opened
  <2>1. c.op = "readdir"
    BY DEF Frame
  <2>2. "readdir" \in Ops
    BY <2>0, <2>1 DEF Begin, Admitted
  <2>3. Min(FreeFds) \in 1..MaxFds /\ fds[Min(FreeFds)] = NULL
    BY <1>2, <1>4, LowestFd
  <2>4. c0 \in Call /\ c0.op = "readdir" /\ c0.path = path /\ c0.other = NULL /\ c0.file = NULL
        /\ c0.todo = << >>
    BY <1>2, <2>2, FrameType
  <2> HIDE DEF c0
  <2>5. /\ c \in Call /\ c.op = "readdir" /\ c.path = path /\ c.other = NULL /\ c.file = NULL
        /\ c.todo = << >> /\ c.step = "closedir" /\ c.fd = Min(FreeFds)
    BY <2>3, <2>4 DEF Call, Steps
  <2> HIDE DEF c
  <2>6. Formed(c) /\ TodoIsDue(c)
    BY <2>3, <2>5, NullAssumption DEF Formed, TodoIsDue, OnFiles, Creating
  <2>7. Begins(t, c)
    BY <2>0, <2>5, <2>6, BeginsCall
  <2>8. TakesFd(c, dir[c.path])
    BY <2>0, <2>3, <2>5 DEF TakesFd
  <2> QED
    BY <1>1, <1>2, <1>4, <2>5, <2>7, <2>8 DEF Opens, fs
<1> QED
  BY <1>3, <1>4

\* The call that makes a directory, a symbolic link or a fifo.
LEMMA MakeEntryShape ==
  ASSUME TypeOK, NEW t \in Threads, NEW c \in Call, NEW kind \in {"dir", "symlink", "fifo"},
         MakeEntry(t, c, kind), c.op \in Creating, c.fd = NULL, c.todo = << >>,
         c.file = NULL, c.user \in Users, c.step = "store", c.op = "symlink" <=> c.other # NULL
  PROVE  \E d \in Call : Quiet(t, d) \/ Makes(t, d)
<1>1. PICK o \in Outcomes(~Exists(c.path) /\ FreeInodes # {}) :
        /\ Begin(t, AfterMaking(MadeEntry(c, o)))
        /\ IF o = LOG_SUCCESS
             THEN \E i \in FreeInodes : Create(c.path, kind, i)
             ELSE UNCHANGED fs
        /\ UNCHANGED fds
  BY DEF MakeEntry
<1>2. o \in OutcomeSet /\ (o = LOG_SUCCESS => dir[c.path] = NULL)
  BY <1>1 DEF Outcomes, OutcomeSet, Exists, LOG_SUCCESS, LOG_UNSUCCESS
<1> DEFINE d == MadeEntry(c, o)
<1>3. /\ d \in Call /\ d.op = c.op /\ d.path = c.path /\ d.other = c.other /\ d.file = NULL
      /\ d.user \in Users /\ d.fd = NULL /\ d.todo = << >> /\ d.outcome = o /\ d.step = "store"
      /\ d.entry = IF o = LOG_SUCCESS THEN "new" ELSE NULL
  BY <1>2, MadeEntryType DEF SameRequest
<1> HIDE DEF d
<1>4. o # LOG_SUCCESS => Formed(d)
  BY <1>3, NullAssumption DEF Formed, Creating, OnFiles
<1>5. CASE o = LOG_SUCCESS
  <2> DEFINE e == [d EXCEPT !.step = "lchown"]
  <2>1. /\ e \in Call /\ e.op = c.op /\ e.path = c.path /\ e.other = c.other /\ e.file = NULL
        /\ e.user \in Users /\ e.fd = NULL /\ e.todo = << >> /\ e.outcome = o /\ e.step = "lchown"
        /\ e.entry = d.entry
    BY <1>3 DEF Call, Steps
  <2>2. Begin(t, e)
    BY <1>1, <1>3, <1>5 DEF AfterMaking, d
  <2> HIDE DEF e
  <2>3. Formed(e) /\ TodoIsDue(e)
    BY <1>3, <1>5, <2>1 DEF Formed, TodoIsDue, Creating, OnFiles
  <2>4. Begins(t, e)
    BY <2>1, <2>2, <2>3, BeginsCall
  <2> QED
    BY <1>1, <1>2, <1>3, <1>5, <2>1, <2>4 DEF Makes, TakesNone
<1>6. CASE o # LOG_SUCCESS
  <2>1. Begin(t, Logging(d))
    BY <1>1, <1>3, <1>6 DEF AfterMaking, d
  <2>2. /\ Logging(d) \in Call /\ SameRequest(Logging(d), d) /\ Logging(d).outcome = o
        /\ Logging(d).fd = NULL /\ Logging(d).entry = NULL
    BY <1>3, <1>6, LoggingType
  <2>3. Begins(t, Logging(d))
    BY <1>3, <1>4, <1>6, <2>1, SimpleBegins DEF Simple, Creating
  <2>4. o = LOG_UNSUCCESS
    BY <1>2, <1>6 DEF OutcomeSet
  <2> QED
    BY <1>1, <1>3, <1>6, <2>2, <2>3, <2>4, SameAttributes
    DEF Quiet, TakesNone, fs, Creating, SameRequest
<1> QED
  BY <1>5, <1>6

\* The frame of a request that makes an entry.
LEMMA RequestType ==
  ASSUME NEW op \in Ops, NEW path \in Paths, NEW user \in Users
  PROVE  LET c == RequestBy(user, op, path)
         IN /\ c \in Call /\ c.op = op /\ c.path = path /\ c.user = user
            /\ c.outcome = LOG_SUCCESS /\ c.step = "store" /\ c.entry = NULL
            /\ c.other = NULL /\ c.file = NULL /\ c.fd = NULL /\ c.todo = << >>
<1> DEFINE c0 == Frame(op, path, LOG_SUCCESS)
<1>1. /\ c0 \in Call /\ c0.op = op /\ c0.path = path /\ c0.outcome = LOG_SUCCESS
      /\ c0.step = "store" /\ c0.other = NULL /\ c0.file = NULL /\ c0.fd = NULL /\ c0.todo = << >>
      /\ c0.entry = NULL
  BY FrameType DEF OutcomeSet
<1> HIDE DEF c0
<1>2. RequestBy(user, op, path) = [c0 EXCEPT !.user = user]
  BY DEF RequestBy, c0
<1> QED
  BY <1>1, <1>2 DEF Call

\* The clients use the operation of an entry that is made.
LEMMA MakeEntryAsked ==
  ASSUME NEW t \in Threads, NEW c, NEW kind, MakeEntry(t, c, kind),
         NEW op, \A o : /\ [MadeEntry(c, o) EXCEPT !.step = "lchown"].op = op
                       /\ Logging(MadeEntry(c, o)).op = op
  PROVE  op \in Ops
<1>1. PICK o : Begin(t, AfterMaking(MadeEntry(c, o)))
  BY DEF MakeEntry
<1>2. AfterMaking(MadeEntry(c, o)).op = op
  BY DEF AfterMaking
<1> QED
  BY <1>1, <1>2 DEF Begin, Admitted

\* mkdir, symlink and mknod for a fifo.
LEMMA EntryShapes ==
  ASSUME TypeOK, NEW t \in Threads, NEW path \in Paths, NEW user \in Users,
         \/ mkdir(t, path, user) \/ mkfifo(t, path, user)
         \/ \E from \in Targets : symlink(t, from, path, user)
  PROVE  \E c \in Call : Quiet(t, c) \/ Makes(t, c)
<1>1. CASE mkdir(t, path, user)
  <2> DEFINE c == RequestBy(user, "mkdir", path)
  <2>1. "mkdir" \in Ops
    BY <1>1, MakeEntryAsked DEF mkdir, MadeEntry, Logging, RequestBy, Frame
  <2>2. /\ c \in Call /\ c.op = "mkdir" /\ c.path = path /\ c.user = user /\ c.step = "store"
        /\ c.other = NULL /\ c.file = NULL /\ c.fd = NULL /\ c.todo = << >>
    BY <2>1, RequestType
  <2>3. MakeEntry(t, c, "dir")
    BY <1>1 DEF mkdir
  <2> HIDE DEF c
  <2> QED
    BY <2>2, <2>3, MakeEntryShape DEF Creating
<1>2. CASE mkfifo(t, path, user)
  <2> DEFINE c == RequestBy(user, "mknod", path)
  <2>1. "mknod" \in Ops
    BY <1>2, MakeEntryAsked DEF mkfifo, MadeEntry, Logging, RequestBy, Frame
  <2>2. /\ c \in Call /\ c.op = "mknod" /\ c.path = path /\ c.user = user /\ c.step = "store"
        /\ c.other = NULL /\ c.file = NULL /\ c.fd = NULL /\ c.todo = << >>
    BY <2>1, RequestType
  <2>3. MakeEntry(t, c, "fifo")
    BY <1>2 DEF mkfifo
  <2> HIDE DEF c
  <2> QED
    BY <2>2, <2>3, MakeEntryShape DEF Creating
<1>3. ASSUME NEW from \in Targets, symlink(t, from, path, user)
      PROVE  \E c \in Call : Quiet(t, c) \/ Makes(t, c)
  <2> DEFINE c0 == RequestBy(user, "symlink", path)
             c == [c0 EXCEPT !.other = from]
  <2>1. "symlink" \in Ops
    <3>1. MakeEntry(t, c, "symlink")
      BY <1>3 DEF symlink
    <3>2. \A o : /\ [MadeEntry(c, o) EXCEPT !.step = "lchown"].op = "symlink"
                 /\ Logging(MadeEntry(c, o)).op = "symlink"
      BY DEF MadeEntry, Logging, RequestBy, Frame
    <3> HIDE DEF c
    <3> QED
      BY <3>1, <3>2, MakeEntryAsked
  <2>2. /\ c0 \in Call /\ c0.op = "symlink" /\ c0.path = path /\ c0.user = user
        /\ c0.step = "store" /\ c0.file = NULL /\ c0.fd = NULL /\ c0.todo = << >>
    BY <2>1, RequestType
  <2>3. MakeEntry(t, c, "symlink")
    BY <1>3 DEF symlink
  <2> HIDE DEF c0
  <2>4. from \in LogPaths /\ from # NULL
    BY NullAssumption DEF LogPaths
  <2>5. /\ c \in Call /\ c.op = "symlink" /\ c.path = path /\ c.user = user /\ c.step = "store"
        /\ c.other = from /\ c.file = NULL /\ c.fd = NULL /\ c.todo = << >>
    BY <2>2, <2>4 DEF Call
  <2> HIDE DEF c
  <2> QED
    BY <2>3, <2>4, <2>5, MakeEntryShape DEF Creating
<1> QED
  BY <1>1, <1>2, <1>3

\* mknod of a regular file keeps the descriptor it made the file with.
LEMMA MknodShape ==
  ASSUME TypeOK, NEW t \in Threads, NEW path \in Paths, NEW user \in Users,
         mknod(t, path, user)
  PROVE  \E c \in Call : Quiet(t, c) \/ Makes(t, c)
<1> DEFINE c0 == RequestBy(user, "mknod", path)
<1>1. PICK o \in Outcomes(~Exists(path) /\ FreeInodes # {} /\ FreeFds # {}) :
        IF o = LOG_SUCCESS
          THEN /\ Begin(t, [MadeEntry(c0, o) EXCEPT !.step = "close", !.fd = Min(FreeFds)])
               /\ \E i \in FreeInodes : Create(path, "reg", i) /\ fds' = Opened(i)
          ELSE Simple(t, MadeEntry(c0, o)) /\ UNCHANGED <<fs, fds>>
  BY DEF mknod
<1>2. o \in OutcomeSet /\ (o = LOG_SUCCESS => dir[path] = NULL /\ FreeFds # {})
  BY <1>1 DEF Outcomes, OutcomeSet, Exists, LOG_SUCCESS, LOG_UNSUCCESS
<1>3. "mknod" \in Ops
  BY <1>1 DEF Simple, Begin, Admitted, MadeEntry, Logging, RequestBy, Frame
<1>4. /\ c0 \in Call /\ c0.op = "mknod" /\ c0.path = path /\ c0.user = user /\ c0.step = "store"
      /\ c0.other = NULL /\ c0.file = NULL /\ c0.fd = NULL /\ c0.todo = << >>
      /\ c0.outcome = LOG_SUCCESS
  BY <1>3, RequestType
<1> DEFINE b == MadeEntry(c0, o)
<1>7. /\ b \in Call /\ b.op = "mknod" /\ b.path = path /\ b.user = user /\ b.step = "store"
      /\ b.other = NULL /\ b.file = NULL /\ b.fd = NULL /\ b.todo = << >> /\ b.outcome = o
      /\ b.entry = IF o = LOG_SUCCESS THEN "new" ELSE NULL
  BY <1>2, <1>4, MadeEntryType DEF SameRequest
<1> HIDE DEF c0, b
<1>5. CASE o = LOG_SUCCESS
  <2> DEFINE c == [b EXCEPT !.step = "close", !.fd = Min(FreeFds)]
  <2>1. Min(FreeFds) \in 1..MaxFds /\ fds[Min(FreeFds)] = NULL
    BY <1>2, <1>5, LowestFd
  <2>2. /\ c \in Call /\ c.op = "mknod" /\ c.path = path /\ c.user = user /\ c.step = "close"
        /\ c.other = NULL /\ c.file = NULL /\ c.fd = Min(FreeFds) /\ c.todo = << >>
        /\ c.outcome = LOG_SUCCESS /\ c.entry = "new"
    BY <1>5, <1>7, <2>1 DEF Call, Steps
  <2>3. Begin(t, c)
    BY <1>1, <1>5 DEF b
  <2> HIDE DEF c
  <2>4. Formed(c) /\ TodoIsDue(c)
    BY <2>1, <2>2, NullAssumption DEF Formed, TodoIsDue, Creating, OnFiles
  <2>5. Begins(t, c)
    BY <2>2, <2>3, <2>4, BeginsCall
  <2>6. PICK i \in FreeInodes : Create(path, "reg", i) /\ fds' = Opened(i)
    BY <1>1, <1>5
  <2>7. TakesFd(c, i)
    BY <2>1, <2>2, <2>6 DEF TakesFd, Opened
  <2> QED
    BY <1>2, <1>5, <2>2, <2>5, <2>6, <2>7 DEF Makes, Creating
<1>6. CASE o # LOG_SUCCESS
  <2>1. b.outcome = LOG_UNSUCCESS /\ b.entry = NULL
    BY <1>2, <1>6, <1>7 DEF OutcomeSet
  <2>2. Simple(t, b)
    BY <1>1, <1>6 DEF b
  <2>3. Formed(b)
    BY <1>7, <2>1, NullAssumption DEF Formed, Creating, OnFiles, LOG_SUCCESS, LOG_UNSUCCESS
  <2>4. Begins(t, Logging(b))
    BY <1>7, <2>2, <2>3, SimpleBegins
  <2> QED
    BY <1>1, <1>6, <1>7, <2>1, <2>4, LoggingType, SameAttributes
    DEF Quiet, TakesNone, fs, SameRequest, Creating
<1> QED
  BY <1>5, <1>6

\* link gives the inode of the path one more name.
LEMMA LinkShape ==
  ASSUME TypeOK, NEW t \in Threads, NEW from \in Paths, NEW to \in Paths, NEW user \in Users,
         link(t, from, to, user)
  PROVE  \E c \in Call : Quiet(t, c) \/ Links(t, c)
<1> DEFINE c0 == RequestBy(user, "link", from)
           c1 == [c0 EXCEPT !.other = to]
<1>1. PICK o \in Outcomes(Exists(from) /\ ~IsKind(from, "dir") /\ ~Exists(to)) :
        /\ Begin(t, AfterMaking(MadeEntry(c1, o)))
        /\ dir' = IF o = LOG_SUCCESS THEN [dir EXCEPT ![to] = dir[from]] ELSE dir
        /\ UNCHANGED <<inode, fds>>
  BY DEF link
<1>2. /\ o \in OutcomeSet
      /\ o = LOG_SUCCESS => dir[from] # NULL /\ dir[to] = NULL
  BY <1>1 DEF Outcomes, OutcomeSet, Exists, LOG_SUCCESS, LOG_UNSUCCESS
<1>3. "link" \in Ops
  BY <1>1 DEF Begin, Admitted, AfterMaking, MadeEntry, Logging, RequestBy, Frame
<1>4. /\ c0 \in Call /\ c0.op = "link" /\ c0.path = from /\ c0.user = user /\ c0.step = "store"
      /\ c0.file = NULL /\ c0.fd = NULL /\ c0.todo = << >>
  BY <1>3, RequestType
<1> HIDE DEF c0
<1>5. to \in LogPaths /\ to # NULL
  BY NullAssumption DEF LogPaths
<1>9. /\ c1 \in Call /\ c1.op = "link" /\ c1.path = from /\ c1.other = to /\ c1.file = NULL
      /\ c1.user = user /\ c1.fd = NULL /\ c1.todo = << >> /\ c1.step = "store"
  BY <1>4, <1>5 DEF Call
<1> HIDE DEF c1
<1> DEFINE d == MadeEntry(c1, o)
<1>6. /\ d \in Call /\ d.op = "link" /\ d.path = from /\ d.other = to /\ d.file = NULL
      /\ d.user = user /\ d.fd = NULL /\ d.todo = << >> /\ d.outcome = o /\ d.step = "store"
  BY <1>2, <1>9, MadeEntryType DEF SameRequest
<1>0. Begin(t, AfterMaking(d))
  BY <1>1
<1> HIDE DEF d
<1>7. CASE o = LOG_SUCCESS
  <2> DEFINE e == [d EXCEPT !.step = "lchown"]
  <2>1. /\ e \in Call /\ e.op = "link" /\ e.path = from /\ e.other = to /\ e.file = NULL
        /\ e.user = user /\ e.fd = NULL /\ e.todo = << >> /\ e.outcome = o /\ e.step = "lchown"
    BY <1>6 DEF Call, Steps
  <2>2. Begin(t, e)
    BY <1>0, <1>6, <1>7 DEF AfterMaking
  <2> HIDE DEF e
  <2>3. Formed(e) /\ TodoIsDue(e)
    BY <1>5, <1>7, <2>1 DEF Formed, TodoIsDue, Creating, OnFiles
  <2>4. Begins(t, e)
    BY <2>1, <2>2, <2>3, BeginsCall
  <2> QED
    BY <1>1, <1>2, <1>7, <2>1, <2>4 DEF Links, TakesNone
<1>8. CASE o # LOG_SUCCESS
  <2>1. Simple(t, d)
    BY <1>0, <1>6, <1>8 DEF AfterMaking, Simple
  <2>2. Formed(d)
    BY <1>5, <1>6 DEF Formed, Creating, OnFiles
  <2>3. Begins(t, Logging(d))
    BY <1>6, <2>1, <2>2, SimpleBegins
  <2>4. o = LOG_UNSUCCESS
    BY <1>2, <1>8 DEF OutcomeSet
  <2> QED
    BY <1>1, <1>6, <1>8, <2>3, <2>4, LoggingType, SameAttributes
    DEF Quiet, TakesNone, Creating, SameRequest
<1> QED
  BY <1>7, <1>8

\* unlink and rmdir.
LEMMA RemoveShape ==
  ASSUME TypeOK, NEW t \in Threads, NEW path \in Paths, unlink(t, path) \/ rmdir(t, path)
  PROVE  \E c \in Call : Removes(t, c)
<1>1. PICK op \in {"unlink", "rmdir"}, o \in OutcomeSet :
        /\ Simple(t, Frame(op, path, o))
        /\ dir' = IF o = LOG_SUCCESS THEN [dir EXCEPT ![path] = NULL] ELSE dir
        /\ inode' = Reclaimed(dir', fds)
        /\ UNCHANGED fds
        /\ op = "rmdir" /\ o = LOG_SUCCESS => inode[dir[path]].kind = "dir"
  BY DEF unlink, rmdir, RemoveEntry, Outcomes, OutcomeSet, IsKind, LOG_SUCCESS, LOG_UNSUCCESS
<1>2. PICK c \in Call : Begins(t, c) /\ c.op = op /\ c.path = path /\ c.fd = NULL
  BY <1>1, FrameBegins DEF OnFiles, Creating
<1> QED
  BY <1>1, <1>2 DEF Removes, TakesNone

\* rename.
LEMMA RenameShape ==
  ASSUME TypeOK, NEW t \in Threads, NEW from \in Paths, NEW to \in Paths, rename(t, from, to)
  PROVE  \E c \in Call : Renames(t, c)
<1>1. PICK o \in Outcomes(Exists(from) /\ (Exists(to) => IsKind(from, "dir") = IsKind(to, "dir"))) :
        /\ Begin(t, Logging([Frame("rename", from, o) EXCEPT !.other = to]))
        /\ dir' = IF o = LOG_SUCCESS THEN Moved(from, to) ELSE dir
        /\ inode' = Reclaimed(dir', fds)
        /\ UNCHANGED fds
  BY DEF rename
<1>2. o \in OutcomeSet /\ (o = LOG_SUCCESS => dir[from] # NULL)
  BY <1>1 DEF Outcomes, OutcomeSet, Exists, LOG_SUCCESS, LOG_UNSUCCESS
<1>3. "rename" \in Ops
  BY <1>1 DEF Begin, Admitted, Logging, Frame
<1> DEFINE c0 == Frame("rename", from, o)
           c == [c0 EXCEPT !.other = to]
<1>4. /\ c0 \in Call /\ c0.op = "rename" /\ c0.path = from /\ c0.outcome = o
      /\ c0.step = "store" /\ c0.file = NULL /\ c0.fd = NULL /\ c0.todo = << >>
  BY <1>2, <1>3, FrameType
<1> HIDE DEF c0
<1>5. to \in LogPaths /\ to # NULL
  BY NullAssumption DEF LogPaths
<1>6. /\ c \in Call /\ c.op = "rename" /\ c.path = from /\ c.other = to /\ c.outcome = o
      /\ c.step = "store" /\ c.file = NULL /\ c.fd = NULL
  BY <1>4, <1>5 DEF Call
<1>7. Simple(t, c)
  BY <1>1 DEF Simple, c0
<1> HIDE DEF c
<1>8. Formed(c)
  BY <1>5, <1>6 DEF Formed, Creating, OnFiles
<1>9. Begins(t, Logging(c))
  BY <1>6, <1>7, <1>8, SimpleBegins
<1> QED
  BY <1>1, <1>2, <1>6, <1>9, LoggingType DEF Renames, TakesNone, SameRequest

\* The frame of a request on an open file.
LEMMA OnFileType ==
  ASSUME TypeOK, NEW op \in Ops, NEW f \in Handles, file[f] # NULL, NEW o \in OutcomeSet
  PROVE  /\ OnFile(op, f, o) \in Call
         /\ OnFile(op, f, o).op = op /\ OnFile(op, f, o).path = file[f].path
         /\ OnFile(op, f, o).file = f /\ OnFile(op, f, o).outcome = o
         /\ OnFile(op, f, o).step = "store" /\ OnFile(op, f, o).other = NULL
         /\ OnFile(op, f, o).fd = NULL /\ OnFile(op, f, o).todo = << >>
<1>1. file[f].path \in Paths
  BY DEF TypeOK, OpenFile
<1> DEFINE c == Frame(op, file[f].path, o)
<1>2. /\ c \in Call /\ c.op = op /\ c.path = file[f].path /\ c.outcome = o /\ c.step = "store"
      /\ c.other = NULL /\ c.fd = NULL /\ c.todo = << >>
  BY <1>1, FrameType
<1>3. OnFile(op, f, o) = [c EXCEPT !.file = f]
  BY DEF OnFile
<1> HIDE DEF c
<1> QED
  BY <1>2, <1>3 DEF Call

\* open begins with a descriptor, or fails.
LEMMA OpenShape ==
  ASSUME TypeOK, NEW t \in Threads, NEW path \in Paths, NEW mode \in {"r", "w"},
         NEW f \in Handles, open(t, path, mode, f)
  PROVE  \E c \in Call : Quiet(t, c) \/ Opens(t, c)
<1> DEFINE c0(o) == Frame("open", path, o)
           c1(o) == [c0(o) EXCEPT !.file = f, !.mode = mode]
<1>1. PICK o \in Outcomes(/\ IsKind(path, "reg") /\ (mode = "w" => Writable(path))
                          /\ FreeFds # {}) :
        IF o = LOG_SUCCESS
          THEN Simple(t, [c1(o) EXCEPT !.fd = Min(FreeFds)]) /\ fds' = Opened(dir[path])
          ELSE Simple(t, c1(o)) /\ UNCHANGED fds
  BY DEF open
<1>2. /\ o \in OutcomeSet
      /\ o = LOG_SUCCESS => dir[path] # NULL /\ FreeFds # {} /\ inode[dir[path]].kind = "reg"
  BY <1>1 DEF Outcomes, OutcomeSet, IsKind, Exists, LOG_SUCCESS, LOG_UNSUCCESS
<1>3. file[f] = NULL /\ UNCHANGED fs
  BY DEF open
<1>4. "open" \in Ops
  BY <1>1 DEF Simple, Begin, Admitted, Logging, Frame
<1> DEFINE b == c0(o)
           c == c1(o)
<1>5. /\ b \in Call /\ b.op = "open" /\ b.path = path /\ b.outcome = o /\ b.step = "store"
      /\ b.other = NULL /\ b.fd = NULL /\ b.todo = << >>
  BY <1>2, <1>4, FrameType
<1>6. c = [b EXCEPT !.file = f, !.mode = mode]
  OBVIOUS
<1>7. IF o = LOG_SUCCESS
        THEN Simple(t, [c EXCEPT !.fd = Min(FreeFds)]) /\ fds' = Opened(dir[path])
        ELSE Simple(t, c) /\ UNCHANGED fds
  BY <1>1
<1> HIDE DEF b, c, c0, c1
<1>8. /\ c \in Call /\ c.op = "open" /\ c.path = path /\ c.outcome = o /\ c.step = "store"
      /\ c.other = NULL /\ c.fd = NULL /\ c.todo = << >> /\ c.file = f
      /\ c.mode = mode
  BY <1>5, <1>6 DEF Call
<1>9. f # NULL /\ mode # NULL
  BY NullAssumption
<1>10. CASE o = LOG_SUCCESS
  <2> DEFINE d == [c EXCEPT !.fd = Min(FreeFds)]
  <2>1. Min(FreeFds) \in 1..MaxFds /\ fds[Min(FreeFds)] = NULL
    BY <1>2, <1>10, LowestFd
  <2>2. /\ d \in Call /\ d.op = "open" /\ d.path = path /\ d.outcome = LOG_SUCCESS
        /\ d.step = "store" /\ d.other = NULL /\ d.fd = Min(FreeFds) /\ d.file = f
        /\ d.mode = mode
    BY <1>8, <1>10, <2>1 DEF Call
  <2>3. Simple(t, d) /\ fds' = [fds EXCEPT ![Min(FreeFds)] = dir[path]]
    BY <1>7, <1>10 DEF Opened
  <2> HIDE DEF d
  <2>4. d.fd # NULL
    BY <2>1, <2>2, NullAssumption
  <2>5. Formed(d)
    BY <1>9, <2>2, <2>4 DEF Formed, Creating, OnFiles
  <2>6. Begins(t, Logging(d))
    BY <2>2, <2>3, <2>5, SimpleBegins
  <2>7. /\ Logging(d) \in Call /\ Logging(d).op = "open" /\ Logging(d).path = path
        /\ Logging(d).fd = Min(FreeFds) /\ Logging(d).file = f
    BY <2>2, LoggingType DEF SameRequest
  <2>8. TakesFd(Logging(d), dir[path])
    BY <2>1, <2>3, <2>7 DEF TakesFd
  <2> QED
    BY <1>2, <1>3, <1>10, <2>6, <2>7, <2>8 DEF Opens
<1>11. CASE o # LOG_SUCCESS
  <2>1. Formed(c)
    BY <1>8, <1>9, <1>11 DEF Formed, Creating, OnFiles
  <2>2. Begins(t, Logging(c))
    BY <1>7, <1>8, <1>11, <2>1, SimpleBegins
  <2>3. /\ Logging(c) \in Call /\ Logging(c).op = "open" /\ Logging(c).fd = NULL
        /\ Logging(c).file = f
    BY <1>8, LoggingType DEF SameRequest
  <2> QED
    BY <1>3, <1>7, <1>11, <2>2, <2>3, SameAttributes DEF Quiet, TakesNone, fs, Creating
<1> QED
  BY <1>10, <1>11

\* read uses the descriptor of the open file.
LEMMA ReadShape ==
  ASSUME TypeOK, NEW t \in Threads, NEW f \in Handles, read(t, f)
  PROVE  \E c \in Call : Quiet(t, c)
<1>1. PICK o \in OutcomeSet : Simple(t, OnFile("read", f, o))
  BY DEF read, Outcomes, OutcomeSet
<1>2. file[f] # NULL /\ UNCHANGED <<fs, fds>>
  BY DEF read
<1>3. "read" \in Ops
  BY <1>1 DEF Simple, Begin, Admitted, Logging, OnFile, Frame
<1> DEFINE c == OnFile("read", f, o)
<1>4. /\ c \in Call /\ c.op = "read" /\ c.file = f /\ c.step = "store" /\ c.other = NULL
      /\ c.fd = NULL
  BY <1>2, <1>3, OnFileType
<1>5. Simple(t, c)
  BY <1>1
<1> HIDE DEF c
<1>6. Formed(c)
  BY <1>4, NullAssumption DEF Formed, Creating, OnFiles
<1>7. Begins(t, Logging(c))
  BY <1>4, <1>5, <1>6, SimpleBegins
<1> QED
  BY <1>2, <1>4, <1>7, LoggingType, SameAttributes
  DEF Quiet, TakesNone, fs, Creating, SameRequest

\* write opens the path that libfuse names the file by.
LEMMA WriteShape ==
  ASSUME TypeOK, NEW t \in Threads, NEW f \in Handles, write(t, f)
  PROVE  \E c \in Call : Quiet(t, c) \/ Opens(t, c)
<1>1. PICK o \in Outcomes(Writable(file[f].path) /\ FreeFds # {}) :
        IF o = LOG_SUCCESS
          THEN /\ Begin(t, [OnFile("write", f, o) EXCEPT !.step = "pwrite", !.fd = Min(FreeFds)])
               /\ fds' = Opened(dir[file[f].path])
          ELSE Simple(t, OnFile("write", f, o)) /\ UNCHANGED fds
  BY DEF write
<1>2. /\ o \in OutcomeSet
      /\ o = LOG_SUCCESS => dir[file[f].path] # NULL /\ FreeFds # {}
  BY <1>1 DEF Outcomes, OutcomeSet, Writable, IsKind, Exists, LOG_SUCCESS, LOG_UNSUCCESS
<1>3. file[f] # NULL /\ UNCHANGED fs
  BY DEF write
<1>4. "write" \in Ops
  BY <1>1 DEF Simple, Begin, Admitted, Logging, OnFile, Frame
<1> DEFINE c == OnFile("write", f, o)
<1>5. /\ c \in Call /\ c.op = "write" /\ c.path = file[f].path /\ c.file = f
      /\ c.step = "store" /\ c.other = NULL /\ c.fd = NULL /\ c.todo = << >>
  BY <1>2, <1>3, <1>4, OnFileType
<1>6. IF o = LOG_SUCCESS
        THEN /\ Begin(t, [c EXCEPT !.step = "pwrite", !.fd = Min(FreeFds)])
             /\ fds' = Opened(dir[file[f].path])
        ELSE Simple(t, c) /\ UNCHANGED fds
  BY <1>1
<1> HIDE DEF c
<1>7. f # NULL
  BY NullAssumption
<1>8. CASE o = LOG_SUCCESS
  <2> DEFINE d == [c EXCEPT !.step = "pwrite", !.fd = Min(FreeFds)]
  <2>1. Min(FreeFds) \in 1..MaxFds /\ fds[Min(FreeFds)] = NULL
    BY <1>2, <1>8, LowestFd
  <2>2. /\ d \in Call /\ d.op = "write" /\ d.path = file[f].path /\ d.file = f
        /\ d.step = "pwrite" /\ d.other = NULL /\ d.fd = Min(FreeFds) /\ d.todo = << >>
    BY <1>5, <2>1 DEF Call, Steps
  <2>3. Begin(t, d) /\ fds' = [fds EXCEPT ![Min(FreeFds)] = dir[file[f].path]]
    BY <1>6, <1>8 DEF Opened
  <2> HIDE DEF d
  <2>4. d.fd # NULL
    BY <2>1, <2>2, NullAssumption
  <2>5. Formed(d) /\ TodoIsDue(d)
    BY <1>7, <2>2, <2>4 DEF Formed, TodoIsDue, Creating, OnFiles
  <2>6. Begins(t, d)
    BY <2>2, <2>3, <2>5, BeginsCall
  <2>7. TakesFd(d, dir[d.path])
    BY <2>1, <2>2, <2>3 DEF TakesFd
  <2> QED
    BY <1>2, <1>3, <1>8, <2>2, <2>6, <2>7 DEF Opens
<1>9. CASE o # LOG_SUCCESS
  <2>1. Formed(c)
    BY <1>5, <1>7 DEF Formed, Creating, OnFiles
  <2>2. Begins(t, Logging(c))
    BY <1>5, <1>6, <1>9, <2>1, SimpleBegins
  <2> QED
    BY <1>3, <1>5, <1>6, <1>9, <2>2, LoggingType, SameAttributes
    DEF Quiet, TakesNone, fs, Creating, SameRequest
<1> QED
  BY <1>8, <1>9

\* release and fsync log whatever the filter says.
LEMMA ReleaseShape ==
  ASSUME TypeOK, NEW t \in Threads, NEW f \in Handles, release(t, f)
  PROVE  \E c \in Call : BeginsRelease(t, c)
<1> DEFINE b == OnFile("release", f, LOG_SUCCESS)
           c == [b EXCEPT !.todo = Named(b), !.fd = file[f].fd]
<1>1. file[f] # NULL /\ Begin(t, c) /\ UNCHANGED <<fs, fds>>
  BY DEF release
<1>2. "release" \in Ops
  BY <1>1 DEF Begin, Admitted, OnFile, Frame
<1>3. /\ b \in Call /\ b.op = "release" /\ b.path = file[f].path /\ b.file = f
      /\ b.step = "store" /\ b.other = NULL
  BY <1>1, <1>2, OnFileType DEF OutcomeSet
<1>4. Named(b) \in Seq(LogPaths)
  BY <1>3, NamedType
<1>5. file[f].fd \in 1..MaxFds /\ file[f].fd # NULL /\ f # NULL
  BY <1>1, NullAssumption DEF TypeOK, OpenFile
<1> HIDE DEF b
<1>6. /\ c \in Call /\ c.op = "release" /\ c.file = f /\ c.step = "store" /\ c.other = NULL
      /\ c.fd = file[f].fd /\ c.todo = Named(b) /\ Named(c) = Named(b)
  BY <1>3, <1>4, <1>5 DEF Call, Named
<1> HIDE DEF c
<1>7. Formed(c) /\ TodoIsDue(c)
  BY <1>5, <1>6 DEF Formed, TodoIsDue, Due, Creating, OnFiles
<1>8. Begins(t, c)
  BY <1>1, <1>6, <1>7, BeginsCall
<1> QED
  BY <1>1, <1>6, <1>8 DEF BeginsRelease

\* fsync only logs.
LEMMA FsyncShape ==
  ASSUME TypeOK, NEW t \in Threads, NEW f \in Handles, fsync(t, f)
  PROVE  \E c \in Call : Quiet(t, c)
<1> DEFINE b == OnFile("fsync", f, LOG_SUCCESS)
           c == [b EXCEPT !.todo = Named(b)]
<1>1. file[f] # NULL /\ Begin(t, c) /\ UNCHANGED <<fs, fds>>
  BY DEF fsync
<1>2. "fsync" \in Ops
  BY <1>1 DEF Begin, Admitted, OnFile, Frame
<1>3. /\ b \in Call /\ b.op = "fsync" /\ b.file = f /\ b.step = "store" /\ b.other = NULL
      /\ b.fd = NULL
  BY <1>1, <1>2, OnFileType DEF OutcomeSet
<1>4. Named(b) \in Seq(LogPaths) /\ f # NULL
  BY <1>3, NamedType, NullAssumption
<1> HIDE DEF b
<1>5. /\ c \in Call /\ c.op = "fsync" /\ c.file = f /\ c.step = "store" /\ c.other = NULL
      /\ c.fd = NULL /\ c.todo = Named(b) /\ Named(c) = Named(b)
  BY <1>3, <1>4 DEF Call, Named
<1> HIDE DEF c
<1>6. Formed(c) /\ TodoIsDue(c)
  BY <1>4, <1>5 DEF Formed, TodoIsDue, Due, Creating, OnFiles
<1>7. Begins(t, c)
  BY <1>1, <1>5, <1>6, BeginsCall
<1> QED
  BY <1>1, <1>5, <1>7, SameAttributes DEF Quiet, TakesNone, fs, Creating

\* A call that goes on is one, of its own request.
LEMMA GoesOnCall ==
  ASSUME NEW t \in Threads, NEW c \in Call, call[t] # NULL, call[t].step # "store",
         Continue(t, c), SameRequest(c, call[t]), Formed(c), TodoIsDue(c)
  PROVE  GoesOn(t, c)
BY DEF Continue, GoesOn

\* closedir gives the descriptor of opendir back.
LEMMA ClosedirShape ==
  ASSUME TypeOK, CallsAreFormed, NEW t \in Threads, closedir(t)
  PROVE  \E c \in Call : Closes(t, c)
<1>1. /\ call[t] # NULL /\ call[t].step = "closedir" /\ call[t] \in Call /\ Formed(call[t])
      /\ InOrder(call[t])
  BY DEF closedir, At, TypeOK, CallsAreFormed, InFlight
<1> DEFINE b == [call[t] EXCEPT !.fd = NULL]
<1>2. /\ b \in Call /\ SameRequest(b, call[t]) /\ b.fd = NULL /\ b.step = "closedir"
      /\ b.entry = call[t].entry
  BY <1>1 DEF Call, SameRequest
<1>3. call[t].op = "readdir" /\ call[t].fd # NULL
  BY <1>1 DEF Formed
<1>4. Continue(t, Logging(b)) /\ fds' = Closed(call[t].fd) /\ UNCHANGED fs
  BY DEF closedir
<1> HIDE DEF b
<1> DEFINE c == Logging(b)
<1>5. /\ c \in Call /\ SameRequest(c, call[t]) /\ c.fd = NULL /\ c.step = "store"
      /\ c.op = "readdir" /\ TodoIsDue(c)
      /\ c.entry = call[t].entry
  BY <1>2, <1>3, LoggingType DEF SameRequest
<1>6. Formed(c)
  BY <1>1, <1>3, <1>5 DEF Formed, SameRequest, OnFiles, Creating
<1>7. GoesOn(t, c)
  BY <1>1, <1>4, <1>5, <1>6, GoesOnCall
<1> QED
  BY <1>3, <1>4, <1>5, <1>7 DEF Closes

\* So does the close of mknod, which may fail.
LEMMA MknodCloseShape ==
  ASSUME TypeOK, CallsAreFormed, NEW t \in Threads, mknodClose(t)
  PROVE  \E c \in Call : Closes(t, c)
<1>1. /\ call[t] # NULL /\ call[t].step = "close" /\ call[t] \in Call /\ Formed(call[t])
      /\ InOrder(call[t])
  BY DEF mknodClose, At, TypeOK, CallsAreFormed, InFlight
<1>2. PICK o \in OutcomeSet :
        Continue(t, AfterMaking([call[t] EXCEPT !.fd = NULL, !.outcome = o]))
  BY DEF mknodClose, Outcomes, OutcomeSet
<1>3. fds' = Closed(call[t].fd) /\ UNCHANGED fs
  BY DEF mknodClose
<1>4. /\ call[t].op = "mknod" /\ call[t].fd # NULL /\ call[t].outcome = LOG_SUCCESS
      /\ call[t].todo = << >> /\ call[t].other = NULL /\ call[t].file = NULL
      /\ call[t].user \in Users /\ call[t].entry = "new"
  BY <1>1 DEF Formed, InOrder, OnFiles, Creating
<1> DEFINE b == [call[t] EXCEPT !.fd = NULL, !.outcome = o]
<1>5. /\ b \in Call /\ SameRequest(b, call[t]) /\ b.fd = NULL /\ b.outcome = o
      /\ b.todo = << >> /\ b.entry = "new"
  BY <1>1, <1>2, <1>4 DEF Call, SameRequest, OutcomeSet
<1>0. Continue(t, AfterMaking(b))
  BY <1>2
<1> HIDE DEF b
<1>6. CASE o = LOG_SUCCESS
  <2> DEFINE c == [b EXCEPT !.step = "lchown"]
  <2>1. /\ c \in Call /\ SameRequest(c, call[t]) /\ c.fd = NULL /\ c.outcome = LOG_SUCCESS
        /\ c.step = "lchown" /\ c.todo = << >> /\ c.entry = "new"
    BY <1>5, <1>6 DEF Call, SameRequest, Steps
  <2>2. Continue(t, c)
    BY <1>0, <1>5, <1>6 DEF AfterMaking
  <2> HIDE DEF c
  <2>3. Formed(c) /\ TodoIsDue(c)
    BY <1>4, <2>1 DEF Formed, TodoIsDue, SameRequest, OnFiles, Creating
  <2>4. GoesOn(t, c)
    BY <1>1, <2>1, <2>2, <2>3, GoesOnCall
  <2> QED
    BY <1>3, <1>4, <2>1, <2>4 DEF Closes, SameRequest
<1>7. CASE o # LOG_SUCCESS
  <2> DEFINE c == Logging(b)
  <2>1. /\ c \in Call /\ SameRequest(c, call[t]) /\ c.fd = NULL /\ c.step = "store"
        /\ c.outcome = o /\ c.entry = "new" /\ TodoIsDue(c)
    BY <1>4, <1>5, LoggingType DEF SameRequest
  <2>2. Formed(c)
    BY <1>4, <1>7, <2>1 DEF Formed, SameRequest, OnFiles, Creating
  <2>3. Continue(t, c)
    BY <1>0, <1>5, <1>7 DEF AfterMaking
  <2>4. GoesOn(t, c)
    BY <1>1, <2>1, <2>2, <2>3, GoesOnCall
  <2> QED
    BY <1>3, <1>4, <1>7, <2>1, <2>4 DEF Closes, SameRequest
<1> QED
  BY <1>6, <1>7

\* lchown hands the new entry over.
LEMMA LchownShape ==
  ASSUME TypeOK, CallsAreFormed, NEW t \in Threads, lchown(t)
  PROVE  \E c \in Call : HandsOver(t, c)
<1>1. /\ call[t] # NULL /\ call[t].step = "lchown" /\ call[t] \in Call /\ Formed(call[t])
  BY DEF lchown, At, TypeOK, CallsAreFormed, InFlight
<1>2. /\ call[t].op \in Creating \cup {"link"} /\ call[t].fd = NULL
      /\ call[t].outcome = LOG_SUCCESS
  BY <1>1 DEF Formed
<1> DEFINE e(o) == IF o = LOG_SUCCESS THEN "given" ELSE "kept"
           b(o) == [call[t] EXCEPT !.entry = e(o)]
<1>8. PICK o \in OutcomeSet :
        /\ LET path == IF call[t].op = "link" THEN call[t].other ELSE call[t].path
           IN inode' = IF o = LOG_SUCCESS
                        THEN [inode EXCEPT ![dir[path]].owner = call[t].user] ELSE inode
        /\ Continue(t, Logging(b(o)))
  BY DEF lchown, Outcomes, OutcomeSet
<1>9. /\ b(o) \in Call /\ SameRequest(b(o), call[t]) /\ b(o).fd = NULL
      /\ b(o).outcome = LOG_SUCCESS /\ b(o).entry = e(o)
  BY <1>1, <1>2 DEF Call, SameRequest
<1>10. e(o) \in {"given", "kept"} /\ (e(o) = "given" <=> o = LOG_SUCCESS)
  OBVIOUS
<1> HIDE DEF b, e
<1> DEFINE c == Logging(b(o))
<1>3. /\ c \in Call /\ SameRequest(c, call[t]) /\ c.fd = NULL /\ c.step = "store"
      /\ c.outcome = LOG_SUCCESS /\ c.entry = e(o) /\ TodoIsDue(c)
  BY <1>1, <1>2, <1>9, LoggingType DEF Creating, SameRequest
<1>4. Continue(t, c) /\ UNCHANGED <<dir, fds>>
  BY <1>8 DEF lchown
<1>5. LET path == IF call[t].op = "link" THEN call[t].other ELSE call[t].path
      IN inode' = IF c.entry = "given" THEN [inode EXCEPT ![dir[path]].owner = call[t].user] ELSE inode
  BY <1>3, <1>8, <1>10
<1> HIDE DEF c
<1>6. Formed(c)
  BY <1>1, <1>2, <1>3, <1>10 DEF Formed, SameRequest, OnFiles, Creating
<1>7. GoesOn(t, c)
  BY <1>1, <1>3, <1>4, <1>6, GoesOnCall
<1> QED
  BY <1>1, <1>2, <1>3, <1>4, <1>5, <1>7, <1>10 DEF HandsOver, SameRequest

\* pwrite writes to the descriptor that write has opened.
LEMMA PwriteShape ==
  ASSUME TypeOK, CallsAreFormed, Descriptors, Backed, NEW t \in Threads, pwrite(t)
  PROVE  \E c \in Call : Writes(t, c)
<1>1. /\ call[t] # NULL /\ call[t].step = "pwrite" /\ call[t] \in Call /\ Formed(call[t])
  BY DEF pwrite, At, TypeOK, CallsAreFormed, InFlight
<1>2. PICK o \in OutcomeSet :
        /\ Continue(t, Logging([call[t] EXCEPT !.outcome = o]))
        /\ IF o = LOG_SUCCESS THEN inode' = [inode EXCEPT ![fds[call[t].fd]].dirty = TRUE]
                              ELSE UNCHANGED inode
  BY DEF pwrite, AfterPwrite, Outcomes, OutcomeSet
<1>3. UNCHANGED <<dir, fds>>
  BY DEF pwrite
<1>4. call[t].op = "write" /\ call[t].fd # NULL
  BY <1>1 DEF Formed
<1> DEFINE b == [call[t] EXCEPT !.outcome = o]
<1>5. /\ b \in Call /\ SameRequest(b, call[t]) /\ b.fd = call[t].fd /\ b.outcome = o
  BY <1>1, <1>2 DEF Call, SameRequest, OutcomeSet
<1>0. Continue(t, Logging(b))
  BY <1>2
<1> HIDE DEF b
<1> DEFINE c == Logging(b)
<1>6. /\ c \in Call /\ SameRequest(c, call[t]) /\ c.fd = call[t].fd /\ c.step = "store"
      /\ TodoIsDue(c)
  BY <1>4, <1>5, LoggingType DEF SameRequest
<1>7. Continue(t, c)
  BY <1>0
<1> HIDE DEF c
<1>8. Formed(c)
  BY <1>1, <1>4, <1>6 DEF Formed, SameRequest, OnFiles, Creating
<1>9. GoesOn(t, c)
  BY <1>1, <1>6, <1>7, <1>8, GoesOnCall
<1>10. Attributes(c)
  <2>1. CASE o = LOG_SUCCESS
    <3> DEFINE i == fds[call[t].fd]
    <3>1. call[t].fd \in 1..MaxFds
      BY <1>1, <1>4 DEF Call
    <3>2. t \in Holders(call[t].fd)
      BY <1>1, <1>4 DEF Holders, InFlight
    <3>3. i # NULL
      BY <3>1, <3>2 DEF Descriptors
    <3>4. i \in Inodes /\ inode[i] # NULL /\ inode[i] \in Inode
      BY <3>1, <3>3 DEF TypeOK, Backed
    <3>5. /\ [inode[i] EXCEPT !.dirty = TRUE] \in Inode
          /\ [inode[i] EXCEPT !.dirty = TRUE].owner = inode[i].owner
          /\ [inode[i] EXCEPT !.dirty = TRUE].kind = inode[i].kind
      BY <3>4 DEF Inode
    <3>6. inode' = [inode EXCEPT ![i] = [inode[i] EXCEPT !.dirty = TRUE]]
      BY <1>2, <2>1
    <3> QED
      BY <3>4, <3>5, <3>6, NewAttributes
  <2>2. CASE o # LOG_SUCCESS
    BY <1>2, <2>2, SameAttributes
  <2> QED
    BY <2>1, <2>2
<1> QED
  BY <1>3, <1>4, <1>6, <1>9, <1>10 DEF Writes, SameRequest

-----------------------------------------------------------------------------
\* What a thread does in one step.
Step(t) ==
  \/ \E c \in Call :
       \/ Quiet(t, c) \/ Opens(t, c) \/ BeginsRelease(t, c) \/ Makes(t, c)
       \/ Links(t, c) \/ Removes(t, c) \/ Renames(t, c)
       \/ Closes(t, c) \/ HandsOver(t, c) \/ Writes(t, c)
  \/ Store_In_Hash(t)
  \/ openReply(t) \/ writeReply(t) \/ releaseReply(t) \/ renameReply(t) \/ otherReply(t)

\* The next-state relation is made of these steps.
LEMMA NextIsStep ==
  ASSUME TypeOK, CallsAreFormed, Descriptors, Backed, Next
  PROVE  UNCHANGED vars \/ \E t \in Threads : Step(t)
<1>1. CASE NoRequest
  BY <1>1 DEF NoRequest
<1>2. ASSUME NEW t \in Threads, NEW path \in Paths,
             \/ getattr(t, path) \/ readlink(t, path) \/ statfs(t, path)
             \/ utimens(t, path) \/ utime(t, path)
             \/ \E op \in XattrOps : xattr(t, op, path)
             \/ \E mask \in {"r", "w"} : access(t, path, mask)
      PROVE  \E c \in Call : Quiet(t, c)
  <2>1. PICK op \in {"getattr", "readlink", "statfs", "utimens", "utime", "access"} \cup XattrOps :
          \E possible : Look(t, op, path, possible)
    BY <1>2 DEF getattr, readlink, statfs, utimens, utime, xattr, access
  <2>2. op \notin OnFiles \cup Creating \cup {"link", "rename"}
    BY DEF OnFiles, Creating, XattrOps
  <2> QED
    BY <2>1, <2>2, LookIsQuiet
<1>3. ASSUME NEW t \in Threads, NEW path \in Paths,
             \/ truncate(t, path) \/ \E wr \in BOOLEAN : chmod(t, path, wr)
             \/ \E user \in Users : chown(t, path, user)
      PROVE  Step(t)
  BY <1>3, AttributesAreQuiet DEF Step
<1>4. ASSUME NEW t \in Threads, NEW path \in Paths,
             readdir(t, path) \/ unlink(t, path) \/ rmdir(t, path)
      PROVE  Step(t)
  BY <1>4, ReaddirShape, RemoveShape DEF Step
<1>5. ASSUME NEW t \in Threads, NEW path \in Paths, NEW mode \in {"r", "w"}, NEW f \in Handles,
             open(t, path, mode, f)
      PROVE  Step(t)
  BY <1>5, OpenShape DEF Step
<1>6. ASSUME NEW t \in Threads, NEW path \in Paths, NEW to \in Paths, rename(t, path, to)
      PROVE  Step(t)
  BY <1>6, RenameShape DEF Step
<1>7. ASSUME NEW t \in Threads, NEW path \in Paths, NEW user \in Users,
             \/ mkfifo(t, path, user) \/ mkdir(t, path, user)
             \/ \E from \in Targets : symlink(t, from, path, user)
      PROVE  Step(t)
  BY <1>7, EntryShapes DEF Step
<1>8. ASSUME NEW t \in Threads, NEW path \in Paths, NEW user \in Users, mknod(t, path, user)
      PROVE  Step(t)
  BY <1>8, MknodShape DEF Step
<1>9. ASSUME NEW t \in Threads, NEW path \in Paths, NEW user \in Users, NEW to \in Paths,
             link(t, path, to, user)
      PROVE  Step(t)
  BY <1>9, LinkShape DEF Step
<1>10. ASSUME NEW t \in Threads, NEW f \in Handles,
              read(t, f) \/ write(t, f) \/ release(t, f) \/ fsync(t, f)
       PROVE  Step(t)
  BY <1>10, ReadShape, WriteShape, ReleaseShape, FsyncShape DEF Step
<1>11. ASSUME NEW t \in Threads,
              \/ closedir(t) \/ mknodClose(t) \/ lchown(t) \/ pwrite(t)
       PROVE  Step(t)
  BY <1>11, ClosedirShape, MknodCloseShape, LchownShape, PwriteShape DEF Step
<1>12. ASSUME NEW t \in Threads,
              \/ Store_In_Hash(t) \/ openReply(t) \/ writeReply(t) \/ releaseReply(t)
              \/ renameReply(t) \/ otherReply(t)
       PROVE  Step(t)
  BY <1>12 DEF Step
<1>13. \A t \in Threads : (\E c \in Call : Quiet(t, c)) => Step(t)
  BY DEF Step
<1> QED
  BY <1>1, <1>2, <1>3, <1>4, <1>5, <1>6, <1>7, <1>8, <1>9, <1>10, <1>11, <1>12, <1>13
  DEF Next
=============================================================================
