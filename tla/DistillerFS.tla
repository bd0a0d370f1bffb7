---------------------------- MODULE DistillerFS ----------------------------
(***************************************************************************)
(* The FUSE handlers of src/src/distillerfs.c, run by the worker threads   *)
(* of a mounted file system over a real directory.                         *)
(*                                                                         *)
(* A call has a first step, its system call, and then one step per further *)
(* access to what the threads share: the log (one step per Store_In_Hash,  *)
(* which module StoreInHash shows to be indivisible), the descriptors of   *)
(* the process and the owner of a new file.  The last step is the reply.   *)
(*                                                                         *)
(* External to the code, and modelled from how it is used: the system      *)
(* calls, and the rules of the kernel and of libfuse about which requests  *)
(* run at the same time (section "Requests").                              *)
(***************************************************************************)
EXTENDS Integers, FiniteSets, FiniteSetsExt, LogFilter, LogTable

CONSTANTS
  Threads,     \* FUSE worker threads
  Paths,       \* paths below the mount point, all in one directory
  Targets,     \* texts a symbolic link may hold
  Mounted,     \* Mounted[p] : the inode p names when the mount begins, or NULL
  Inodes,      \* identities of files of the real file system
  Handles,     \* open files of the kernel
  Users,       \* who makes requests
  Daemon,      \* the user the monitor runs as
  Privileged,  \* TRUE iff that user is root
  MayFail,     \* TRUE iff a system call may fail for a reason not modelled
  MaxFds,      \* limit on open descriptors (start_distfs.sh: ulimit -n)
  Ops,         \* the operations the clients use
  MaxCalls,    \* bound: calls in a behaviour
  NULL

VARIABLES
  dir,      \* dir[p] : the inode path p names, or NULL
  inode,    \* inode[i] : its kind, owner, write permission and dirtiness, or NULL
  fds,      \* fds[d] : the inode descriptor d of the process is open on, or NULL
  file,     \* file[f] : the open file f of the kernel, with fi->fh, or NULL
  log,      \* log_hash
  call,     \* call[t] : the call thread t runs, or NULL
  calls,    \* calls made so far
  owed      \* what the finished calls have to have left in the log

vars == <<dir, inode, fds, file, log, call, calls, owed>>
fs == <<dir, inode>>

LogPaths == Paths \cup Targets

Inode == [kind : {"reg", "dir", "symlink", "fifo"}, owner : Users \cup {Daemon},
          wr : BOOLEAN, dirty : BOOLEAN]

OpenFile == [path : Paths, mode : {"r", "w"}, fd : 1..MaxFds, inode : Inodes]

Steps == {"closedir", "close", "lchown", "pwrite", "store"}

\* A call under way: what was asked, how its system call went, what it still
\* holds, and the paths it has still to log.  `entry` is auxiliary: what has
\* become of an entry that the call made, which no handler remembers.
Call == [op : Ops, path : Paths, other : LogPaths \cup {NULL},
         outcome : {LOG_SUCCESS, LOG_UNSUCCESS}, user : Users \cup {NULL},
         file : Handles \cup {NULL}, mode : {"r", "w", NULL},
         fd : 1..MaxFds \cup {NULL}, entry : {"new", "given", "kept", NULL},
         step : Steps, todo : Seq(LogPaths)]

ASSUME NullAssumption ==
  /\ NULL \notin Inodes /\ NULL \notin Handles /\ NULL \notin Users /\ NULL \notin LogPaths
  /\ NULL \notin Int /\ NULL \notin Inode /\ NULL \notin OpenFile /\ NULL \notin Call
  /\ NULL \notin {"r", "w"} \cup {"new", "given", "kept"}
ASSUME ActorsAssumption == IsFiniteSet(Threads) /\ Threads \cap Handles = {}
ASSUME MountedAssumption == Mounted \in [Paths -> Inodes \cup {NULL}]
ASSUME BoundsAssumption == MaxFds \in Nat /\ MaxCalls \in Nat

\* What a call names, in the order in which its handler logs it.
Named(c) == IF c.other = NULL THEN <<c.path>> ELSE <<c.path, c.other>>

InFlight == {t \in Threads : call[t] # NULL}

-----------------------------------------------------------------------------
(***************************************************************************)
(* Requests.  The kernel holds the lock of the directory during every      *)
(* request that creates, removes or renames an entry, and shows the entry  *)
(* to no other request meanwhile; libfuse holds the nodes of a path while  *)
(* a request uses it.  An unlink of an open file, or a rename over one,    *)
(* reaches the handlers as a rename to a hidden path.                      *)
(***************************************************************************)
EntryOps == {"mknod", "mkdir", "unlink", "rmdir", "symlink", "rename", "link"}

\* The paths whose entry a request changes, and the paths it uses.
Entries(c) ==
  CASE c.op \in {"mknod", "mkdir", "unlink", "rmdir", "symlink"} -> {c.path}
    [] c.op = "link"   -> {c.other}
    [] c.op = "rename" -> {c.path, c.other}
    [] OTHER           -> {}

Uses(c) == IF c.op \in {"rename", "link"} THEN {c.path, c.other} ELSE {c.path}

IsOpen(path) ==
  \/ \E f \in Handles : file[f] # NULL /\ file[f].path = path
  \/ \E t \in InFlight : call[t].op = "open" /\ call[t].path = path

Admitted(c) ==
  /\ c.op \in Ops
  /\ calls < MaxCalls
  /\ \A t \in InFlight :
       /\ ~(c.op \in EntryOps /\ call[t].op \in EntryOps)
       /\ Entries(c) \cap Uses(call[t]) = {}
       /\ Uses(c) \cap Entries(call[t]) = {}
       /\ c.file # NULL => call[t].file # c.file \/ {c.op, call[t].op} \cap {"open", "release"} = {}
  /\ c.op = "unlink" => ~IsOpen(c.path)
  /\ c.op = "rename" => ~IsOpen(c.other) /\ c.path # c.other

-----------------------------------------------------------------------------
(***************************************************************************)
(* System calls.                                                           *)
(***************************************************************************)
Exists(path) == dir[path] # NULL
IsKind(path, kind) == Exists(path) /\ inode[dir[path]].kind = kind

\* open(path, O_WRONLY) and truncate(path) as the user of the monitor.
Writable(path) ==
  IsKind(path, "reg") /\ (Privileged \/ inode[dir[path]].wr)

\* The mode and the times of an inode belong to its owner.
Owned(path) == Exists(path) /\ (Privileged \/ inode[dir[path]].owner = Daemon)

FreeFds == {d \in 1..MaxFds : fds[d] = NULL}
FreeInodes == {i \in Inodes : inode[i] = NULL}

Outcomes(possible) ==
  {o \in {LOG_SUCCESS, LOG_UNSUCCESS} :
     IF o = LOG_SUCCESS THEN possible ELSE MayFail \/ ~possible}

NewFile(kind, owner) == [kind |-> kind, owner |-> owner, wr |-> TRUE, dirty |-> FALSE]

\* A descriptor is the lowest one that is free.
Opened(i) == [fds EXCEPT ![Min(FreeFds)] = i]

\* The inodes that are left when the entries are d and the descriptors are o.
Reclaimed(d, o) ==
  [i \in Inodes |-> IF \/ \E p \in Paths : d[p] = i
                       \/ \E n \in 1..MaxFds : o[n] = i
                    THEN inode[i] ELSE NULL]

\* Variant of Closed: the descriptor stays open.
NotClosed(d) == fds

Closed(d) == [fds EXCEPT ![d] = NULL]

\* A new entry, owned by the user of the monitor.
Create(path, kind, i) ==
  /\ dir' = [dir EXCEPT ![path] = i]
  /\ inode' = [inode EXCEPT ![i] = NewFile(kind, Daemon)]

-----------------------------------------------------------------------------
(***************************************************************************)
(* The frame of a call.                                                    *)
(***************************************************************************)
\* Variants of ToLog: a failed call asks for LOG_SUCCESS; only the first path.
ToLogSuccess(c) == IF should_log(c.op, LOG_SUCCESS) THEN Named(c) ELSE << >>
ToLogOne(c) == IF should_log(c.op, c.outcome) THEN <<c.path>> ELSE << >>

\* The paths a handler logs: those it names, if its filter lets the outcome
\* through.
ToLog(c) == IF should_log(c.op, c.outcome) THEN Named(c) ELSE << >>

Frame(op, path, outcome) ==
  [op |-> op, path |-> path, other |-> NULL, outcome |-> outcome,
   user |-> NULL, file |-> NULL, mode |-> NULL, fd |-> NULL, entry |-> NULL,
   step |-> "store", todo |-> << >>]

\* The call is ready to log, with the outcome it has now.
Logging(c) == [c EXCEPT !.step = "store", !.todo = ToLog(c)]

Begin(t, c) ==
  /\ call[t] = NULL
  /\ Admitted(c)
  /\ call' = [call EXCEPT ![t] = c]
  /\ calls' = calls + 1
  /\ UNCHANGED <<file, log, owed>>

\* The first step of a handler that is a system call, the log and the reply.
Simple(t, c) == Begin(t, Logging(c))

\* A later step of thread t, which leaves the frame c.
Continue(t, c) ==
  /\ call' = [call EXCEPT ![t] = c]
  /\ UNCHANGED <<file, log, calls, owed>>

At(t, step) == call[t] # NULL /\ call[t].step = step

-----------------------------------------------------------------------------

Init ==
  /\ dir = Mounted
  /\ inode = [i \in Inodes |-> IF \E p \in Paths : Mounted[p] = i
                                 THEN NewFile("reg", Daemon) ELSE NULL]
  /\ fds = [d \in 1..MaxFds |-> NULL]
  /\ file = [f \in Handles |-> NULL]
  /\ log = EmptyLog
  /\ call = [t \in Threads |-> NULL]
  /\ calls = 0
  /\ owed = EmptyLog

(***************************************************************************)
(* Handlers that change nothing that is modelled.                          *)
(***************************************************************************)
Look(t, op, path, possible) ==
  \E o \in Outcomes(possible) : Simple(t, Frame(op, path, o)) /\ UNCHANGED <<fs, fds>>

getattr(t, path) == Look(t, "getattr", path, Exists(path))

access(t, path, mask) ==
  Look(t, "access", path, IF mask = "w" THEN Writable(path) ELSE Exists(path))

readlink(t, path) == Look(t, "readlink", path, IsKind(path, "symlink"))

statfs(t, path) == Look(t, "statfs", path, Exists(path))

\* FUSE_USE_VERSION decides which of the two is built.
utimens(t, path) == Look(t, "utimens", path, Owned(path))
utime(t, path) == Look(t, "utime", path, Owned(path))

\* HAVE_SETXATTR.  These four do not make the path relative to the covered
\* directory: the system call goes to whatever has that name in the host's root.
XattrOps == {"setxattr", "getxattr", "listxattr", "removexattr"}

xattr(t, op, path) ==
  \E possible \in BOOLEAN : op \in XattrOps /\ Look(t, op, path, possible)

\* opendir takes a descriptor, which closedir gives back before the log.
readdir(t, path) ==
  \E o \in Outcomes(IsKind(path, "dir") /\ FreeFds # {}) :
    LET c == Frame("readdir", path, o)
    IN /\ IF o = LOG_SUCCESS
            THEN /\ Begin(t, [c EXCEPT !.step = "closedir", !.fd = Min(FreeFds)])
                 /\ fds' = Opened(dir[path])
            ELSE Simple(t, c) /\ UNCHANGED fds
       /\ UNCHANGED fs

closedir(t) ==
  /\ At(t, "closedir")
  /\ fds' = Closed(call[t].fd)
  /\ Continue(t, Logging([call[t] EXCEPT !.fd = NULL]))
  /\ UNCHANGED fs

(***************************************************************************)
(* Handlers that change attributes.                                        *)
(***************************************************************************)
chmod(t, path, wr) ==
  \E o \in Outcomes(Owned(path) /\ ~IsKind(path, "symlink")) :
    /\ Simple(t, Frame("chmod", path, o))
    /\ IF o = LOG_SUCCESS THEN inode' = [inode EXCEPT ![dir[path]].wr = wr] ELSE UNCHANGED inode
    /\ UNCHANGED <<dir, fds>>

chown(t, path, user) ==
  \E o \in Outcomes(Exists(path) /\ Privileged) :
    /\ Simple(t, Frame("chown", path, o))
    /\ IF o = LOG_SUCCESS
         THEN inode' = [inode EXCEPT ![dir[path]].owner = user] ELSE UNCHANGED inode
    /\ UNCHANGED <<dir, fds>>

truncate(t, path) ==
  \E o \in Outcomes(Writable(path)) :
    /\ Simple(t, Frame("truncate", path, o))
    /\ IF o = LOG_SUCCESS THEN inode' = [inode EXCEPT ![dir[path]].dirty = TRUE] ELSE UNCHANGED inode
    /\ UNCHANGED <<dir, fds>>

(***************************************************************************)
(* Handlers that create an entry: the system call, and lchown to the user  *)
(* of the request, which may fail: nobody looks at its result.             *)
(***************************************************************************)
\* Variants of AfterMaking: lchown also after a failure; forgotten in mkdir.
AfterMakingAlways(c) == [c EXCEPT !.step = "lchown"]
AfterMakingNotDir(c) ==
  IF c.outcome = LOG_SUCCESS /\ c.op # "mkdir" THEN [c EXCEPT !.step = "lchown"] ELSE Logging(c)

AfterMaking(c) ==
  IF c.outcome = LOG_SUCCESS THEN [c EXCEPT !.step = "lchown"] ELSE Logging(c)

\* The call after its system call, which has made an entry or not.
MadeEntry(c, o) == [c EXCEPT !.outcome = o, !.entry = IF o = LOG_SUCCESS THEN "new" ELSE NULL]

\* The system call of mkdir, symlink, and mknod for a fifo.
MakeEntry(t, c, kind) ==
  \E o \in Outcomes(~Exists(c.path) /\ FreeInodes # {}) :
    /\ Begin(t, AfterMaking(MadeEntry(c, o)))
    /\ IF o = LOG_SUCCESS
         THEN \E i \in FreeInodes : Create(c.path, kind, i)
         ELSE UNCHANGED fs
    /\ UNCHANGED fds

RequestBy(user, op, path) == [Frame(op, path, LOG_SUCCESS) EXCEPT !.user = user]

mkdir(t, path, user) == MakeEntry(t, RequestBy(user, "mkdir", path), "dir")

symlink(t, from, path, user) ==
  MakeEntry(t, [RequestBy(user, "symlink", path) EXCEPT !.other = from], "symlink")

mkfifo(t, path, user) == MakeEntry(t, RequestBy(user, "mknod", path), "fifo")

\* A regular file is created by open(O_CREAT|O_EXCL), then closed.
mknod(t, path, user) ==
  LET c == RequestBy(user, "mknod", path)
  IN \E o \in Outcomes(~Exists(path) /\ FreeInodes # {} /\ FreeFds # {}) :
       IF o = LOG_SUCCESS
         THEN /\ Begin(t, [MadeEntry(c, o) EXCEPT !.step = "close", !.fd = Min(FreeFds)])
              /\ \E i \in FreeInodes : Create(path, "reg", i) /\ fds' = Opened(i)
         ELSE Simple(t, MadeEntry(c, o)) /\ UNCHANGED <<fs, fds>>

\* If close fails, the call fails, with the file created and not handed over.
mknodClose(t) ==
  /\ At(t, "close")
  /\ fds' = Closed(call[t].fd)
  /\ \E o \in Outcomes(TRUE) :
       Continue(t, AfterMaking([call[t] EXCEPT !.fd = NULL, !.outcome = o]))
  /\ UNCHANGED fs

\* link shares the inode of `path` under the name `other`.
link(t, from, to, user) ==
  LET c == [RequestBy(user, "link", from) EXCEPT !.other = to]
  IN \E o \in Outcomes(Exists(from) /\ ~IsKind(from, "dir") /\ ~Exists(to)) :
       /\ Begin(t, AfterMaking(MadeEntry(c, o)))
       /\ dir' = IF o = LOG_SUCCESS THEN [dir EXCEPT ![to] = dir[from]] ELSE dir
       /\ UNCHANGED <<inode, fds>>

lchown(t) ==
  LET path == IF call[t].op = "link" THEN call[t].other ELSE call[t].path
  IN /\ At(t, "lchown")
     /\ \E o \in Outcomes(Privileged) :
          /\ inode' = IF o = LOG_SUCCESS
                       THEN [inode EXCEPT ![dir[path]].owner = call[t].user] ELSE inode
          /\ Continue(t, Logging([call[t] EXCEPT
                                    !.entry = IF o = LOG_SUCCESS THEN "given" ELSE "kept"]))
     /\ UNCHANGED <<dir, fds>>

(***************************************************************************)
(* Handlers that remove or rename an entry.                                *)
(***************************************************************************)
RemoveEntry(t, op, path, possible) ==
  \E o \in Outcomes(possible) :
    /\ Simple(t, Frame(op, path, o))
    /\ dir' = IF o = LOG_SUCCESS THEN [dir EXCEPT ![path] = NULL] ELSE dir
    /\ inode' = Reclaimed(dir', fds)
    /\ UNCHANGED fds

unlink(t, path) == RemoveEntry(t, "unlink", path, Exists(path) /\ ~IsKind(path, "dir"))

rmdir(t, path) == RemoveEntry(t, "rmdir", path, IsKind(path, "dir"))

\* Variant of Moved: the arguments of the system call swapped.
MovedSwapped(from, to) ==
  IF dir[from] = dir[to] THEN dir
  ELSE [dir EXCEPT ![from] = dir[to], ![to] = NULL]

\* Two names of one inode: rename does nothing.
Moved(from, to) ==
  IF dir[from] = dir[to] THEN dir
  ELSE [dir EXCEPT ![to] = dir[from], ![from] = NULL]

rename(t, from, to) ==
  LET possible == Exists(from) /\ (Exists(to) => IsKind(from, "dir") = IsKind(to, "dir"))
  IN \E o \in Outcomes(possible) :
       /\ Begin(t, Logging([Frame("rename", from, o) EXCEPT !.other = to]))
       /\ dir' = IF o = LOG_SUCCESS THEN Moved(from, to) ELSE dir
       /\ inode' = Reclaimed(dir', fds)
       /\ UNCHANGED fds

(***************************************************************************)
(* Handlers of open files.  fi->fh is file[f].fd.                          *)
(***************************************************************************)
open(t, path, mode, f) ==
  /\ file[f] = NULL
  /\ \E o \in Outcomes(/\ IsKind(path, "reg") /\ (mode = "w" => Writable(path))
                       /\ FreeFds # {}) :
       LET c == [Frame("open", path, o) EXCEPT !.file = f, !.mode = mode]
       IN IF o = LOG_SUCCESS
            THEN Simple(t, [c EXCEPT !.fd = Min(FreeFds)]) /\ fds' = Opened(dir[path])
            ELSE Simple(t, c) /\ UNCHANGED fds
  /\ UNCHANGED fs

\* A request on the open file f, which libfuse names by its current path.
OnFile(op, f, outcome) == [Frame(op, file[f].path, outcome) EXCEPT !.file = f]

read(t, f) ==
  /\ file[f] # NULL
  /\ \E o \in Outcomes(fds[file[f].fd] # NULL) : Simple(t, OnFile("read", f, o))
  /\ UNCHANGED <<fs, fds>>

\* write leaves fi->fh aside and opens the path again.
write(t, f) ==
  /\ file[f] # NULL
  /\ file[f].mode = "w"
  /\ \E o \in Outcomes(Writable(file[f].path) /\ FreeFds # {}) :
       LET c == OnFile("write", f, o)
       IN IF o = LOG_SUCCESS
            THEN /\ Begin(t, [c EXCEPT !.step = "pwrite", !.fd = Min(FreeFds)])
                 /\ fds' = Opened(dir[file[f].path])
            ELSE Simple(t, c) /\ UNCHANGED fds
  /\ UNCHANGED fs

\* Variant of AfterPwrite: a failed pwrite returns without close, as a failed open.
AfterPwriteEarly(c) ==
  Logging(IF c.outcome = LOG_SUCCESS THEN c ELSE [c EXCEPT !.fd = NULL])

AfterPwrite(c) == Logging(c)

pwrite(t) ==
  /\ At(t, "pwrite")
  /\ \E o \in Outcomes(TRUE) :
       /\ Continue(t, AfterPwrite([call[t] EXCEPT !.outcome = o]))
       /\ IF o = LOG_SUCCESS THEN inode' = [inode EXCEPT ![fds[call[t].fd]].dirty = TRUE]
                             ELSE UNCHANGED inode
  /\ UNCHANGED <<dir, fds>>

\* release and fsync log without asking should_log; fsync does nothing else.
release(t, f) ==
  /\ file[f] # NULL
  /\ LET c == OnFile("release", f, LOG_SUCCESS)
     IN Begin(t, [c EXCEPT !.todo = Named(c), !.fd = file[f].fd])
  /\ UNCHANGED <<fs, fds>>

fsync(t, f) ==
  /\ file[f] # NULL
  /\ LET c == OnFile("fsync", f, LOG_SUCCESS)
     IN Begin(t, [c EXCEPT !.todo = Named(c)])
  /\ UNCHANGED <<fs, fds>>

-----------------------------------------------------------------------------
(***************************************************************************)
(* The log and the reply.                                                  *)
(***************************************************************************)
\* Store_In_Hash for the next path of the call.
Store_In_Hash(t) ==
  /\ At(t, "store")
  /\ call[t].todo # << >>
  /\ LET path == Head(call[t].todo)
     IN log' = IF LoggedPath(path) THEN Recorded(log, path, call[t].op) ELSE log
  /\ call' = [call EXCEPT ![t].todo = Tail(@)]
  /\ UNCHANGED <<fs, fds, file, calls, owed>>

\* What a call has to leave in the log: the paths it names, when they are not
\* filtered out.  The filter of release and of fsync is not asked.
Due(c) ==
  IF c.op \in {"release", "fsync"} \/ should_log(c.op, c.outcome) THEN Named(c) ELSE << >>

\* The entries of Due(c) for path p, and their number and flag in a log.
DueFor(c, p) == {k \in DOMAIN Due(c) : LoggedPath(p) /\ Due(c)[k] = p}

CountIn(l, p) == IF p \in DOMAIN l THEN l[p].count ELSE 0
FlagsIn(l, p) == IF p \in DOMAIN l THEN l[p].flags ELSE {}

\* What is owed to the log after one more call.
Logged(l, c) ==
  [p \in DOMAIN l \cup {p \in LogPaths : DueFor(c, p) # {}} |->
     [count |-> CountIn(l, p) + Cardinality(DueFor(c, p)),
      flags |-> FlagsIn(l, p) \cup (IF DueFor(c, p) # {} THEN {c.op} ELSE {})]]

\* Variant of Ready: the reply does not wait for the log.
ReadyEarly(t) == At(t, "store")

Ready(t) == At(t, "store") /\ call[t].todo = << >>

Reply(t) ==
  /\ call' = [call EXCEPT ![t] = NULL]
  /\ owed' = Logged(owed, call[t])
  /\ UNCHANGED <<log, calls>>

\* Variant of FhOf: fi->fh is not set and stays 0.
FhUnset(c) == 0

\* open: fi->fh = res.
FhOf(c) == c.fd

openReply(t) ==
  /\ Ready(t)
  /\ call[t].op = "open" /\ call[t].fd # NULL
  /\ file' = [file EXCEPT ![call[t].file] =
                [path |-> call[t].path, mode |-> call[t].mode,
                 fd |-> FhOf(call[t]), inode |-> fds[call[t].fd]]]
  /\ Reply(t)
  /\ UNCHANGED <<fs, fds>>

\* write: close(fd).
writeReply(t) ==
  /\ Ready(t)
  /\ call[t].op = "write" /\ call[t].fd # NULL
  /\ fds' = Closed(call[t].fd)
  /\ inode' = Reclaimed(dir, fds')
  /\ Reply(t)
  /\ UNCHANGED <<dir, file>>

\* release: close(fi->fh), and the kernel forgets the open file.
releaseReply(t) ==
  /\ Ready(t)
  /\ call[t].op = "release"
  /\ fds' = Closed(call[t].fd)
  /\ file' = [file EXCEPT ![call[t].file] = NULL]
  /\ inode' = Reclaimed(dir, fds')
  /\ Reply(t)
  /\ UNCHANGED dir

\* After a rename libfuse uses the new path for the files open under the old.
renameReply(t) ==
  /\ Ready(t)
  /\ call[t].op = "rename" /\ call[t].outcome = LOG_SUCCESS
  /\ file' = [f \in Handles |->
                IF file[f] # NULL /\ file[f].path = call[t].path
                  THEN [file[f] EXCEPT !.path = call[t].other] ELSE file[f]]
  /\ Reply(t)
  /\ UNCHANGED <<fs, fds>>

\* Every other handler has nothing left to do.
otherReply(t) ==
  /\ Ready(t)
  /\ call[t].op # "release"
  /\ call[t].op \in {"open", "write"} => call[t].fd = NULL
  /\ call[t].op = "rename" => call[t].outcome = LOG_UNSUCCESS
  /\ Reply(t)
  /\ UNCHANGED <<fs, fds, file>>

\* Nobody has to make a request; a call that has begun may not get stuck.
NoRequest == InFlight = {} /\ UNCHANGED vars

Next ==
  \/ NoRequest
  \/ \E t \in Threads :
      \/ \E path \in Paths :
           \/ getattr(t, path) \/ readlink(t, path) \/ statfs(t, path)
           \/ utimens(t, path) \/ utime(t, path) \/ readdir(t, path) \/ truncate(t, path)
           \/ unlink(t, path) \/ rmdir(t, path)
           \/ \E op \in XattrOps : xattr(t, op, path)
           \/ \E mask \in {"r", "w"} : access(t, path, mask)
           \/ \E wr \in BOOLEAN : chmod(t, path, wr)
           \/ \E mode \in {"r", "w"}, f \in Handles : open(t, path, mode, f)
           \/ \E to \in Paths : rename(t, path, to)
           \/ \E user \in Users :
                \/ chown(t, path, user)
                \/ mknod(t, path, user) \/ mkfifo(t, path, user) \/ mkdir(t, path, user)
                \/ \E from \in Targets : symlink(t, from, path, user)
                \/ \E to \in Paths : link(t, path, to, user)
      \/ \E f \in Handles : read(t, f) \/ write(t, f) \/ release(t, f) \/ fsync(t, f)
      \/ closedir(t) \/ mknodClose(t) \/ lchown(t) \/ pwrite(t)
      \/ Store_In_Hash(t)
      \/ openReply(t) \/ writeReply(t) \/ releaseReply(t) \/ renameReply(t) \/ otherReply(t)

Spec == Init /\ [][Next]_vars

-----------------------------------------------------------------------------
(***************************************************************************)
(* Properties.                                                             *)
(***************************************************************************)
IsLog(l) ==
  DOMAIN l \subseteq LogPaths /\ l \in [DOMAIN l -> [count : Nat, flags : SUBSET Ops]]

\* Each variable holds what the code and the kernel may put there.
TypeOK ==
  /\ dir \in [Paths -> Inodes \cup {NULL}]
  /\ inode \in [Inodes -> Inode \cup {NULL}]
  /\ fds \in [1..MaxFds -> Inodes \cup {NULL}]
  /\ file \in [Handles -> OpenFile \cup {NULL}]
  /\ call \in [Threads -> Call \cup {NULL}]
  /\ IsLog(log) /\ IsLog(owed)
  /\ calls \in 0..MaxCalls

Holders(d) ==
  {f \in Handles : file[f] # NULL /\ file[f].fd = d}
    \cup {t \in InFlight : call[t].op # "release" /\ call[t].fd = d}

\* Every open descriptor has exactly one owner, an open file of the kernel or a
\* call that runs: none leaks on any path through a handler, and none is closed
\* or handed out twice.  An open file whose descriptor was closed would read
\* another file once the number is reused.
OneOwnerPerFd ==
  \A d \in 1..MaxFds : Cardinality(Holders(d)) = (IF fds[d] = NULL THEN 0 ELSE 1)

\* Reads and writes on an open file reach the inode that was opened, though
\* read uses fi->fh and write opens the path of the moment: a rename, a hard link
\* or an unlink by another client may come between any two steps.
OpenFileIsOneInode ==
  \A f \in Handles : file[f] # NULL =>
    /\ fds[file[f].fd] = file[f].inode
    /\ \/ dir[file[f].path] = file[f].inode
       \/ \E t \in InFlight : call[t].op = "rename" /\ call[t].path = file[f].path
    /\ \A t \in InFlight :
         call[t].op = "write" /\ call[t].file = f /\ call[t].fd # NULL
           => fds[call[t].fd] = file[f].inode

\* The entries for p that the calls under way have made so far.
EntriesFor(p) ==
  {e \in Threads \X (1..2) :
     /\ e[1] \in InFlight /\ call[e[1]].step = "store"
     /\ e[2] \in DueFor(call[e[1]], p)
     /\ e[2] <= Len(Due(call[e[1]])) - Len(call[e[1]].todo)}

\* The log is exact at every moment: the counter of a path is the number of
\* finished calls that owe it an entry plus the entries of calls still running,
\* and its flags are theirs.  No handler forgets a path, logs one twice, logs
\* one it did not touch, or asks the filter of another outcome.
LogIsExact ==
  \A p \in LogPaths :
    /\ CountIn(log, p) = CountIn(owed, p) + Cardinality(EntriesFor(p))
    /\ FlagsIn(log, p) = FlagsIn(owed, p) \cup {call[e[1]].op : e \in EntriesFor(p)}

\* A client that got a handle finds the open in the log already: the entry is
\* made before fi->fh is set.
OpenIsLogged ==
  [][\A f \in Handles :
       file[f] = NULL /\ file'[f] # NULL /\ should_log("open", LOG_SUCCESS)
         /\ LoggedPath(file'[f].path)
       => "open" \in FlagsIn(log, file'[f].path)]_vars

\* Whom a new file, fifo, directory or symbolic link belongs to when the call
\* gets to the log.  lchown finds the entry the call has made, by its path and
\* whatever else is going on: the entry is the user's, unless lchown itself has
\* failed.  Every call that reports a success has tried; one that fails after it
\* has made the entry, in close, has not, and leaves the entry to the monitor's
\* user.
CreatorOwns ==
  \A t \in InFlight :
    LET c == call[t]
    IN c.op \in {"mknod", "mkdir", "symlink"} /\ c.step = "store" =>
         /\ c.outcome = LOG_SUCCESS <=> c.entry \in {"given", "kept"}
         /\ c.entry # NULL =>
              /\ Exists(c.path)
              /\ inode[dir[c.path]].owner = IF c.entry = "given" THEN c.user ELSE Daemon

\* Nothing but chown, and the creation of the inode itself, changes who owns it.
OnlyChownChangesOwner ==
  [][\A i \in Inodes :
       inode[i] # NULL /\ inode'[i] # NULL /\ inode'[i].owner # inode[i].owner =>
         \E t \in Threads :
           \/ /\ call[t] = NULL /\ call'[t] # NULL
              /\ call'[t].op = "chown" /\ dir[call'[t].path] = i
           \/ /\ At(t, "lchown") /\ call'[t].step = "store"
              /\ call[t].op \in {"mknod", "mkdir", "symlink"}
              /\ call[t].entry = "new" /\ call'[t].entry = "given"
              /\ dir[call[t].path] = i]_vars

\* When fsync returns, what was written before it is on the disk.  Stated for
\* one worker thread, where nothing is written while fsync runs.
FsyncMakesDurable ==
  [][\A t \in Threads :
       call[t] # NULL /\ call[t].op = "fsync" /\ call'[t] = NULL
         => ~inode[file[call[t].file].inode].dirty]_vars

\* An operation whose filter is "all" is in the log once it has succeeded.
AllIsLogged ==
  \A t \in InFlight :
    LET c == call[t]
    IN filter[c.op] = "all" /\ Ready(t) /\ LoggedPath(c.path)
         => c.op \in FlagsIn(log, c.path)
=============================================================================
