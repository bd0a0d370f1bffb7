# A TLA+ verification of DistillerFS

DistillerFS is a FUSE file system over a real directory. It passes every request
on to the directory and counts, per path, which operations were made; when it is
unmounted it prints the counts. This directory holds TLA+ models of its code,
the TLC configurations that check them, and proofs for TLAPS.

## 1. Inventory

| Component | Code | State | Operations |
|---|---|---|---|
| Access log | `Store_In_Hash`, distillerfs.c:207 | `h`, `prmutex`, the `lfs_count_t` items | one call per logged path |
| Filters | `is_included`, `is_excluded`, `should_log`, distillerfs.c:184-204, 288 | none of their own: they read `g_filter`, `op_flags[]` | tests |
| Hash table | utils.c, khash.h | buckets, flags, `size`, `n_occupied`, `upper_bound` | `Hash_Add`, `Hash_Find`, `Hash_Delete`, `Hash_Free` |
| FUSE handlers | distillerfs.c:308-904 | descriptors, `fi->fh`; through system calls the real directory | 26 handlers |
| Configuration, main | distillerfs.c:914-1011, 1053-1214 | `loggedfsArgs`, `g_filter`, `op_flags[]`, `hash_log`, `savefd` | parse arguments, parse file, mount, print, free |
| TOML parser | toml.c | the table being built, the current table, the token | `next_token`, `toml_parse`, accessors |
| Log printing | distillerfs.c:244-286, 1190-1211 | none | print, free |
| Post-processing | process_log.lua | the copy its script makes | one line of the log, and its commands |
| Build, scripts | Makefile, *.sh | none | compile, mount, unmount |

How they interact. libfuse runs one handler per request in a pool of worker
threads. Each handler makes its system calls on a path made relative to the
covered directory, asks `should_log(op, outcome)`, and calls `Store_In_Hash`
once for each path it names (twice in `rename`, `link` and `symlink`).
`Store_In_Hash` asks the include and exclude lists, takes `prmutex`, and looks
up, inserts or increments the item of the path. Everything else the threads
share is shared through the kernel: the descriptors of the process and the
directory. `main` fills the filters before the mount, and prints and frees the
table after `fuse_main` has returned, when no worker is left. `process_log.lua`
reads the printed log afterwards.

What is hard here:

* interleavings of worker threads in `Store_In_Hash` (the comment at line 224
  says that the hash functions are not reentrant), and of handlers that take
  several steps: `mknod` (open, close, lchown), `write` (open, pwrite, close),
  `release` (log, close), `rename` (rename, log, log);
* `write` does not use `fi->fh`: it opens the path again, while other requests
  rename, link and unlink it;
* the rehash in place of khash, with tombstones, kick-out chains and three allocations
  that may fail;
* failures of one step of several, and the limit on descriptors;
* starts that go wrong half way (arguments, log file, configuration), and an
  unmount or a kill while requests run: the log is in memory until the end;
* the working directory, on which every handler depends, of a process that becomes a
  daemon between `chdir` and the first request;
* the order of headers, dotted keys and inline tables in a configuration file, and
  strings that the scanner and the decoder read separately.

What makes each component correct: the log counts every call once and has one
item per path; the filters let through what the configuration names; the table
is a map; each descriptor has one owner; an open file stays one file; a new entry
belongs to its creator; a log entry exists for exactly the calls the filters let
through. For a whole run: a sound start does not end in a crash, the covered directory is the one
that is served, no other log is overwritten, the printed log has what the configuration asks for,
and the copy that is made of it has what was opened and nothing that does not
exist. That last part holds with exceptions, which the properties name. The complete list of hazards, each at its line and with the properties
that cover it, is in `PROJECT.json`.

## 2. Modules

| Module | Models | Role |
|---|---|---|
| `LogTable` | the log as a value | shared by `AccessLog` and `DistillerFS` |
| `LogFilter` | the filters | extended by `StoreInHash` and `DistillerFS` |
| `AccessLog` | what `Store_In_Hash` promises | abstract specification |
| `StoreInHash` | `Store_In_Hash`, step by step | implements `AccessLog` |
| `HashMap` | what utils.c promises | abstract specification |
| `KHash` | utils.c and khash.h, step by step | implements `HashMap` |
| `DistillerFS` | the 26 handlers | uses one step per `Store_In_Hash` |
| `TomlScan` | `next_token`, `scan_string`, `toml_rtos` | the tokens, and the strings in them |
| `Toml` | `toml_parse`, above its tokens | the tree `parse_config` reads |
| `TomlMeaning` | nothing: what a file means, without a parser | the reference `Toml` is compared with |
| `Session` | `main`, `processArgs`, `parse_config`, `loggedFS_init`, `Print_Hash` | the life of one run, over the steps of `Toml` |
| `PostProcess` | process_log.lua, and the copy its script makes | extended by `Session` |
| `MCStoreInHash`, `MCKHash`, `MCDistillerFS`, `MCToml`, `MCTomlScan`, `MCSession` | values of the constants | for TLC |
| `StoreInHash_proofs` | theorems about `StoreInHash` | for TLAPS |
| `KHash_proofs` | theorems about `KHash` | for TLAPS |
| `DistillerFS_steps`, `DistillerFS_proofs` | the invariant and the shapes of the steps; theorems about `DistillerFS` | for TLAPS |
| `Session_proofs` | theorems about `Session` | for TLAPS |
| `Toml_proofs`, `TomlTree_proofs` | theorems about `Toml`: the heap is a tree; it is the tree of the lines | for TLAPS |
| `NatLemmas` | nothing: least and greatest elements of sets of numbers | shared by the proofs |

The layers compose by their specifications: `DistillerFS` records a path
in one step because `StoreInHash` implements `AccessLog`; `StoreInHash` uses a
function for `hash` because `KHash` implements `HashMap`, and `prmutex`
guarantees that one table operation runs at a time (`HolderIsCritical`). `Session` composes
with `Toml` by its actions: it INSTANCEs the module over its own variables and
runs its steps while `main` is in `parse_config`.

### StoreInHash

One action per access to shared state:

| Action | Code |
|---|---|
| `Reject` | the early returns for a null path and the two lists, 212-222 |
| `Enter` | the call passes the lists and goes to the mutex |
| `Lock`, `Unlock` | 224, and 238-241: `rc = item->count`, unlock, return |
| `Find` | 226 |
| `Add` | 228-232: a new item and `Hash_Add` |
| `Load`, `Bump` | 235-236: `item->count++` as a load and a store, and the flag |

`heap` is the sequence of items allocated so far, a pointer is an index into it,
and `hash` maps paths to pointers, so that an item that falls out of the table
is visible. The count is an `int` of width `IntMax` and wraps. `asked` is an
auxiliary variable: the calls that have to be counted.

`NoLostUpdate` says that the counter of a path and the calls that have not
reached their increment add up to the calls made. `ImplementsAccessLog` says that the
calls are linearizable: the table step (`Add` or `Bump`) is the `Record` of
`AccessLog`, `Unlock` is its `Return`, and the other steps are invisible. The
mapping is `AbsLog` and `AbsCall`.

### KHash

The variables are the fields of `kh_text_t`, the locals of `kh_resize` and what
`Hash_Add` was called with. `Hash_Find` is an operator, `Hash_Delete` a step,
and `Hash_Add` one step per turn of the loops of `kh_resize`: `Scan` (take a
live element in hand), `Place` (put it down, perhaps kick another one out),
`Finish` (install the new flags) and then `PutSlot` (the rest of
`kh_put`). `Resize` allocates before the loop; `ResizeFails` is any of the three
allocations that gives nothing: `keys` may have grown then and `vals` not, `kh_put` returns
`n_buckets`, and the value that `Hash_Add` writes there is behind the array, which
ends the program or hits nothing of the table. `Hash_Free` is the end.
`kh_put` never asks for a smaller table, so that the branch of `kh_resize` that shrinks
(khash.h:295) is never taken. The hash function is chosen by `Init` from a set. The probe
`i + (++step)` is written in closed form, the start plus a triangular number.

The refinement mapping `AbsMap` is what the table holds, the element in hand
included, so that `ImplementsHashMap` says that a rehash changes nothing at any
of its steps, an insertion exactly one key, and one that finds no memory none.

### DistillerFS

A call of a worker thread is a frame (`call[t]`): the operation, the paths, the
outcome, the descriptor it holds, and the paths still to log. Its first step is
the first system call; then one step for each further access to something shared; then
`Store_In_Hash` once per path; then the reply, which has the side effects that
the code puts after the log (`fi->fh = res` in `open`, `close` in `write` and
`release`).

External, modelled from how the code uses it: the system calls, with inodes
that have an owner, a write permission and a dirty bit; the descriptor table, where
`open` takes the lowest free number; the kernel's directory lock and libfuse's
node locks, which decide which requests overlap (`Admitted`); and libfuse's
rename of an open file that is removed. `Outcomes` gives each system call
the results it may have: success if its preconditions hold, failure if they do
not or, with `MayFail`, for a reason outside the model.

`owed` is auxiliary: what the finished calls have to have left in the log,
computed from the operation and its outcome only. `LogIsExact` compares it with the log at
every state, the calls that run included. `OneOwnerPerFd` relates the
descriptors to the open files and the calls that hold them: no leak, no double
close, no reuse of a number that is in use. `OpenFileIsOneInode` is why `write`
may open the path again.

The handlers that only look at something share `Look`. Those of other builds are there
as well: `utime` (FUSE 2.5) and the four of the extended attributes (HAVE_SETXATTR),
which hand the path of the request to the system call as it is, relative to the root of the
host; their outcome does not depend on the modelled directory.

`mknod`, `mkdir`, `symlink` and `link` call `lchown` on what they have made and do not look at its result
(distillerfs.c:443, 466, 535, 591): whether it works or fails, the call goes on to log and return a success.
A call remembers in `entry`, which is auxiliary, whether its entry was given away or kept.
`CreatorOwns` is what the code leaves behind: a call that reports a success has tried; the entry is
the user's if `lchown` worked and the daemon's if it failed; and a `mknod` whose close
failed (425) reports a failure and leaves an entry that is the daemon's.

Every call that begins can finish: the runs check deadlock, and `NoRequest`
stutters only when no call runs.

### Toml

The unit is a line: a header `[x.y]`, a header `[[x.y]]`, or a (dotted) key with
a value, an array or an inline table. A header is a step per part of its path:
`fill_tabpath` refuses one that is too deep, `walk_tabpath` is a turn of the loop, and
`parse_select` finds or makes what the last part names. A key is as many steps as the code
makes calls. The walk and the calls of `parse_keyval`, `parse_inline_table` and
`parse_array` are frames on `stack`. `heap`
holds the tables and arrays in the order of their allocation. The builders
(`check_key`, `create_keytable_in_table`, ...) keep the names of the code and
return what the code returns.

`HeaderPath` and `FullPath` say where a line belongs, by the lines before it: `Session` uses them for what a
configuration file means. `Meaning`, in `TomlMeaning`, says what a file means without a parser: each key line gives its values
at the position its header and its own path lead to, where the number of
an array element is found by counting lines. `AssignmentsLand` compares
it with the tree. `Independent` describes files in which no two lines
have anything to do with each other, which must be accepted (`IndependentLinesAreAccepted`): no
`[[x]]`, no header twice, no key that is the way to another line, no dotted key through a table
with a header of its own, plain values and arrays of them; headers come in any order.
`WellFormed` says that the tree is one: no reference to what is not there, and none that
leads to what another leads to (`Unshared`), so that `toml_free`, which frees everything below
the root (toml.c:1537-1579), frees nothing twice.
`ClosedToKeys` is about keys only: a header `[b.a]` after `b = {}` does add to
the closed table, since `walk_tabpath` and `create_keytable_in_table` do not look at
`readonly`, against its comment at toml.c:310.

### TomlScan

A text is a sequence of characters, one character of each kind that the code tells apart.
`next_token` eats the token, counting its newlines, skips blanks and comments,
and makes the next token; whether a dot is a token is the parser's choice. The parts of
`scan_string` (`ScanTripleBasic`, `ScanBasic`, ...) give the place after the
string, or a syntax error. `toml_rtos`, `norm_lit_str` and `norm_basic_str` take a
string out of its quotes: `parse_config` calls them long after the scan, and takes
a failure for a value that is no string. `ScannedStringsDecode` says when that
can happen: a control character, or a `\u` that is no code point, and nothing else.
The 4 and 8 digits of `\u` and `\U` are constants.

After an escaped backslash the scanner does not see the closing `"""` (toml.c:1664
looks at one character): such a string is refused, or ends at a later `"""`.

### Session

The phases of `main`: `getopt`, one turn of the loop per option, and `processArgs`, what
follows the loop; `OpenLog`, `OpenConfig`, `toml_parse` and
`parse_config`, `Chdir`, `Mount`, then requests of worker threads until `Unmount` and
`Return`, then `PrintHeader`, `Print_Hash` path by path and `Free_Hash`; or the program
ends on the way, by a return, a failed assertion, a null or indeterminate
pointer, or a kill. `Commands` are command lines as `getopt` returns them and
`ConfigFile` the lines of each file: they are parsed by the actions of `Toml`, and
`parse_config` reads the tree through the accessors of toml.c (`In`,
`toml_string_in`, `toml_string_at`). A request is reduced to an operation, a path and an
outcome: `DistillerFS` has the handlers. The operations are those that log one path (`OnePathOps`), so without
`rename`, `link` and `symlink`, which log two and change names, and the handlers that make or remove an entry: the
directory (`Tree`) stays as it is during a run. `release` and `fsync` are `Unasked`: their handlers call
`Store_In_Hash` without `should_log` (818, 829), so that the filter decides nothing for them, and they never fail.
`Possible` is the kernel: it opens and reads what is there and is of the right kind, and a request for what is not there fails.
`JUNK` is what `malloc` left in
`logFilename` and in the elements of the lists that are no strings; what the code does
with it is a choice, except that `fopen` does not happen to find the name of a file in it.
`OldLog` is what the files held before; `fopen(name, "w")` empties them. `cwd` and `savefd`
are the working directory and the descriptor that brings a daemon back to it.

`PostProcess` takes the printed log line by line, in any order: `Print_Hash` walks the buckets, so that the
order of the lines is that of the hash values. The script that process_log.lua prints is nothing but the commands
of one line after those of the other, and `process_line` runs them as it prints them: a `mkdir -p`, `cp -a` or
`touch` (external) that cannot do its work changes nothing, and the shell goes on. Paths have a kind in the
directory (`Tree`), "dir" or "file", and in the copy, "dir", "copied" or "empty". `TargetThere` says whether
the directory to copy to exists. A text without a slash, which only a symbolic link can bring into the log, is
returned from at once (lua:74-76), and a path with a colon makes a line with four fields, which is left out (lua:114).
The test for `/prebuilts` (lua:88) compares seven characters with ten and never fails.

`OpenedFilesAreCopied` and `NoPhantomFile` relate the two ends of the pipeline,
the requests of the clients and the copy. What the build opened is copied, but not if

* a directory above it was only looked at (`LookedAt`: `getattr`, but not `readdir`) and its line came first: it is touched
  (lua:94) and so an empty file, in which `mkdir -p` and `cp` can make nothing. The run `copy` shows it;
* it is at the top, for which there is no `mkdir -p` (lua:83), and nobody has made the target directory;
* a path of it has a colon.

And the copy has nothing that the directory has not, with the kinds it has there, except that what is empty may be a
directory that was only looked at. `Meanings` is what a configuration file says by
its lines alone, and `PrintedLogIsComplete` compares what is printed with it, through
parser, accessors, filters, workers and print. `FiltersAreLoaded` is the first half of that way:
once `main` has left `parse_config`, the flags and the two lists are what the lines
say, and a sound file is parsed to its end with a `[filter]` in the tree.
What a file says is read off its lines, which makes sense where they are independent
(`LinesAreIndependent`): the properties about its contents have that antecedent. Of the 8 files of
the run (a ninth name is that of a file that is not there) it leaves out one, in which a key comes twice and which toml_parse refuses.
`PrintedLogIsComplete` counts with `Askings`: the pairs of a request and a number
up to how often it was made.
`SoundRunsEndWell` names the runs
that may not crash, whatever system call of `main` fails: a command line with a mount
point, `-f` or a log that can be created, a file of independent lines
with a `[filter]` and known words.
`CoveredDirectoryIsServed` says which directory the relative paths of the handlers
are relative to. It has an exception, and the code has it too: if `open(".")` fails, a
daemon stays in the root of the host and serves that.

Of the command lines, `FuseGetsWhatWasAsked` compares what the loop has made of
the options with a definition that looks at them from the end: the last value counts.
What `processArgs` pushes itself (`own`) is words of a known form; the operands after the mount point
(`extra`) follow as they are.

## 3. Runs

| Run | Configuration | Bounds | States |
|---|---|---|---|
| `store` | MCStoreInHash.cfg | 3 threads, 4 paths of which 2 are recorded, 2 flags, 2 recorded calls per path, IntMax 3 | 48,985 |
| `khash` | MCKHash.cfg | 3 keys, 2 values, 1 hash function, 1 failed allocation, any number of operations | 262,363 |
| `files` | MCFiles.cfg | 2 threads, 2 paths, 2 inodes, 2 open files, 3 descriptors, 4 calls | 257,510 |
| `entries` | MCEntries.cfg | 2 threads, 2 paths (one excluded), 2 inodes, 1 descriptor, 2 users, 3 calls | 236,408 |
| `toml` | MCToml.cfg | 19 lines over 2 names, files of 5 lines, headers of depth 3 | 812,904 |
| `scan` | MCTomlScan.cfg | 23,768 texts: up to 4 characters of 8 kinds in each kind of quotes, a complete `\U` and up to 2 characters after it, rows of up to 4 tokens, dates and times; 1 and 2 hex digits | 84,639 |
| `session` | MCSession.cfg | 31 command lines, 8 configuration files, 5 paths, 4 operations, 2 threads, 2 requests, 6 arguments for FUSE, no target directory | 297,068 |

What the bounds leave in. `store`: two threads in the critical section and one
waiting is the worst case for the mutex, and two calls per path are an insertion
and an increment, each by any thread; one recorded path is a prefix of the other, one path is excluded and one
is not included. `khash`: 4 buckets with 3 keys reach `upper_bound`: with two
elements or more the table grows to 8, with fewer the tombstones of the 4 are cleared by a rehash in place (that
of 8 buckets is not, since these keys only ever use three of them); two keys
collide whatever the size, their probe wraps around, and the third belongs where it arrives.
One failed allocation may come at the first insertion, at a growth or at a clearing. `files`: two open files and three descriptors let a number be reused while another
thread runs, and let the limit be met; four calls are open, rename and two more.
`entries`: with one descriptor, two `readdir` or `mknod` compete for it. Every
operation has one filter word of each kind in turn (`MCFilter`), so that logged
and unlogged outcomes both occur. `toml`: five lines are a table made implicitly, its own header, an inline
table that takes over or closes, and a key or header that follows. `session`: the
command lines hold every option, repeated options, none and too many, and the files
every word, both lists, headers and dotted keys, lists that hold no strings, keys of the wrong kind,
an unknown word, no `[filter]`, and a key twice; `scan`: four characters between quotes hold every escape, a fold, a
quote before and after a backslash, and the closing quotes in every wrong place;
in addition there is every complete `\U`, one that is a code point and one that is none; in `session`, with six places for arguments the assertion is met; two requests on two threads are one
under way at the unmount and one before it. One of the paths does not exist, one has a colon and is excluded, one is a directory, one is in it, and one is at
the top; a file can be opened, fail to open, be looked at and released, the directory looked at and listed, and
two requests are enough for a line of the directory before or after that of its file.

`MCSymmetry` permutes threads and open files in `files` and `entries`: both are
interchangeable in `DistillerFS`, and those runs check no liveness.

Five runs show a disagreement between the code and what its documentation says:

| Run | What it shows |
|---|---|
| `fsync` | `fsync` returns 0 without syncing (distillerfs.c:823) |
| `link` | under root, a hard link hands the file over to the user who made the link (distillerfs.c:591) |
| `read_all` | `all` means failures only (distillerfs.c:1114) |
| `default_filter` | the default is successes and failures, and a failed lookup becomes an empty file in the copy (distillerfs.c:1144) |
| `copy` | with the shipped configuration: a directory that was looked at gets an empty file in the copy, and an opened file in it is not copied (process_log.lua:94) |

Smaller ones, which have no run: `release` and `fsync` do not ask `should_log`
(distillerfs.c:818, 829), so that `never` has no effect on them; a configuration file without `[filter]` ends the
program with a null pointer (distillerfs.c:1105), where README.md:19 asks for lists only; a failing `lchown` is reported to
nobody; with `-f` the log file of `-l` is not used
(distillerfs.c:1166, against distillerfs.1:17); the log file is truncated before
the configuration is read (distillerfs.c:1158); a chmod after open makes the writes of the
open file fail, because they open the path again (distillerfs.c:766); the legend prints `a`
for what logs failures only, and `.` for both outcomes as for none (distillerfs.c:1194-1205).

Each property of a passing run is shown to depend on the code: the modules hold
variants of some definitions, each with a plausible bug (`LockNotTaken`,
`AfterPwriteEarly`, `NotJoined`, ...), which are not part of any specification.
`PROJECT.json` pairs every property with the variant that breaks it.

### Fairness

`StoreInHash` assumes weak fairness of each thread's next step: the scheduler
runs every thread that can run. Weak fairness of `Lock` does not follow for a
mutex that others take again and again; here the calls are bounded, so that the mutex
is free forever in the end. `KHash` assumes weak fairness of the steps of an
insertion that has begun, which wait for nobody. `Session` assumes weak fairness of `main` and of each worker that
serves a request; `Unmount` and `Kill` have none, so that nobody needs to unmount.
`DistillerFS`, `Toml` and `TomlScan` have no
liveness property: that the calls of `DistillerFS` finish follows from the two others and
from system calls that return.

## 4. Proofs

Five components have theorems. Each of them is for all values of the constants that its
named assumptions admit, where the runs are about one.

| Module | Theorem | States |
|---|---|---|
| `StoreInHash_proofs` | `TableStructure` | `Spec => [](TypeOK /\ OneItemPerPath)` |
| | `Invariance`, `CallsAreCounted` | `Spec => []IInv`, `Spec => []NoLostUpdate` |
| | `Refinement` | `Spec => ImplementsAccessLog` |
| `KHash_proofs` | `ProbesCover` | the first n probes visit all n buckets |
| | `Invariance`, `TypeCorrect` | `Spec => []IInv`, `Spec => []TypeOK` |
| | `CountersAreExact` | `Spec => []Accounting` |
| | `KeysAreUnique`, `LookupsAgree` | `Spec => []NoDuplicateKey`, `Spec => []LookupAgrees` |
| | `RoomForEveryElement` | the inner loop of `kh_resize` finds a bucket |
| | `Refinement` | `Spec => ImplementsHashMap` |
| `DistillerFS_proofs` | `Invariance`, `TypeCorrect` | `Spec => []IInv`, `Spec => []TypeOK` |
| | `DescriptorsAreOwned` | `Spec => []OneOwnerPerFd` |
| | `OpenFilesAreOneInode` | `Spec => []OpenFileIsOneInode` |
| | `TheLogIsExact` | `Spec => []LogIsExact` |
| | `NewEntriesBelong` | `Spec => []CreatorOwns` |
| | `HandlesAreLogged` | `Spec => OpenIsLogged` |
| | `OwnersChangeByChown` | `Spec => OnlyChownChangesOwner`, without hard links |
| `Session_proofs` | `Invariance` | `Spec => []IInv` |
| | `FuseIsCalledAsAsked`, `OldLogsStay`, `CoveredDirectory` | `FuseGetsWhatWasAsked`, `OldLogsAreKept`, `CoveredDirectoryIsServed` always hold |
| | `PrintIsWhole` | what the loaded filters let through is printed, and nothing else; a `release` or `fsync` is let through by the lists alone |
| | `FiltersLoaded` | `Spec => []FiltersAreLoaded` |
| | `PrintedLog` | `Spec => []PrintedLogIsComplete` |
| | `DistilledCopy`, `NoPhantom`, `NoCrash` | `OpenedFilesAreCopied`, `NoPhantomFile`, `SoundRunsEndWell` always hold |
| `Toml_proofs` | `Invariance` | `Spec => []IInv` |
| | `TreeIsWellFormed`, `KeysAreUnique` | `Spec => []WellFormed`, `Spec => []NoKeyTwice` |
| | `ClosedTablesStay` | `Spec => ClosedToKeys` |
| `TomlTree_proofs` | `IndependentFilesAreAccepted` | `Spec => []IndependentLinesAreAccepted` |
| | `LinesLand` | the tree of a file of independent lines is that of its lines |

In every module an invariant that TLC has checked on a run is proved by `Init => IInv` and
`IInv /\ [Next]_vars => IInv'`, and the properties follow from it.

### StoreInHash

The last three theorems assume `NoWrap`, that the calls per path are no more than the
largest `int`. This is needed: beyond it the count wraps. The assumptions on the constants are
`NullAssumption` (the null pointer is not a thread, path, flag or call
record), `ThreadsAssumption` (finitely many threads) and `BoundsAssumption`.

`NoLostUpdate` alone is not inductive, for three reasons, and each
conjunct of `IInv` removes one. A thread that stores `reg + 1` must have loaded the current count:
`LocalsAreFresh`. Nobody may change the table between its load and its store:
`HolderIsCritical`, prmutex belongs to exactly the thread that is between lock
and unlock. The item of one path may not also be the item of another:
`OneItemPerPath`. The increment moves one call from `Pending` to `Counter`, so that the
sum stays; the count of pending calls is a cardinality, which is where the
finiteness of `Threads` is used. `CountsPositive` is needed by the refinement
only: `AccessLog` tells a call that has been recorded from one that has not by
its count.

The refinement has one lemma per action: `Lock`, `Find` and `Load` leave the
mapped variables alone (`StutterSteps`), `Add` and `Bump` are `Record`
(`AddRefines`, `BumpRefines`), `Unlock` is `Return`.

### KHash

For any keys, values, hash functions and number of failing allocations. `KeysAssumption`: fewer
than 2^29 keys. Beyond that a table would need 2^31 buckets, and the next growth would
make `kroundup32` overflow its `khint_t`. Sizes are `Powers`, 4 to 2^30.

Everything rests on `ProbesCover`. The loops of `kh_get` and `kh_put` end after one turn
around the table, and that of `kh_resize` only at an empty bucket; that they see every bucket
is number theory: if the triangular probes i < j of a table of n = 2^k buckets met, 2n
would divide (j - i)(j + i + 1), in which one factor is odd, so that it would divide the
other, which is less than 2n. So the first n probes differ, and n different
buckets are all of them.

`NoDuplicateKey` and `LookupAgrees` are not inductive: whether `kh_put` finds a key depends on
where the other elements are. `IInv` says in addition:

* `Sized`: sizes are powers of two and `n_occupied` does not exceed `upper_bound`, so that one
  bucket is empty, and a rehash goes to a table in which all elements have room;
* `Counted`: `size` counts the elements of the old place, the new place and the hand, and
  `n_occupied` the used buckets (`Accounting`, also between the steps of a rehash);
* `Scanned`: the scan leaves no element behind it;
* `Distinct`: the old and the new place are disjoint, and no key is in two of the three places;
* `Reachable`: the probe for the key of an element meets no empty bucket before it, in the new
  flags during a rehash. A tombstone keeps this true, a bucket that is made empty would not;
* `Framed`: what the insertion under way has in its hands.

`kh_put` then finds a key iff it is there: a probe that stops at an empty bucket or
comes round has passed all places of the key. Kicking an element out of a bucket
keeps `Reachable`, since its bucket is full before and after. For the refinement the map of the table
is written as `Has` and `Kept`: a step of a rehash moves an element from one of
the three places to another and leaves both alone.

### DistillerFS

For any sets of threads, paths, inodes, open files and users, any filter and any limit on
descriptors and calls. Assumptions: `NullAssumption`; finitely many threads, which are not handles
(`ActorsAssumption`); `MountedAssumption`; `BoundsAssumption`. The prover is shown
first that the thirty handlers take ten shapes of steps (`NextIsStep` in `DistillerFS_steps`: a call
begins quietly, opens, creates, removes, renames, links, goes on, ...), besides `Store_In_Hash` and the
replies; then that each shape keeps each conjunct:

* `CallsAreFormed`: which fields a call has at which step, and that what it still has to log
  is the end of what it has to log;
* `Exclusive`: what kernel and libfuse keep apart: two calls that change entries, and a call
  and the entries it uses;
* `Descriptors`: a descriptor is open iff it has an owner, and has one. `HandlesInUse` is what makes
  this inductive: the handle of an open under way is free, and a release closes
  the descriptor of its handle;
* `Names`: the path of an open file leads to its inode, or a successful rename of
  it is under way and the new path does. This is why `write` opens the right file; it
  needs `Exclusive` (no second rename of a file that is being opened or written) and
  `Backed` (an inode that has a name or a descriptor is not given away);
* `NewEntries`: between its creation and the log a new inode has one name, so that the
  `lchown` by path reaches it; afterwards `entry` tells whose it is;
* `LogIsExact`: count and flags of each path are what the finished calls owe and what the running
  calls have entered. The proof counts pairs of a call and an index of what it
  logs (`EntriesFor`), one more with each `Store_In_Hash`; the reply moves them to `owed`.

`OwnersChangeByChown` has the hypothesis that the clients make no hard links: with them the
statement is false, which the run `link` shows.

### Session

For any command lines, files, threads, requests and number of arguments for FUSE.
Assumptions:

* `CommandsAssumption`: options and operands are sequences, and no word of an option begins with a slash;
* `ArgsAssumption`: two arguments fit;
* `NullAssumption`: the null pointer and an indeterminate one are no word, no request and no file
  that can be created;
* `OpsAssumption`: the operations log one path each, and `release` and `fsync` do not fail;
* `PathsAssumption`, `TreeAssumption`, `TargetAssumption`: everything is in a directory, the one that is served to begin with,
  and the paths of the clients have a slash;
* `FilesAssumption`: a file is a sequence of lines as the parser's tokens give them (`IsLine`), no value
  in it is a null pointer or what `malloc` left, and the file of `-c` exists or does not.

The inductive invariant `IInv`:

* `Arguments`: after n turns of the `getopt` loop the structure holds what the last of the first n options of each
  kind says, the arguments for FUSE are words of known form, each `-o` with its
  value (`Paired`), and a word is there iff its option was; then the same of all options;
* `Files`: only the stream of the log changes, and it is the file of the last `-l` of an accepted
  command line;
* `Place`: where `savefd` leads, and what the working directory can be in each phase;
* `Requests`: what a worker serves has been asked for, and nobody serves before the mount and after
  `Return`;
* `Printing`: a request that the filters let through is in the log or still served; at
  the end of the print, in what is printed. Conversely everything in the log was asked for and not
  rejected. `Return` waits for the workers, which is what makes the step from `leaving`
  to `print` keep this;
* `Lists`: a list without elements is `<< >>`, which `Verdicts` tests for.

Five more invariants are proved on top of `IInv`, and take the pipeline from the lines of the file to the copy:

* `Parser`: while `main` is in `parse_config`, heap, stack and status are a state of `Toml` for the file
  that `-c` names (`Begins`), so that the theorems of `TomlTree_proofs` speak of it, by an INSTANCE of that module over
  the variables of `Session`; before that nothing has been read, and flags and lists are those of `main`;
* `Loaded`: from `parse_config` on, `FiltersAreMeant`. The tree of independent lines has an entry
  for `[s] k` iff one line has the path `s.k` (`SectionFound`), so that the accessors find its
  value (`ValueIn`), and the flags and lists made of them are those of the lines (`WordIs`,
  `ListIs`). Together with the acceptance of independent files this is `FiltersLoaded`;
* `Meant`: what was loaded stays, once a request has been made. With `Printing` it gives that a request that is
  selected is let through (`SelectedIsLetThrough`) and is in what is printed;
* `Copying`: what the lines read so far have left of the copy. What is a directory or copied there is of that kind
  in the directory (`Good`), what is empty was only looked at, and what was to be copied is, or has something
  empty above it. `Grows` is why no later line spoils this: a command changes nothing but the place of its own path,
  and makes nothing else empty. There is one lemma per command (`MkdirIs`, `CpIs`, `TouchIs`) and one per
  line (`LineIs`). `DistilledCopy` and `NoPhantom` follow;
* `Counts`: until the print ends, the count of a path in the log and the workers that serve a wanted request
  on it add up to the wanted requests that were made. A `Serve` adds one to both sides, a
  `Record` moves one from the workers to the log; that it does so exactly for the wanted ones is
  `VerdictIs`. `Return` finds no worker left, so that what `Free_Hash` leaves printed is
  complete: `PrintedLog`. The sum is the cardinality of a set of pairs (`Askings`), which
  takes one element more with each request, where a sum over the requests would need induction.

`NoCrash` adds why a run may have crashed (`Crashed`), and that the stream is the one of the options (`Chosen`). None
of these theorems has a hypothesis besides the named assumptions.

### Toml

For any lines, with any paths, keys and values, and for every depth of a header. `LinesAssumption`: a line is
what tokens can say (`IsLine`), a header or a key with at least one part. `Session` runs the same steps.

* `IsHeap`: tables and arrays have the fields they should, each reference is to what is there, no
  two lead to the same table or array, no table has a key twice, and no table is both implicit
  and closed;
* `KindsFit`: an array of kind "none" has no element, one of kind "t" has one at least, and tables
  only. This is what `walk_tabpath` relies on. In the middle of `parse_array`, between the
  note of a kind and the element, it does not hold; `Ready` is what holds there;
* `Calls`: each frame works on a table or an array that is there, and the table that
  `parse_inline_table` is about to close is not implicit.

`WellFormed` needs all three. `ClosedToKeys` needs that what `create_keytable_in_table` takes over is
implicit and so not closed: without the last clause of `Calls` the end of an inline table could make a
table that is both. `Grown` is what every builder promises: nothing goes away, no table becomes
implicit, and of the closed tables at most the one it was given changes. There is one lemma per
builder, over heaps, and one per action.

`TomlTree_proofs` is about files of independent lines. That they are accepted is not inductive without knowing
what the tree looks like, and its meaning is a recursive definition in `TomlMeaning`, which the prover
cannot use. The proof labels the tables instead: `TreeInv` says that there are labels `P`, one path for each
table, such that

* `Shape`: the labels are the ways from the root, all different, and no table is closed;
* `Means`: an entry that is no table is the value of a line that was read, and each line
  read has its entry or its table; a table lies on the way to a line; and one that is not implicit has a
  header, or a dotted key passes it;
* `IsTree`: where the walk, the key or the array under way has come to in its line.

A new line meets no value on its way, since that value's line would be a prefix of it; its table is
there, implicit, or free, since a header comes once and no dotted key has made it; the key at its end is
free. So nothing fails, and each builder adds one edge and at most one label. `LinesLand` is what is left of this
at the end of the file.

### Only model-checked

* Liveness: `CallReturns`, `AddCompletes`, `UnmountEnds`. It is out of the prover's
  reach under fairness.
* `AssignmentsLand`, for files with arrays of tables, inline tables and repeated headers, and everything about
  `TomlScan`. They compare the tree and the texts with recursive definitions, that is by
  induction over data, which the installed provers cannot use. `LinesLand` is what is proved
  of the first, for files of independent lines.

## 5. Not modelled

* Allocation failure outside khash: `malloc` in `Store_In_Hash`, `getRelativePath` and
  `main`, whose results nobody looks at, and in toml.c, where it ends like a syntax error.
* File contents, sizes, times, errno, and what `readdir` returns.
* The numeric key types of khash, and `kh_clear`, which nothing calls.
* The errors that the parser reports for tokens in a wrong order: like the errors that are
  modelled they end in `fail`. How a bare key is checked (`normalize_key`). The
  conversions of numbers, dates and UTF-8, which this program never asks for. For these the component is
  marked as partly modelled.
* The layout of the legend and of a line of the log. A list element is compared with a path name by name, where the code
  compares characters: that `/out` also selects `/output` is not modelled. Changes of the directory during the run
  from which the copy is made, and in `Session` the operations that make them.
* Build files and scripts: they decide what is compiled and mounted.

## 6. Plan

Built so far: the access log, the hash table, the handlers, the scanner and the parser
of the configuration file, and the run as a whole, each with its proofs but for the scanner.
What could follow: labels for arrays of tables and inline tables, which would extend `LinesLand` to every file
that is accepted; and the errors of the parser for a wrong order of tokens.
