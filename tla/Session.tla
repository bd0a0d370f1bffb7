------------------------------ MODULE Session ------------------------------
(***************************************************************************)
(* The life of one run of the monitor: main, processArgs and parse_config  *)
(* (src/src/distillerfs.c:914-1214), from the command line to the printed  *)
(* log, around worker threads that serve requests while it is mounted.     *)
(*                                                                         *)
(* The configuration file is parsed by the steps of module Toml, and the   *)
(* tree they leave is read through the accessors of toml.c.  A request is  *)
(* reduced to its operation, its path and its outcome; module DistillerFS  *)
(* has the handlers.  After the end, the script of module PostProcess is   *)
(* made of the log and run.  External to the code: getopt, fopen and       *)
(* fuse_main, which mounts, becomes a daemon, serves, and returns when the *)
(* file system has been unmounted and its workers have ended.              *)
(***************************************************************************)
EXTENDS Integers, FiniteSets, FiniteSetsExt, LogTable, PostProcess

CONSTANTS
  Commands,     \* command lines: options as getopt returns them, and operands
  Absolute,     \* the operands that begin with a slash
  ConfigFile,   \* ConfigFile[name] : the lines of the file, or NULL without a file
  NotString,    \* a value in a file that is no string, or one that cannot be decoded
  Creatable,    \* the files fopen can create
  MaxFuseArgs,  \* the length of fuseArgv (32)
  op_names,     \* the operations of the clients
  Failing,      \* those of them that may fail on a path that is there
  Paths,        \* the paths the clients ask for
  Threads,      \* FUSE worker threads
  MaxRequests,  \* bound: requests served
  NULL,
  JUNK,         \* an indeterminate pointer
  OldLog        \* what the log files hold before the run

\* What the options push on fuseArgv.
FuseWords == {"-f", "-o", "common", "allow_other_common", "nonempty"}

\* Options and operands are sequences; the mount point begins with a slash, and
\* no word of an option does.
ASSUME CommandsAssumption ==
  /\ \A c \in Commands : c.opts \in Seq(ToSet(c.opts)) /\ c.operands \in Seq(ToSet(c.operands))
  /\ Absolute \cap ({NULL, "distillerfs"} \cup FuseWords) = {}

\* The executable and the mount point fit.
ASSUME ArgsAssumption == MaxFuseArgs \in Nat /\ MaxFuseArgs >= 2

VARIABLES
  command,   \* the command line
  phase,     \* where main is
  args,      \* loggedfsArgs, and the locals of processArgs
  heap, curtab, stack, status, read,   \* of module Toml, for the configuration file
  g_filter,  \* the include and exclude lists
  op_flags,  \* op_flags[op] : the outcomes that are logged
  hash_log,  \* the stream the log will be printed to, or NULL
  output,    \* output[s] : what stream s holds
  cwd,       \* the working directory: "start", "root" or "covered"
  savefd,    \* the directory savefd is open on, or NULL if open failed
  serving,   \* serving[t] : the request thread t serves, or NULL
  requests,  \* requests made so far
  log,       \* the log
  todo,      \* the paths of the log that are still to be printed
  asked      \* auxiliary; asked[r] : how often request r has been made

toml == <<heap, curtab, stack, status, read>>
config == <<g_filter, op_flags>>
streams == <<hash_log, output>>
place == <<cwd, savefd>>
workers == <<serving, requests, log, todo, asked>>
vars == <<command, phase, args, toml, config, streams, place, workers, distilled>>

T == INSTANCE Toml WITH Lines <- {}, MaxLines <- 0, MaxPath <- 10

\* The filter constants; here the lists and the filter are variables.
LF == INSTANCE LogFilter
        WITH include_path <- {}, exclude_path <- {}, filter <- [op \in {} |-> "absent"]

Both == {LF!LOG_SUCCESS, LF!LOG_UNSUCCESS}

Request == [op : op_names, path : Paths, outcome : Both]

\* The operations whose handlers log one path, and change no name: rename, link
\* and symlink log two.
OnePathOps ==
  {"getattr", "access", "readlink", "readdir", "chmod", "chown", "truncate", "utime", "utimens",
   "open", "read", "write", "statfs", "release", "fsync"}

\* Those that FUSE sends for a file only, and those it sends for what it has
\* found there before.
FileOps == {"readlink", "truncate", "open", "read", "write", "release", "fsync"}
Held == {"readdir", "read", "write", "release", "fsync"}

\* Those whose handlers log without a look at their filter, and always succeed.
Unasked == {"release", "fsync"}

ASSUME OpsAssumption == op_names \subseteq OnePathOps /\ Failing \cap Unasked = {}

\* What the clients ask for is in a directory, and begins with a slash.
ASSUME PathsAssumption ==
  /\ \A p \in Paths : p \in Seq(ToSet(p)) /\ \A d \in Above(p) : IsDir(Tree, d)
  /\ NoSlash \cap Paths = {}

\* NULL is no word and no request, and fopen finds no file under an indeterminate
\* pointer.  stderr is not the name of a log.
ASSUME NullAssumption ==
  /\ NULL \notin {"start", "root", "covered", "stderr", "distillerfs"} \cup FuseWords
  /\ {NULL, JUNK, "stderr"} \cap Creatable = {}
  /\ NULL \notin Request

\* A value in a file is no null pointer, and not what malloc returned.
IsText(value) == value.type = "value" => value.val \notin {NULL, JUNK}

\* A file is a sequence of lines, and -c names one that is there or is not.
ASSUME FilesAssumption ==
  /\ \A c \in Commands : \A k \in DOMAIN c.opts :
       c.opts[k].opt = "c" => c.opts[k].arg \in DOMAIN ConfigFile
  /\ \A name \in {n \in DOMAIN ConfigFile : ConfigFile[n] # NULL} :
       /\ T!IsSeq(ConfigFile[name])
       /\ \A i \in DOMAIN ConfigFile[name] :
            LET line == ConfigFile[name][i]
            IN /\ T!IsLine(line)
               /\ line.type = "keyval" =>
                    /\ IsText(line.value)
                    /\ line.value.type = "array" =>
                         \A n \in DOMAIN line.value.elements : IsText(line.value.elements[n])
  /\ NULL \notin Nat /\ NotString \notin {NULL, JUNK}

-----------------------------------------------------------------------------
(***************************************************************************)
(* processArgs.                                                            *)
(***************************************************************************)
\* What the structure holds at first: nobody sets logFilename after malloc.
Defaults(junk) ==
  [status |-> "ok", optind |-> 1, isDaemon |-> TRUE, configFilename |-> NULL, logFilename |-> junk,
   got_p |-> FALSE, mountPoint |-> NULL, fuseArgv |-> <<"distillerfs", NULL>>]

\* PUSHARG for each of `new`: the assertion fails when the array is full.
Push(out, new) ==
  IF Len(out.fuseArgv) + Len(new) <= MaxFuseArgs
    THEN [out EXCEPT !.fuseArgv = @ \o new]
    ELSE [out EXCEPT !.status = "abort"]

\* Variant of BringsCommon: -e keeps the common options out, as -p does.
BringsCommonAlways(o) == TRUE

BringsCommon(o) == o.opt = "p"

\* The body of the getopt loop.
ParseOption(out, o) ==
  CASE o.opt = "h" -> [out EXCEPT !.status = "usage"]
    [] o.opt = "f" -> Push([out EXCEPT !.isDaemon = FALSE], <<"-f">>)
    [] o.opt \in {"p", "e"} ->
         Push([out EXCEPT !.got_p = @ \/ BringsCommon(o)],
              <<"-o", IF o.opt = "p" THEN "allow_other_common" ELSE "nonempty">>)
    [] o.opt = "c" -> [out EXCEPT !.configFilename = o.arg]
    [] o.opt = "l" -> [out EXCEPT !.logFilename = o.arg]
    [] OTHER       -> out

\* Variant of is_Absolute_Path: the test is forgotten.
AbsoluteOrNot(name) == TRUE

is_Absolute_Path(name) == name \in Absolute

\* The mount point, and the arguments after it, which go to FUSE.
ParseOperands(out, operands) ==
  IF out.status # "ok" THEN out
  ELSE IF operands = << >> THEN [out EXCEPT !.status = "usage"]
  ELSE LET point == Head(operands)
           all == Push([out EXCEPT !.mountPoint = point, !.fuseArgv[2] = point], Tail(operands))
       IN IF all.status = "ok" /\ ~is_Absolute_Path(point)
            THEN [all EXCEPT !.status = "usage"] ELSE all

\* What is left to do when getopt has returned the last option.
ParseRest(out, operands) ==
  ParseOperands(IF out.got_p THEN out ELSE Push(out, <<"-o", "common">>), operands)

\* Where main goes on: the usage and a failed assertion are the end.
After(status_, next) ==
  CASE status_ = "ok" -> next [] status_ = "usage" -> "exit" [] status_ = "abort" -> "crashed"

-----------------------------------------------------------------------------
Init ==
  /\ command \in Commands
  /\ phase = "args"
  /\ args \in {Defaults(junk) : junk \in {NULL, JUNK}}
  /\ T!Init
  /\ g_filter = [exclude |-> << >>, include |-> << >>]
  /\ op_flags = [op \in op_names |-> Both]
  /\ hash_log = NULL
  /\ output = [s \in Creatable \cup {"stderr"} |-> IF s = "stderr" THEN EmptyLog ELSE OldLog]
  /\ cwd = "start" /\ savefd = NULL
  /\ serving = [t \in Threads |-> NULL]
  /\ requests = 0
  /\ log = EmptyLog /\ todo = {}
  /\ asked = [r \in {} |-> 0]
  /\ copy = [p \in IF TargetThere THEN {<< >>} ELSE {} |-> "dir"] /\ done = {}

\* One turn of the getopt loop of processArgs.
getopt ==
  /\ phase = "args"
  /\ args.optind <= Len(command.opts)
  /\ args' = [ParseOption(args, command.opts[args.optind]) EXCEPT !.optind = @ + 1]
  /\ phase' = After(args'.status, "args")
  /\ UNCHANGED <<distilled, command, toml, config, streams, place, workers>>

\* The rest of processArgs.
processArgs ==
  /\ phase = "args"
  /\ args.optind > Len(command.opts)
  /\ args' = ParseRest(args, command.operands)
  /\ phase' = After(args'.status, "open")
  /\ UNCHANGED <<distilled, command, toml, config, streams, place, workers>>

\* Variant of Stream: stderr is not assigned.
StreamOfDaemon ==
  IF args.isDaemon /\ args.logFilename \in Creatable THEN args.logFilename ELSE NULL

\* The stream of the log: the file of -l for a daemon, or none if it cannot be
\* opened; stderr otherwise, whatever -l says.
Stream ==
  IF ~args.isDaemon THEN "stderr"
  ELSE IF args.logFilename \in Creatable THEN args.logFilename ELSE NULL

\* fopen(name, "w") empties the file that is there.
OpenLog ==
  /\ phase = "open"
  /\ \/ /\ phase' = "config"
        /\ hash_log' = Stream
        /\ output' = IF Stream = NULL THEN output ELSE [output EXCEPT ![Stream] = EmptyLog]
     \/ /\ args.isDaemon /\ args.logFilename = JUNK
        /\ phase' = "crashed"
        /\ UNCHANGED streams
  /\ UNCHANGED <<distilled, command, args, toml, config, place, workers>>

-----------------------------------------------------------------------------
(***************************************************************************)
(* parse_config.                                                           *)
(***************************************************************************)
File(name) == IF name = NULL THEN NULL ELSE ConfigFile[name]

\* A file that is not there is no error.
OpenConfig ==
  /\ phase = "config"
  /\ phase' = IF File(args.configFilename) = NULL THEN "chdir" ELSE "parsing"
  /\ UNCHANGED <<distilled, command, args, toml, config, streams, place, workers>>

toml_parse ==
  LET file == File(args.configFilename)
      line == file[Len(read) + 1]
  IN /\ phase = "parsing"
     /\ \/ T!InsideLine
        \/ Len(read) < Len(file) /\ (T!fill_tabpath(line) \/ T!ParseLine(line))
        \/ Len(read) = Len(file) /\ T!Eof
     /\ UNCHANGED <<distilled, command, phase, args, config, streams, place, workers>>

\* A key has one entry at most (NoKeyTwice in Toml), so that what toml_raw_in,
\* toml_array_in and toml_table_in look for is its entry, if it has that kind.
In(t, key, kind) ==
  LET ref == T!check_key(heap, t, key) IN IF ref.kind = kind THEN ref.to ELSE NULL

\* toml_rtos: quoted values are strings.
toml_rtos(raw) == IF raw = NotString THEN NULL ELSE raw
toml_string_in(t, key) == toml_rtos(In(t, key, "v"))
toml_string_at(a, n) ==
  LET item == heap.array[a].item[n] IN IF item.kind = "v" THEN toml_rtos(item.to) ELSE NULL

\* An element that is no string stays what malloc returned.
Element(a, n) == IF toml_string_at(a, n) = NULL THEN JUNK ELSE toml_string_at(a, n)

\* The list of paths in `section`: none without the table or without the array.
Paths_in(section) ==
  LET t == In(1, section, "t")
      a == IF t = NULL THEN NULL ELSE In(t, "paths", "a")
  IN IF a = NULL THEN << >> ELSE [n \in DOMAIN heap.array[a].item |-> Element(a, n)]

\* Variant of Flags_in: what the table does not name is not logged.
Flags_named(t) ==
  [op \in op_names |-> LET word == toml_string_in(t, op)
                       IN IF word = NULL THEN {} ELSE LF!FlagsOfWord(word)]

\* The flags that a [filter] table leaves: an operation it does not name keeps
\* what main gave it.
Flags_in(t) ==
  [op \in op_names |-> LET word == toml_string_in(t, op)
                       IN IF word = NULL THEN op_flags[op] ELSE LF!FlagsOfWord(word)]

WordsKnown(t) ==
  \A op \in op_names : toml_string_in(t, op) \in {NULL, "success", "unsuccess", "all", "never"}

\* After the parse.  If it failed, or without a [filter] table, the accessors
\* follow a null pointer; a word that is not known ends the program.
parse_config ==
  LET filter == In(1, "filter", "t")
  IN /\ phase = "parsing"
     /\ \/ /\ status = "failed" \/ (status = "parsed" /\ filter = NULL)
           /\ phase' = "crashed"
           /\ UNCHANGED <<toml, config>>
        \/ /\ status = "parsed" /\ filter # NULL
           /\ g_filter' = [exclude |-> Paths_in("exclude"), include |-> Paths_in("include_only")]
           /\ IF WordsKnown(filter)
                THEN phase' = "chdir" /\ op_flags' = Flags_in(filter)
                ELSE phase' = "exit" /\ UNCHANGED op_flags
           /\ heap' = [table |-> << >>, array |-> << >>] /\ curtab' = 0
           /\ UNCHANGED <<stack, status, read>>
     /\ UNCHANGED <<distilled, command, args, streams, place, workers>>

-----------------------------------------------------------------------------
\* chdir(mountPoint) and savefd = open("."); nobody looks whether they worked.
Chdir ==
  /\ phase = "chdir"
  /\ phase' = "mount"
  /\ cwd' \in {cwd, "covered"}
  /\ savefd' \in {cwd', NULL}
  /\ UNCHANGED <<distilled, command, args, toml, config, streams, workers>>

\* What FUSE makes of -f and -d: without them the process becomes a daemon,
\* whose working directory is the root of the host.
Foreground == \E k \in DOMAIN args.fuseArgv : args.fuseArgv[k] \in {"-f", "-d"}

\* Variant of loggedFS_init: fchdir is forgotten.
init_stays(dir) == dir

\* fchdir(savefd), which fails if open has failed.
loggedFS_init(dir) == IF savefd = NULL THEN dir ELSE savefd

\* fuse_main up to its loop.  If it cannot mount, it returns.
Mount ==
  /\ phase = "mount"
  /\ \/ phase' = "print" /\ UNCHANGED cwd
     \/ phase' = "mounted" /\ cwd' = loggedFS_init(IF Foreground THEN cwd ELSE "root")
  /\ UNCHANGED <<distilled, command, args, toml, config, streams, savefd, workers>>

-----------------------------------------------------------------------------
(***************************************************************************)
(* While it is mounted.                                                    *)
(***************************************************************************)
\* What stays the same while workers serve requests.
settled == <<distilled, command, args, toml, config, streams, place, todo>>

\* What FUSE may ask, and how it may end.
Possible(r) ==
  IF r.path \in DOMAIN Tree
    THEN /\ r.op \in FileOps => Tree[r.path] = "file"
         /\ r.op = "readdir" => Tree[r.path] = "dir"
         /\ r.outcome = LF!LOG_UNSUCCESS => r.op \in Failing
    ELSE r.op \notin Held /\ r.outcome = LF!LOG_UNSUCCESS

Serve(t, r) ==
  /\ phase = "mounted"
  /\ serving[t] = NULL
  /\ requests < MaxRequests
  /\ Possible(r)
  /\ requests' = requests + 1
  /\ serving' = [serving EXCEPT ![t] = r]
  /\ asked' = IF r \in DOMAIN asked THEN [asked EXCEPT ![r] = @ + 1]
              ELSE [q \in DOMAIN asked \cup {r} |-> IF q = r THEN 1 ELSE asked[q]]
  /\ UNCHANGED <<phase, log, settled>>

\* What the loop over a list may find: an indeterminate pointer before the
\* first prefix that matches may match, not match, or be the end.
Found(list, path) ==
  LET hits == {k \in DOMAIN list : list[k] # JUNK /\ IsPrefix(list[k], path)}
  IN IF \E k \in DOMAIN list : list[k] = JUNK /\ \A i \in hits : k < i
       THEN {"yes", "no", "crash"}
     ELSE IF hits # {} THEN {"yes"} ELSE {"no"}

\* Variant of Asks: the filter is asked about a success, whatever happened.
AsksSuccess(r) == r.op \in Unasked \/ LF!LOG_SUCCESS \in op_flags[r.op]

Asks(r) == r.op \in Unasked \/ r.outcome \in op_flags[r.op]

\* Whether a request is logged: what the filter and the two lists may say.
Verdicts(r) ==
  LET included == IF g_filter.include = << >> THEN {"yes"} ELSE Found(g_filter.include, r.path)
      excluded == IF "yes" \in included THEN Found(g_filter.exclude, r.path) ELSE {}
  IN IF ~Asks(r) THEN {"no"}
     ELSE (included \cap {"no", "crash"})
            \cup {CASE e = "yes" -> "no" [] e = "no" -> "yes" [] e = "crash" -> e : e \in excluded}

\* Variant of Answer: a request that is not logged is not answered either.
AnswerIfLogged(t, l) ==
  /\ serving' = IF l = log THEN serving ELSE [serving EXCEPT ![t] = NULL]
  /\ log' = l

Answer(t, l) ==
  /\ serving' = [serving EXCEPT ![t] = NULL]
  /\ log' = l

\* The handler logs the request, if the filters say so, and answers it.
Record(t) ==
  LET r == serving[t]
  IN /\ r # NULL
     /\ phase \in {"mounted", "leaving"}
     /\ \/ /\ "no" \in Verdicts(r)
           /\ Answer(t, log)
           /\ UNCHANGED phase
        \/ /\ "yes" \in Verdicts(r)
           /\ Answer(t, Recorded(log, r.path, r.op))
           /\ UNCHANGED phase
        \/ /\ "crash" \in Verdicts(r)
           /\ phase' = "crashed"
           /\ UNCHANGED <<serving, log>>
     /\ UNCHANGED <<requests, asked, settled>>

\* umount, or a signal that libfuse handles: no more requests.
Unmount ==
  /\ phase = "mounted"
  /\ phase' = "leaving"
  /\ UNCHANGED <<serving, requests, log, asked, settled>>

\* The monitor is killed, with its log, or a part of it, in memory.
Kill ==
  /\ phase \in {"mounted", "leaving", "print", "printing"}
  /\ phase' = "killed"
  /\ UNCHANGED <<serving, requests, log, asked, settled>>

\* Variant of Joined: fuse_main does not wait for its workers.
NotJoined == TRUE

\* fuse_main returns when its last worker has ended.
Joined == \A t \in Threads : serving[t] = NULL

Return ==
  /\ phase = "leaving"
  /\ Joined
  /\ phase' = "print"
  /\ UNCHANGED <<serving, requests, log, asked, settled>>

\* The size and the legend: without a stream, fprintf follows a null pointer.
PrintHeader ==
  /\ phase = "print"
  /\ IF hash_log = NULL
       THEN phase' = "crashed" /\ UNCHANGED todo
       ELSE phase' = "printing" /\ todo' = DOMAIN log
  /\ UNCHANGED <<distilled, command, args, toml, config, streams, place, serving, requests, log, asked>>

\* One turn of kh_foreach, in the order of the buckets: the mask of the flags,
\* the count and the path.
Print_Hash ==
  /\ phase = "printing"
  /\ \E path \in todo :
       /\ todo' = todo \ {path}
       /\ output' = [output EXCEPT ![hash_log] =
                       [p \in DOMAIN @ \cup {path} |-> IF p = path THEN log[p] ELSE @[p]]]
  /\ UNCHANGED <<distilled, command, phase, args, toml, config, hash_log, place, serving, requests,
                 log, asked>>

\* Free_Hash and fclose.
Free_Hash ==
  /\ phase = "printing"
  /\ todo = {}
  /\ phase' = "exit"
  /\ log' = EmptyLog
  /\ UNCHANGED <<serving, requests, asked, settled>>

\* After the end: one more line of the printed log, and the commands it becomes.
Distil ==
  /\ phase = "exit" /\ hash_log # NULL
  /\ \E path \in DOMAIN output[hash_log] : process_line(output[hash_log], path)
  /\ UNCHANGED <<command, phase, args, toml, config, streams, place, workers>>

Over == phase \in {"exit", "crashed", "killed"} /\ UNCHANGED vars

Main ==
  \/ getopt \/ processArgs \/ OpenLog \/ OpenConfig \/ toml_parse \/ parse_config
  \/ Chdir \/ Mount \/ Return
  \/ PrintHeader \/ Print_Hash \/ Free_Hash

Next ==
  \/ Main
  \/ \E t \in Threads :
       \/ \E r \in Request : Serve(t, r)
       \/ Record(t)
  \/ Unmount
  \/ Kill
  \/ Distil
  \/ Over

Spec == Init /\ [][Next]_vars

\* The main thread and the workers run when they can; nobody has to unmount, or
\* to make a copy.
FairSpec == Spec /\ WF_vars(Main) /\ \A t \in Threads : WF_vars(Record(t))

-----------------------------------------------------------------------------
(***************************************************************************)
(* Properties.                                                             *)
(***************************************************************************)
\* What the command line says: the last argument of option o, or NULL.
Given(o) == {k \in DOMAIN command.opts : command.opts[k].opt = o}
LastOf(o) == IF Given(o) = {} THEN NULL ELSE command.opts[Max(Given(o))].arg

\* Whatever the order and the number of the options, main uses the last value
\* of each, and FUSE gets a well-formed command line: the mount point first, the
\* common mount options always, each -o with its value, then the operands that
\* are left, and no more than fits.
FuseGetsWhatWasAsked ==
  LET argv == args.fuseArgv
      extra == Tail(command.operands)
      own == SubSeq(argv, 1, Len(argv) - Len(extra))
      values == {own[k] : k \in DOMAIN own}
  IN phase \in {"mount", "mounted", "leaving", "print", "printing"} =>
       /\ args.isDaemon <=> Given("f") = {}
       /\ "-f" \in values <=> Given("f") # {}
       /\ args.configFilename = LastOf("c")
       /\ Given("l") # {} => args.logFilename = LastOf("l")
       /\ Len(argv) <= MaxFuseArgs /\ argv = own \o extra
       /\ argv[2] = Head(command.operands) /\ NULL \notin values
       /\ "allow_other_common" \in values <=> Given("p") # {}
       /\ "common" \in values <=> Given("p") = {}
       /\ \A k \in DOMAIN own :
            own[k] = "-o" <=> k < Len(own) /\ own[k + 1] \in {"common", "allow_other_common", "nonempty"}

\* A command line that processArgs has to accept.
WellFormed ==
  /\ Given("h") = {}
  /\ command.operands # << >> /\ Head(command.operands) \in Absolute

\* A run writes to one file at most, the one its command line names last, and a
\* command line that is refused to none: the old logs are there still.
OldLogsAreKept ==
  \A s \in Creatable :
    output[s] # OldLog => WellFormed /\ Given("l") # {} /\ s = LastOf("l")

\* What a configuration file says, by its lines alone: module Toml has the path of
\* a line.
ValuesOf(text, path) ==
  {text[i].value : i \in {j \in DOMAIN text : text[j].type = "keyval" /\ T!FullPath(text, j) = path}}

Listed(text, section) ==
  UNION {ToSet(v.elements) : v \in {w \in ValuesOf(text, <<section, "paths">>) : w.type = "array"}}

IsString(value) == value.type = "value" /\ value.val # NotString

Words(text, op) == {v \in ValuesOf(text, <<"filter", op>>) : IsString(v)}

\* A table of filters, and nothing but known words in it.
HasFilters(text) ==
  /\ \E i \in DOMAIN text :
       LET path == T!FullPath(text, i)
       IN path # << >> /\ Head(path) = "filter" /\ (Len(path) > 1 \/ text[i].type = "table")
  /\ \A op \in op_names : \A v \in Words(text, op) : v.val \in LF!FilterWords

\* A run without a file has no lines, and needs none.
Meaning(file) ==
  LET text == IF file = NULL THEN << >> ELSE file
  IN [exclude |-> {v \in Listed(text, "exclude") : IsString(v)},
      include |-> {v \in Listed(text, "include_only") : IsString(v)},
      lists   |-> \A v \in Listed(text, "exclude") \cup Listed(text, "include_only") : IsString(v),
      word    |-> [op \in op_names |-> IF Words(text, op) = {} THEN "absent"
                                        ELSE (CHOOSE v \in Words(text, op) : TRUE).val],
      independent |-> T!Independent(text),
      sound   |-> file = NULL \/ (T!Independent(text) /\ HasFilters(text))]

Meanings ==
  [name \in DOMAIN ConfigFile \cup {NULL} |-> Meaning(File(name))]

Conf == Meanings[LastOf("c")]

\* No two lines of the file have to do with each other, and none has an inline
\* table or an array of arrays: what it says can be read off its lines.
LinesAreIndependent == Conf.independent

\* All elements of the two lists are strings.
ListsAreSound == Conf.lists

\* What main has loaded is what the configuration file says by its lines.
FiltersAreMeant ==
  /\ \A op \in op_names : op_flags[op] = LF!FlagsOfWord(Conf.word[op])
  /\ ListsAreSound =>
       /\ ToSet(g_filter.exclude) = {v.val : v \in Conf.exclude}
       /\ ToSet(g_filter.include) = {v.val : v \in Conf.include}
       /\ JUNK \notin ToSet(g_filter.exclude) \cup ToSet(g_filter.include)

\* Nothing is mounted with other filters than the lines say: through the parser, the accessors and
\* the conversion of words and lists, every line has come to where it belongs,
\* whatever the order of the lines and the form of the keys.  A sound file is
\* read to its end, and has its table of filters.
FiltersAreLoaded ==
  LinesAreIndependent =>
    /\ phase \in {"chdir", "mount", "mounted", "leaving", "print", "printing"} => FiltersAreMeant
    /\ phase = "parsing" /\ Conf.sound =>
         /\ status # "failed"
         /\ status = "parsed" => In(1, "filter", "t") # NULL

Under(list, path) == \E v \in list : IsPrefix(v.val, path)

Selected(path) ==
  /\ Conf.include = {} \/ Under(Conf.include, path)
  /\ ~Under(Conf.exclude, path)

Word(op) == Conf.word[op]

\* release and fsync are logged whatever their filters say.
Wanted(r) ==
  Selected(r.path) /\ (r.op \in Unasked \/ r.outcome \in LF!FlagsOfWord(Word(r.op)))

\* main has come to its end and has printed a log.
Printed == phase = "exit" /\ hash_log # NULL

CountIn(l, p) == IF p \in DOMAIN l THEN l[p].count ELSE 0

\* The requests among `wanted`, as often as they have been made.
Askings(wanted) == UNION {{r} \X (1..asked[r]) : r \in DOMAIN asked \cap wanted}

\* The printed log counts exactly the requests that the clients made and the
\* configuration asks for, and every release and fsync in the lists; those that
\* were under way at the unmount are included: nothing is printed before the last
\* worker has ended.
PrintedLogIsComplete ==
  Printed /\ LinesAreIndependent /\ ListsAreSound =>
    \A p \in Paths :
      CountIn(output[hash_log], p) = Cardinality(Askings({r \in Request : r.path = p /\ Wanted(r)}))

\* All lines of the log have been processed.
Distilled == Printed /\ done = DOMAIN output[hash_log]

InCopy(path, kind) == path \in DOMAIN copy /\ copy[path] = kind

\* Clients looked at d, and neither read nor listed it.
LookedAt(d) ==
  LET flags == output[hash_log][d].flags
  IN /\ d \in DOMAIN output[hash_log]
     /\ "getattr" \in flags
     /\ {"open", "read", "readlink", "readdir"} \cap flags = {}

\* What the clients have opened, and the lists let through.  Paths with a colon
\* are lost between Print_Hash and process_log.lua.
Opened ==
  {r.path : r \in {q \in DOMAIN asked : q.op = "open" /\ q.outcome = LF!LOG_SUCCESS
                                         /\ Selected(q.path) /\ q.path \notin HasColon}}

\* The purpose of the system: what a build opened is in the distilled copy when
\* the script has run, in whatever order the log has its lines.  But a directory
\* the build only looked at may have become an empty file before anything of it
\* was to be copied, and for a file at the top nobody makes the target directory.
OpenedFilesAreCopied ==
  Distilled /\ LinesAreIndependent /\ ListsAreSound /\ Word("open") \in {"absent", "success"} =>
    \A p \in Opened :
      \/ InCopy(p, "copied")
      \/ \E d \in Above(p) : InCopy(d, "empty") /\ LookedAt(d)
      \/ Len(p) = 1 /\ ~TargetThere

\* The copy never has anything that the directory has not, nor another kind of
\* it, and empties nothing that clients read, if the filter of getattr lets
\* nothing but successes through; but what is empty may be a directory they only
\* looked at.
NoPhantomFile ==
  Printed /\ LinesAreIndependent /\ Word("getattr") = "success" =>
    \A p \in DOMAIN copy :
      /\ p \in DOMAIN Tree
      /\ copy[p] = "dir" => Tree[p] = "dir"
      /\ copy[p] = "copied" => Tree[p] = "file"
      /\ copy[p] = "empty" => LookedAt(p)

\* A run with a log, a mount point and a sound configuration file does not
\* crash, whatever the order of its options and its lines, and however a system
\* call of main fails.
SoundRunsEndWell ==
  /\ WellFormed /\ Conf.sound /\ ListsAreSound
  /\ Given("f") # {} \/ LastOf("l") \in Creatable
  /\ args.status # "abort"
  => phase # "crashed"

\* The handlers make every path relative to the working directory.  It is the
\* covered directory, also in a daemon, if main could open that; and it is never
\* the root of the host unless that open failed.
CoveredDirectoryIsServed ==
  phase \in {"mounted", "leaving"} =>
    /\ savefd = "covered" => cwd = "covered"
    /\ cwd = "root" => savefd = NULL

\* After an unmount the log gets printed, or the program has died of something.
UnmountEnds == phase = "leaving" ~> phase \in {"exit", "crashed", "killed"}

\* By default only successful operations are logged, so that nothing gets an empty
\* file in the distilled copy but what is there in the directory.
DefaultMakesNoPhantom == Printed => \A p \in DOMAIN copy : InCopy(p, "empty") => p \in DOMAIN Tree

\* The copy has every file that the build needed.
NeededFilesAreCopied ==
  Distilled /\ TargetThere => \A p \in Opened : InCopy(p, "copied")
=============================================================================
