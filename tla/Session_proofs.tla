--------------------------- MODULE Session_proofs ---------------------------
(***************************************************************************)
(* Theorems about Session: what processArgs makes of any command line,     *)
(* which file a run writes to, which directory it serves, and what the     *)
(* printed log and the copy made of it have to do with the requests.       *)
(***************************************************************************)
EXTENDS Session, NatLemmas, FiniteSetTheorems, SequenceTheorems, TLAPS

-----------------------------------------------------------------------------
(***************************************************************************)
(* The invariant.                                                          *)
(***************************************************************************)
\* The phases that follow a command line that has been accepted, up to the end.
Started ==
  {"open", "config", "parsing", "chdir", "mount", "mounted", "leaving", "print", "printing"}

OptionArgs ==
  {NULL, JUNK} \cup UNION {{c.opts[k].arg : k \in DOMAIN c.opts} : c \in Commands}

ArgValues ==
  FuseWords \cup {"distillerfs", NULL} \cup UNION {ToSet(c.operands) : c \in Commands}

ArgsType ==
  [status : {"ok", "usage", "abort"}, optind : Nat, isDaemon : BOOLEAN,
   configFilename : OptionArgs, logFilename : OptionArgs, got_p : BOOLEAN,
   mountPoint : ArgValues, fuseArgv : Seq(ArgValues)]

\* The first n options of the command line c.
GivenBy(c, o, n) == {k \in 1..n : c.opts[k].opt = o}
LastBy(c, o, n) == IF GivenBy(c, o, n) = {} THEN NULL ELSE c.opts[Max(GivenBy(c, o, n))].arg

\* What `a` holds when n options have been read.
HasRead(a, c, n) ==
  /\ a.status = "ok"
  /\ GivenBy(c, "h", n) = {}
  /\ a.isDaemon <=> GivenBy(c, "f", n) = {}
  /\ a.got_p <=> GivenBy(c, "p", n) # {}
  /\ a.configFilename = LastBy(c, "c", n)
  /\ GivenBy(c, "l", n) = {} => a.logFilename \in {NULL, JUNK}
  /\ GivenBy(c, "l", n) # {} => a.logFilename = LastBy(c, "l", n)

Pushed(argv, word) == \E k \in 3..Len(argv) : argv[k] = word

\* The arguments for FUSE: words of options after the first two places, each -o
\* with its value.
Paired(argv) ==
  /\ argv \in Seq(ArgValues)
  /\ 2 <= Len(argv) /\ Len(argv) <= MaxFuseArgs
  /\ argv[1] = "distillerfs"
  /\ \A k \in 3..Len(argv) : argv[k] \in FuseWords
  /\ \A k \in 2..Len(argv) :
       argv[k] = "-o" <=> k < Len(argv) /\ argv[k + 1] \in {"common", "allow_other_common", "nonempty"}

\* They come from the first n options.
Built(argv, c, n) ==
  /\ Paired(argv)
  /\ Pushed(argv, "-f") <=> GivenBy(c, "f", n) # {}
  /\ Pushed(argv, "allow_other_common") <=> GivenBy(c, "p", n) # {}

\* While the options are read: n of them have been.
Reading(a, c, n) ==
  /\ HasRead(a, c, n)
  /\ Built(a.fuseArgv, c, n)
  /\ a.fuseArgv[2] = NULL
  /\ ~Pushed(a.fuseArgv, "common")

Accepted(c) ==
  /\ GivenBy(c, "h", Len(c.opts)) = {}
  /\ c.operands # << >> /\ Head(c.operands) \in Absolute

\* All have been read, and what processArgs has built has been followed by the
\* operands after the mount point.
ReadAll(a, c) ==
  LET own == SubSeq(a.fuseArgv, 1, Len(a.fuseArgv) - Len(Tail(c.operands)))
  IN /\ Accepted(c)
     /\ HasRead(a, c, Len(c.opts))
     /\ Built(own, c, Len(c.opts))
     /\ own[2] = Head(c.operands)
     /\ Pushed(own, "common") <=> ~a.got_p
     /\ a.fuseArgv = own \o Tail(c.operands)
     /\ Len(a.fuseArgv) <= MaxFuseArgs

Arguments ==
  /\ command \in Commands /\ args \in ArgsType
  /\ phase = "args" =>
       /\ args.optind \in 1..Len(command.opts) + 1
       /\ Reading(args, command, args.optind - 1)
  /\ phase \in Started => ReadAll(args, command)

\* A file has changed only if it is the stream of the log, which is stderr, or a
\* file that an accepted command line names.
Files ==
  /\ DOMAIN output = Creatable \cup {"stderr"}
  /\ hash_log \in {NULL, "stderr"} \cup Creatable
  /\ \A s \in Creatable : output[s] # OldLog => s = hash_log
  /\ hash_log \in Creatable =>
       /\ Accepted(command) /\ GivenBy(command, "l", Len(command.opts)) # {}
       /\ hash_log = LastBy(command, "l", Len(command.opts))
  /\ phase \in {"args", "open"} => hash_log = NULL
  /\ phase = "printing" => hash_log # NULL

\* Where the process is, and which directory savefd leads back to.
Place ==
  /\ phase \in {"args", "open", "config", "parsing", "chdir"} => cwd = "start" /\ savefd = NULL
  /\ phase = "mount" => cwd \in {"start", "covered"} /\ savefd \in {cwd, NULL}
  /\ phase \in {"mounted", "leaving"} =>
       /\ savefd = "covered" => cwd = "covered"
       /\ cwd = "root" => savefd = NULL

Phases == Started \cup {"args", "exit", "crashed", "killed"}

Unserved == \A t \in Threads : serving[t] = NULL

\* The request t serves is one that was made.
Requests ==
  /\ phase \in Phases
  /\ serving \in [Threads -> {NULL} \cup DOMAIN asked]
  /\ DOMAIN asked \subseteq Request
  /\ \A r \in DOMAIN asked : Possible(r)
  /\ phase \notin {"mounted", "leaving", "crashed", "killed"} => Unserved
  /\ DOMAIN asked # {} => phase \in {"mounted", "leaving", "print", "printing", "exit", "crashed", "killed"}

\* The filters have nothing but a yes for r.
LetThrough(r) == Verdicts(r) = {"yes"}

Has(l, r) == r.path \in DOMAIN l /\ r.op \in l[r.path].flags

\* A log that was made of the requests, and of nothing else.
From(l) ==
  \A p \in DOMAIN l : \A f \in l[p].flags :
    \E r \in DOMAIN asked : r.path = p /\ r.op = f /\ "yes" \in Verdicts(r)

\* The log has the requests that have been answered, and what is printed is the
\* log.
Printing ==
  /\ phase \notin {"exit", "crashed", "killed"} =>
       /\ From(log)
       /\ \A r \in DOMAIN asked : LetThrough(r) => Has(log, r) \/ \E t \in Threads : serving[t] = r
  /\ phase \in {"config", "parsing", "chdir", "mount", "mounted", "leaving", "print"} /\ hash_log # NULL =>
       output[hash_log] = EmptyLog
  /\ phase = "printing" =>
       /\ todo \subseteq DOMAIN log
       /\ DOMAIN output[hash_log] = DOMAIN log \ todo
       /\ \A p \in DOMAIN log \ todo : output[hash_log][p] = log[p]
  /\ Printed =>
       /\ From(output[hash_log])
       /\ \A r \in DOMAIN asked : LetThrough(r) => Has(output[hash_log], r)

\* A list without elements is the empty list.
Lists ==
  \A list \in {g_filter.include, g_filter.exclude} : DOMAIN list = {} => list = << >>

IInv == Arguments /\ Files /\ Place /\ Requests /\ Printing /\ Lists

-----------------------------------------------------------------------------
(***************************************************************************)
(* Options.                                                                *)
(***************************************************************************)
\* One more option: the last one counts.
LEMMA OneMoreOption ==
  ASSUME NEW n \in Nat, NEW c, NEW o
  PROVE  /\ GivenBy(c, o, n + 1) = {} <=> GivenBy(c, o, n) = {} /\ c.opts[n + 1].opt # o
         /\ LastBy(c, o, n + 1) = IF c.opts[n + 1].opt = o THEN c.opts[n + 1].arg
                               ELSE LastBy(c, o, n)
<1>1. 1..n + 1 = (1..n) \cup {n + 1}
  OBVIOUS
<1>2. GivenBy(c, o, n + 1) = GivenBy(c, o, n) \cup {k \in {n + 1} : c.opts[k].opt = o}
  BY <1>1 DEF GivenBy
<1>3. CASE c.opts[n + 1].opt = o
  <2> DEFINE S == GivenBy(c, o, n + 1)
  <2>1. n + 1 \in S /\ S \in SUBSET (0..n + 1)
    BY <1>2, <1>3 DEF GivenBy
  <2> HIDE DEF S
  <2> DEFINE m == n + 1
  <2>2. m \in Nat /\ S # {}
    BY <2>1
  <2>3. Max(S) = n + 1
    <3> HIDE DEF m
    <3>1. Max(S) \in S /\ \A y \in S : y <= Max(S)
      BY <2>1, <2>2, MaxNat DEF m
    <3>2. m <= Max(S) /\ Max(S) \in 0..m
      BY <2>1, <3>1 DEF m
    <3> QED BY <2>2, <3>2 DEF m
  <2>4. LastBy(c, o, n + 1) = c.opts[Max(S)].arg
    BY <2>1 DEF S, LastBy
  <2> QED BY <1>2, <1>3, <2>3, <2>4
<1>4. CASE c.opts[n + 1].opt # o
  <2>1. GivenBy(c, o, n + 1) = GivenBy(c, o, n)
    BY <1>2, <1>4
  <2> QED BY <1>2, <1>4, <2>1 DEF LastBy
<1>5. GivenBy(c, o, n + 1) = {} <=> GivenBy(c, o, n) = {} /\ c.opts[n + 1].opt # o
  BY <1>2
<1> QED
  BY <1>3, <1>4, <1>5

\* One more argument for FUSE, which is not the second half of a pair.
LEMMA PushOne ==
  ASSUME NEW argv, Paired(argv), Len(argv) + 1 <= MaxFuseArgs
  PROVE  LET new == argv \o <<"-f">>
         IN /\ Paired(new)
            /\ Pushed(new, "-f")
            /\ \A w \in FuseWords \ {"-f"} : Pushed(new, w) <=> Pushed(argv, w)
            /\ new[2] = argv[2]
<1> DEFINE new == argv \o <<"-f">>
           n == Len(argv)
<1>1. argv \in Seq(ArgValues) /\ n \in Nat /\ 2 <= n
  BY LenProperties DEF Paired
<1>2. <<"-f">> \in Seq(ArgValues) /\ Len(<<"-f">>) = 1 /\ <<"-f">>[1] = "-f"
  BY DEF ArgValues, FuseWords
<1>3. /\ new \in Seq(ArgValues) /\ Len(new) = n + 1
      /\ \A k \in 1..n : new[k] = argv[k]
      /\ new[n + 1] = "-f"
  BY <1>1, <1>2, ConcatProperties
<1> HIDE DEF new
<1>4. Paired(new)
  <2>1. new[1] = "distillerfs" /\ Len(new) <= MaxFuseArgs /\ 2 <= Len(new)
    BY <1>1, <1>3, ArgsAssumption DEF Paired
  <2>2. \A k \in 3..Len(new) : new[k] \in FuseWords
    BY <1>1, <1>3 DEF Paired, FuseWords
  <2>3. ASSUME NEW k \in 2..Len(new)
        PROVE  new[k] = "-o" <=> k < Len(new) /\ new[k + 1] \in {"common", "allow_other_common", "nonempty"}
    <3>1. CASE k < n
      BY <1>1, <1>3, <3>1 DEF Paired
    <3>2. CASE k = n
      BY <1>1, <1>3, <3>2 DEF Paired
    <3>3. CASE k = n + 1
      BY <1>1, <1>3, <3>3 DEF Paired
    <3> QED BY <1>1, <1>3, <3>1, <3>2, <3>3
  <2> QED BY <1>3, <2>1, <2>2, <2>3 DEF Paired
<1>5. Pushed(new, "-f")
  BY <1>1, <1>3 DEF Pushed
<1>6. \A w \in FuseWords \ {"-f"} : Pushed(new, w) <=> Pushed(argv, w)
  BY <1>1, <1>3 DEF Pushed
<1> QED
  BY <1>1, <1>3, <1>4, <1>5, <1>6 DEF new

\* A pair of arguments.
LEMMA PushPair ==
  ASSUME NEW argv, Paired(argv), Len(argv) + 2 <= MaxFuseArgs,
         NEW v \in {"common", "allow_other_common", "nonempty"}
  PROVE  LET new == argv \o <<"-o", v>>
         IN /\ Paired(new)
            /\ Pushed(new, v)
            /\ \A w \in FuseWords \ {"-o", v} : Pushed(new, w) <=> Pushed(argv, w)
            /\ new[2] = argv[2]
<1> DEFINE new == argv \o <<"-o", v>>
           n == Len(argv)
<1>1. argv \in Seq(ArgValues) /\ n \in Nat /\ 2 <= n
  BY LenProperties DEF Paired
<1>2. /\ <<"-o", v>> \in Seq(ArgValues) /\ Len(<<"-o", v>>) = 2
      /\ <<"-o", v>>[1] = "-o" /\ <<"-o", v>>[2] = v
  BY DEF ArgValues, FuseWords
<1>3. /\ new \in Seq(ArgValues) /\ Len(new) = n + 2
      /\ \A k \in 1..n : new[k] = argv[k]
      /\ new[n + 1] = "-o" /\ new[n + 2] = v
  BY <1>1, <1>2, ConcatProperties
<1> HIDE DEF new
<1>4. Paired(new)
  <2>1. new[1] = "distillerfs" /\ Len(new) <= MaxFuseArgs /\ 2 <= Len(new)
    BY <1>1, <1>3, ArgsAssumption DEF Paired
  <2>2. \A k \in 3..Len(new) : new[k] \in FuseWords
    BY <1>1, <1>3 DEF Paired, FuseWords
  <2>3. ASSUME NEW k \in 2..Len(new)
        PROVE  new[k] = "-o" <=> k < Len(new) /\ new[k + 1] \in {"common", "allow_other_common", "nonempty"}
    <3>1. CASE k < n
      BY <1>1, <1>3, <3>1 DEF Paired
    <3>2. CASE k = n
      BY <1>1, <1>3, <3>2 DEF Paired
    <3>3. CASE k = n + 1
      BY <1>1, <1>3, <3>3 DEF Paired
    <3>4. CASE k = n + 2
      BY <1>1, <1>3, <3>4 DEF Paired
    <3> QED BY <1>1, <1>3, <3>1, <3>2, <3>3, <3>4
  <2> QED BY <1>3, <2>1, <2>2, <2>3 DEF Paired
<1>5. Pushed(new, v)
  BY <1>1, <1>3 DEF Pushed
<1>6. \A w \in FuseWords \ {"-o", v} : Pushed(new, w) <=> Pushed(argv, w)
  BY <1>1, <1>3 DEF Pushed
<1> QED
  BY <1>1, <1>3, <1>4, <1>5, <1>6 DEF new
\* What one more option does to what has been read: it goes into one field, and
\* its words, if it has any, to the end of fuseArgv.
LEMMA ReadOption ==
  ASSUME NEW a \in ArgsType, NEW c \in Commands, NEW n \in Nat, n + 1 <= Len(c.opts),
         Reading(a, c, n)
  PROVE  LET b == ParseOption(a, c.opts[n + 1])
         IN b \in ArgsType /\ (b.status = "ok" => Reading(b, c, n + 1))
<1> DEFINE o == c.opts[n + 1]
           b == ParseOption(a, o)
<1> SUFFICES b \in ArgsType /\ (b.status = "ok" => Reading(b, c, n + 1))
  OBVIOUS
<1> HIDE DEF b
<1>1. \A q : /\ GivenBy(c, q, n + 1) = {} <=> GivenBy(c, q, n) = {} /\ o.opt # q
             /\ LastBy(c, q, n + 1) = IF o.opt = q THEN o.arg ELSE LastBy(c, q, n)
  BY OneMoreOption
<1> USE DEF b
<1>2. o.arg \in OptionArgs
  <2>1. Len(c.opts) \in Nat /\ DOMAIN c.opts = 1..Len(c.opts)
    BY CommandsAssumption, LenProperties
  <2> QED BY <2>1 DEF OptionArgs
<1>3. Paired(a.fuseArgv) /\ HasRead(a, c, n)
  BY DEF Reading, Built
<1> HIDE DEF o
<1>4. CASE o.opt = "h"
  BY <1>4 DEF ParseOption, ArgsType
<1>5. CASE o.opt = "f"
  <2>1. b = Push([a EXCEPT !.isDaemon = FALSE], <<"-f">>)
    BY <1>5 DEF ParseOption
  <2>2. CASE Len(a.fuseArgv) + 1 <= MaxFuseArgs
    <3> DEFINE argv == a.fuseArgv \o <<"-f">>
    <3>1. b = [a EXCEPT !.isDaemon = FALSE, !.fuseArgv = argv]
      BY <2>1, <2>2 DEF Push, ArgsType
    <3>2. /\ Paired(argv) /\ Pushed(argv, "-f") /\ argv[2] = a.fuseArgv[2]
          /\ \A w \in FuseWords \ {"-f"} : Pushed(argv, w) <=> Pushed(a.fuseArgv, w)
      BY <1>3, <2>2, PushOne
    <3> HIDE DEF argv
    <3>3. b \in ArgsType
      BY <3>1, <3>2 DEF ArgsType, Paired
    <3>4. HasRead(b, c, n + 1)
      BY <1>1, <1>3, <1>5, <3>1 DEF HasRead, ArgsType
    <3>5. b.fuseArgv = argv
      BY <3>1 DEF ArgsType
    <3> QED BY <1>1, <1>5, <3>2, <3>3, <3>4, <3>5 DEF Reading, Built, FuseWords
  <2>3. CASE ~(Len(a.fuseArgv) + 1 <= MaxFuseArgs)
    BY <2>1, <2>3 DEF Push, ArgsType
  <2> QED BY <2>2, <2>3
<1>6. CASE o.opt \in {"p", "e"}
  <2> DEFINE v == IF o.opt = "p" THEN "allow_other_common" ELSE "nonempty"
             g == a.got_p \/ o.opt = "p"
  <2>1. b = Push([a EXCEPT !.got_p = g], <<"-o", v>>)
    BY <1>6 DEF ParseOption, BringsCommon
  <2>2. v \in {"common", "allow_other_common", "nonempty"} /\ g \in BOOLEAN
    BY DEF ArgsType
  <2>3. g <=> GivenBy(c, "p", n + 1) # {}
    BY <1>1, <1>3 DEF HasRead
  <2>4. CASE Len(a.fuseArgv) + 2 <= MaxFuseArgs
    <3> DEFINE argv == a.fuseArgv \o <<"-o", v>>
    <3> HIDE DEF g
    <3>1. b = [a EXCEPT !.got_p = g, !.fuseArgv = argv]
      BY <2>1, <2>4 DEF Push, ArgsType
    <3>2. /\ Paired(argv) /\ Pushed(argv, v) /\ argv[2] = a.fuseArgv[2]
          /\ \A w \in FuseWords \ {"-o", v} : Pushed(argv, w) <=> Pushed(a.fuseArgv, w)
      <4> HIDE DEF v
      <4> QED BY <1>3, <2>2, <2>4, PushPair
    <3> HIDE DEF argv
    <3>3. b \in ArgsType
      BY <2>2, <3>1, <3>2 DEF ArgsType, Paired
    <3>4. HasRead(b, c, n + 1)
      BY <1>1, <1>3, <1>6, <2>2, <2>3, <3>1 DEF HasRead, ArgsType
    <3>5. b.fuseArgv = argv
      BY <3>1 DEF ArgsType
    <3> QED BY <1>1, <1>6, <3>2, <3>3, <3>4, <3>5 DEF Reading, Built, FuseWords
  <2>5. CASE ~(Len(a.fuseArgv) + 2 <= MaxFuseArgs)
    <3> HIDE DEF v, g
    <3> QED BY <2>1, <2>2, <2>5 DEF Push, ArgsType
  <2> QED BY <2>4, <2>5
<1>7. CASE o.opt = "c"
  <2>1. b = [a EXCEPT !.configFilename = o.arg]
    BY <1>7 DEF ParseOption
  <2>2. b \in ArgsType /\ b.fuseArgv = a.fuseArgv
    BY <1>2, <2>1 DEF ArgsType
  <2>3. HasRead(b, c, n + 1)
    BY <1>1, <1>3, <1>7, <2>1 DEF HasRead, ArgsType
  <2> QED BY <1>1, <1>7, <2>2, <2>3 DEF Reading, Built
<1>8. CASE o.opt = "l"
  <2>1. b = [a EXCEPT !.logFilename = o.arg]
    BY <1>8 DEF ParseOption
  <2>2. b \in ArgsType /\ b.fuseArgv = a.fuseArgv
    BY <1>2, <2>1 DEF ArgsType
  <2>3. HasRead(b, c, n + 1)
    BY <1>1, <1>3, <1>8, <2>1 DEF HasRead, ArgsType
  <2> QED BY <1>1, <1>8, <2>2, <2>3 DEF Reading, Built
<1>9. CASE o.opt \notin {"h", "f", "p", "e", "c", "l"}
  <2>1. b = a
    BY <1>9 DEF ParseOption
  <2>2. HasRead(b, c, n + 1)
    BY <1>1, <1>3, <1>9, <2>1 DEF HasRead
  <2> QED BY <1>1, <1>9, <2>1, <2>2 DEF Reading, Built
<1> QED
  BY <1>4, <1>5, <1>6, <1>7, <1>8, <1>9
\* The mount point goes to the second place, where no word of an option is.
LEMMA PutMountPoint ==
  ASSUME NEW argv, Paired(argv), argv[2] = NULL, NEW point \in Absolute, point \in ArgValues
  PROVE  LET new == [argv EXCEPT ![2] = point]
         IN /\ Paired(new) /\ Len(new) = Len(argv) /\ new[2] = point
            /\ \A w : Pushed(new, w) <=> Pushed(argv, w)
<1> DEFINE new == [argv EXCEPT ![2] = point]
<1>1. argv \in Seq(ArgValues) /\ Len(argv) \in Nat /\ 2 <= Len(argv)
  BY LenProperties DEF Paired
<1>2. /\ new \in Seq(ArgValues) /\ Len(new) = Len(argv)
      /\ \A k \in 1..Len(argv) : new[k] = IF k = 2 THEN point ELSE argv[k]
  BY <1>1, ExceptSeq
<1> HIDE DEF new
<1>3. \A w : Pushed(new, w) <=> Pushed(argv, w)
  BY <1>1, <1>2 DEF Pushed
<1>4. point \notin FuseWords
  BY CommandsAssumption
<1>5. Paired(new)
  <2>1. new[1] = "distillerfs" /\ \A k \in 3..Len(new) : new[k] = argv[k]
    BY <1>1, <1>2 DEF Paired
  <2>2. ASSUME NEW k \in 2..Len(new)
        PROVE  new[k] = "-o" <=> k < Len(new) /\ new[k + 1] \in {"common", "allow_other_common", "nonempty"}
    <3>1. k < Len(new) => new[k + 1] = argv[k + 1]
      BY <1>1, <1>2
    <3>2. argv[k] = "-o" <=> k < Len(argv) /\ argv[k + 1] \in {"common", "allow_other_common", "nonempty"}
      BY <1>2 DEF Paired
    <3>3. CASE k = 2
      <4>1. argv[k] # "-o"
        BY <3>3, NullAssumption DEF FuseWords
      <4>2. new[k] # "-o"
        BY <1>1, <1>2, <1>4, <3>3 DEF FuseWords
      <4> QED BY <1>2, <3>1, <3>2, <3>3, <4>1, <4>2
    <3>4. CASE k # 2
      <4>1. new[k] = argv[k]
        BY <1>1, <1>2, <3>4
      <4> QED BY <1>2, <3>1, <3>2, <4>1
    <3> QED BY <3>3, <3>4
  <2> QED BY <1>1, <1>2, <2>1, <2>2 DEF Paired
<1>6. new[2] = point
  BY <1>1, <1>2
<1> QED
  BY <1>2, <1>3, <1>5, <1>6 DEF new
\* The rest of processArgs, when all options have been read.
LEMMA ReadOperands ==
  ASSUME NEW a \in ArgsType, NEW c \in Commands, Reading(a, c, Len(c.opts))
  PROVE  LET b == ParseRest(a, c.operands)
         IN b \in ArgsType /\ (b.status = "ok" => ReadAll(b, c))
<1> DEFINE p == IF a.got_p THEN a ELSE Push(a, <<"-o", "common">>)
           b == ParseOperands(p, c.operands)
           n == Len(c.opts)
<1> SUFFICES b \in ArgsType /\ (b.status = "ok" => ReadAll(b, c))
  BY DEF ParseRest
<1>1. a.status = "ok" /\ Paired(a.fuseArgv) /\ a.fuseArgv[2] = NULL
  BY DEF Reading, HasRead, Built
<1>2. c.operands \in Seq(ArgValues)
  <2>1. c.operands \in Seq(ToSet(c.operands)) /\ ToSet(c.operands) \subseteq ArgValues
    BY CommandsAssumption DEF ArgValues
  <2> HIDE DEF b, p, n
  <2> QED BY <2>1, SeqMonotonic
<1>3. /\ p \in ArgsType
      /\ p.status = "ok" =>
           /\ HasRead(p, c, n) /\ Built(p.fuseArgv, c, n)
           /\ p.fuseArgv[2] = NULL
           /\ Pushed(p.fuseArgv, "common") <=> ~p.got_p
  <2>1. CASE a.got_p
    BY <2>1 DEF Reading
  <2>2. CASE ~a.got_p /\ Len(a.fuseArgv) + 2 <= MaxFuseArgs
    <3> DEFINE argv == a.fuseArgv \o <<"-o", "common">>
    <3>1. p = [a EXCEPT !.fuseArgv = argv]
      BY <2>2 DEF Push
    <3>2. /\ Paired(argv) /\ Pushed(argv, "common") /\ argv[2] = a.fuseArgv[2]
          /\ \A w \in FuseWords \ {"-o", "common"} : Pushed(argv, w) <=> Pushed(a.fuseArgv, w)
      BY <1>1, <2>2, PushPair
    <3> HIDE DEF argv, p, b, n
    <3>3. p \in ArgsType /\ p.fuseArgv = argv /\ ~p.got_p
      BY <2>2, <3>1, <3>2 DEF ArgsType, Paired
    <3>4. HasRead(p, c, n)
      BY <3>1 DEF HasRead, Reading, ArgsType, n
    <3> QED BY <1>1, <3>2, <3>3, <3>4 DEF Reading, Built, FuseWords, n
  <2>3. CASE ~a.got_p /\ ~(Len(a.fuseArgv) + 2 <= MaxFuseArgs)
    BY <2>3 DEF Push, ArgsType
  <2> QED BY <2>1, <2>2, <2>3
<1> HIDE DEF p, n
<1>4. CASE p.status # "ok"
  BY <1>3, <1>4 DEF ParseOperands
<1>5. CASE p.status = "ok" /\ c.operands = << >>
  BY <1>3, <1>5 DEF ParseOperands, ArgsType
<1>6. CASE p.status = "ok" /\ c.operands # << >>
  <2> DEFINE point == Head(c.operands)
             rest == Tail(c.operands)
             own == [p.fuseArgv EXCEPT ![2] = point]
             q == [p EXCEPT !.mountPoint = point, !.fuseArgv[2] = point]
             all == Push(q, rest)
  <2>1. point \in ArgValues /\ rest \in Seq(ArgValues)
    BY <1>2, <1>6, HeadTailProperties
  <2>2. p.fuseArgv \in Seq(ArgValues) /\ Len(p.fuseArgv) \in Nat /\ 2 <= Len(p.fuseArgv)
    BY <1>3, <1>6, LenProperties DEF Built, Paired
  <2>3. own \in Seq(ArgValues)
    <3> HIDE DEF point
    <3> QED BY <2>1, <2>2, ExceptSeq
  <2>4. b = IF all.status = "ok" /\ point \notin Absolute THEN [all EXCEPT !.status = "usage"] ELSE all
    BY <1>6 DEF ParseOperands, is_Absolute_Path
  <2>5. q = [p EXCEPT !.mountPoint = point, !.fuseArgv = own]
    BY <1>3 DEF ArgsType
  <2> HIDE DEF b, q, own, point, rest
  <2>6. q \in ArgsType /\ q.fuseArgv = own /\ q.status = "ok"
    BY <1>3, <1>6, <2>1, <2>3, <2>5 DEF ArgsType
  <2>7. CASE ~(Len(own) + Len(rest) <= MaxFuseArgs)
    <3>1. all = [q EXCEPT !.status = "abort"]
      BY <2>6, <2>7 DEF Push
    <3> HIDE DEF all
    <3> QED BY <2>4, <2>6, <3>1 DEF ArgsType
  <2>8. CASE Len(own) + Len(rest) <= MaxFuseArgs
    <3> DEFINE argv == own \o rest
    <3>1. all = [q EXCEPT !.fuseArgv = argv]
      BY <2>6, <2>8 DEF Push
    <3>2. argv \in Seq(ArgValues) /\ Len(argv) = Len(own) + Len(rest) /\ Len(rest) \in Nat
      BY <2>1, <2>3, ConcatProperties, LenProperties
    <3> HIDE DEF all, argv
    <3>3. all \in ArgsType /\ all.status = "ok" /\ all.fuseArgv = argv
      BY <2>6, <3>1, <3>2 DEF ArgsType
    <3>4. CASE point \notin Absolute
      BY <2>4, <3>3, <3>4 DEF ArgsType
    <3>5. CASE point \in Absolute
      <4>1. b = all
        BY <2>4, <3>5
      <4>2. HasRead(all, c, n)
        BY <1>3, <1>6, <2>5, <3>1, <3>3 DEF HasRead, ArgsType
      <4>3. all.got_p = p.got_p
        BY <1>3, <2>5, <3>1 DEF ArgsType
      <4>4. /\ Paired(own) /\ Len(own) = Len(p.fuseArgv) /\ own[2] = point
            /\ \A w : Pushed(own, w) <=> Pushed(p.fuseArgv, w)
        BY <1>3, <1>6, <2>1, <3>5, PutMountPoint DEF own, Built
      <4>5. SubSeq(argv, 1, Len(argv) - Len(rest)) = own
        <5>1. Len(own) \in Nat /\ 2 <= Len(own) /\ Len(argv) - Len(rest) = Len(own)
          BY <2>2, <3>2, <4>4
        <5>2. SubSeq(argv, 1, Len(own)) = SubSeq(own, 1, Len(own))
          BY <2>1, <2>3, <5>1, SubSeqOfConcat1 DEF argv
        <5>3. SubSeq(own, 1, Len(own)) = own
          BY <2>3, SubSeqFull
        <5> QED BY <5>1, <5>2, <5>3
      <4>6. Accepted(c)
        BY <1>6, <3>5 DEF Accepted, Reading, HasRead, point
      <4>7. Built(own, c, n) /\ (Pushed(own, "common") <=> ~all.got_p)
        BY <1>3, <1>6, <4>3, <4>4 DEF Built
      <4>8. Len(argv) <= MaxFuseArgs
        BY <2>8, <3>2
      <4> QED BY <3>3, <4>1, <4>2, <4>4, <4>5, <4>6, <4>7, <4>8 DEF ReadAll, argv, rest, point, n
    <3> QED BY <3>4, <3>5
  <2> QED BY <2>7, <2>8
<1> QED
  BY <1>4, <1>5, <1>6
-----------------------------------------------------------------------------
(***************************************************************************)
(* What the steps leave alone.                                             *)
(***************************************************************************)
\* Only the two steps of processArgs read the command line; phases only go
\* forward, and every other one is reached from the end of processArgs.
LEMMA ArgsFrame ==
  ASSUME [Next]_vars
  PROVE  \/ getopt \/ processArgs
         \/ /\ UNCHANGED <<command, args>>
            /\ phase' = "args" => phase = "args"
            /\ phase' \in Started => phase \in Started
<1>1. CASE UNCHANGED vars
  BY <1>1 DEF vars
<1>2. CASE Over \/ Distil
  BY <1>2 DEF Over, Distil, vars
<1>3. CASE OpenLog \/ OpenConfig \/ toml_parse \/ parse_config \/ Chdir \/ Mount
  BY <1>3 DEF OpenLog, OpenConfig, toml_parse, parse_config, Chdir, Mount, Started
<1>4. CASE Return \/ PrintHeader \/ Print_Hash \/ Free_Hash
  BY <1>4 DEF Return, PrintHeader, Print_Hash, Free_Hash, settled, Started
<1>5. CASE \E t \in Threads : (\E r \in Request : Serve(t, r)) \/ Record(t)
  BY <1>5 DEF Serve, Record, settled, Started
<1>6. CASE Unmount \/ Kill
  BY <1>6 DEF Unmount, Kill, settled, Started
<1> QED
  BY <1>1, <1>2, <1>3, <1>4, <1>5, <1>6 DEF Next, Main

\* Where main is after a step.
LEMMA AfterIs ==
  ASSUME NEW s \in {"ok", "usage", "abort"}, NEW next
  PROVE  After(s, next) = IF s = "ok" THEN next ELSE IF s = "usage" THEN "exit" ELSE "crashed"
BY DEF After

-----------------------------------------------------------------------------
(***************************************************************************)
(* Arguments.                                                              *)
(***************************************************************************)
\* Before the first option.
LEMMA ArgumentsInit == Init => Arguments
<1> SUFFICES ASSUME Init PROVE Arguments
  OBVIOUS
<1>1. PICK junk \in {NULL, JUNK} : args = Defaults(junk)
  BY DEF Init
<1>2. command \in Commands /\ phase = "args"
  BY DEF Init
<1>3. args \in ArgsType /\ args.optind = 1
  BY <1>1 DEF Defaults, ArgsType, OptionArgs, ArgValues
<1>4. command.opts \in Seq(ToSet(command.opts)) /\ Len(command.opts) \in Nat
  BY <1>2, CommandsAssumption, LenProperties
<1>5. \A o : GivenBy(command, o, 0) = {} /\ LastBy(command, o, 0) = NULL
  BY DEF GivenBy, LastBy
<1>6. HasRead(args, command, 0)
  BY <1>1, <1>5 DEF Defaults, HasRead
<1>7. args.fuseArgv = <<"distillerfs", NULL>>
  BY <1>1 DEF Defaults
<1>8. Paired(args.fuseArgv) /\ \A w : ~Pushed(args.fuseArgv, w)
  <2>1. NULL # "-o"
    BY NullAssumption DEF FuseWords
  <2> QED BY <1>7, <2>1, ArgsAssumption DEF Paired, Pushed, ArgValues
<1>9. Reading(args, command, 0)
  BY <1>5, <1>6, <1>7, <1>8 DEF Reading, Built
<1> QED
  BY <1>2, <1>3, <1>4, <1>9 DEF Arguments, Started

\* One option, all operands, or nothing new.
LEMMA ArgumentsInv == Arguments /\ [Next]_vars => Arguments'
<1> SUFFICES ASSUME Arguments, [Next]_vars PROVE Arguments'
  OBVIOUS
<1>0. command \in Commands /\ args \in ArgsType
  BY DEF Arguments
<1> PICK c \in Commands : c = command
  BY <1>0
<1> PICK a \in ArgsType : a = args
  BY <1>0
<1>1. Len(c.opts) \in Nat
  BY CommandsAssumption, LenProperties
<1>2. CASE getopt
  <2>1. /\ phase = "args" /\ a.optind <= Len(c.opts)
        /\ args' = [ParseOption(a, c.opts[a.optind]) EXCEPT !.optind = @ + 1]
        /\ phase' = After(args'.status, "args") /\ command' = c
    BY <1>2 DEF getopt
  <2>2. PICK n \in Nat : a.optind = n + 1 /\ Reading(a, c, n)
    BY <2>1 DEF Arguments
  <2> DEFINE b == ParseOption(a, c.opts[n + 1])
  <2>3. b \in ArgsType /\ (b.status = "ok" => Reading(b, c, n + 1))
    BY <1>1, <2>1, <2>2, ReadOption
  <2>4. b.optind = n + 1
    BY <2>2 DEF ParseOption, Push, ArgsType, BringsCommon
  <2>5. PICK d \in ArgsType : d = b
    BY <2>3
  <2> HIDE DEF b
  <2>6. args' = [d EXCEPT !.optind = n + 2] /\ d.optind = n + 1
    BY <2>1, <2>2, <2>4, <2>5 DEF b, ArgsType
  <2>7. PICK e \in ArgsType : e = args' /\ e.optind = n + 2 /\ e.status = d.status
    BY <2>6 DEF ArgsType
  <2>8. d.status = "ok" => Reading(e, c, n + 1)
    BY <2>3, <2>5, <2>6, <2>7 DEF Reading, HasRead, ArgsType
  <2>9. phase' = IF e.status = "ok" THEN "args" ELSE IF e.status = "usage" THEN "exit" ELSE "crashed"
    BY <2>1, <2>7, AfterIs DEF ArgsType
  <2>10. phase' \notin Started
    BY <2>9 DEF Started
  <2>11. phase' = "args" => e.optind \in 1..Len(c.opts) + 1 /\ Reading(e, c, e.optind - 1)
    BY <1>1, <2>1, <2>2, <2>7, <2>8, <2>9
  <2> QED BY <2>1, <2>7, <2>10, <2>11 DEF Arguments
<1>3. CASE processArgs
  <2>1. /\ phase = "args" /\ a.optind > Len(c.opts)
        /\ args' = ParseRest(a, c.operands)
        /\ phase' = After(args'.status, "open") /\ command' = c
    BY <1>3 DEF processArgs
  <2>2. Reading(a, c, Len(c.opts))
    <3>1. a.optind \in 1..Len(c.opts) + 1 /\ Reading(a, c, a.optind - 1)
      BY <2>1 DEF Arguments
    <3>2. a.optind - 1 = Len(c.opts)
      BY <1>1, <2>1, <3>1
    <3> QED BY <3>1, <3>2
  <2>3. args' \in ArgsType /\ (args'.status = "ok" => ReadAll(args', c))
    BY <2>1, <2>2, ReadOperands
  <2>4. PICK e \in ArgsType : e = args'
    BY <2>3
  <2>5. phase' = IF e.status = "ok" THEN "open" ELSE IF e.status = "usage" THEN "exit" ELSE "crashed"
    BY <2>1, <2>4, AfterIs DEF ArgsType
  <2> QED BY <2>1, <2>3, <2>4, <2>5 DEF Arguments, Started
<1>4. CASE /\ UNCHANGED <<command, args>>
           /\ phase' = "args" => phase = "args"
           /\ phase' \in Started => phase \in Started
  BY <1>4 DEF Arguments
<1> QED
  BY <1>2, <1>3, <1>4, ArgsFrame
\* All options of the command line are the first Len of them.
LEMMA AllOptions ==
  ASSUME command \in Commands
  PROVE  /\ \A o : Given(o) = GivenBy(command, o, Len(command.opts))
         /\ \A o : LastOf(o) = LastBy(command, o, Len(command.opts))
         /\ WellFormed <=> Accepted(command)
<1>1. DOMAIN command.opts = 1..Len(command.opts)
  BY CommandsAssumption, LenProperties
<1>2. \A o : Given(o) = GivenBy(command, o, Len(command.opts))
  BY <1>1 DEF Given, GivenBy
<1> QED
  BY <1>2 DEF LastOf, LastBy, WellFormed, Accepted

\* What is in front of the operands is what FUSE was to get.
LEMMA ArgumentsAsAsked == Arguments => FuseGetsWhatWasAsked
<1> SUFFICES ASSUME Arguments,
                    phase \in {"mount", "mounted", "leaving", "print", "printing"}
             PROVE  FuseGetsWhatWasAsked
  BY DEF FuseGetsWhatWasAsked
<1>1. command \in Commands /\ ReadAll(args, command)
  BY DEF Arguments, Started
<1> DEFINE n == Len(command.opts)
           own == SubSeq(args.fuseArgv, 1, Len(args.fuseArgv) - Len(Tail(command.operands)))
           values == {own[k] : k \in DOMAIN own}
<1>2. /\ Accepted(command) /\ HasRead(args, command, n) /\ Built(own, command, n)
      /\ own[2] = Head(command.operands) /\ (Pushed(own, "common") <=> ~args.got_p)
      /\ args.fuseArgv = own \o Tail(command.operands) /\ Len(args.fuseArgv) <= MaxFuseArgs
  BY <1>1 DEF ReadAll
<1>3. args.fuseArgv[2] = Head(command.operands)
  <2>1. own \in Seq(ArgValues) /\ Len(own) \in Nat /\ 2 <= Len(own)
    BY <1>2, LenProperties DEF Built, Paired
  <2>2. Tail(command.operands) \in Seq(ToSet(command.operands))
    BY <1>1, <1>2, CommandsAssumption, HeadTailProperties DEF Accepted
  <2>3. PICK S : own \in Seq(S) /\ Tail(command.operands) \in Seq(S)
    <3>1. ToSet(command.operands) \subseteq ArgValues
      BY <1>1 DEF ArgValues
    <3> HIDE DEF own
    <3> QED BY <2>1, <2>2, <3>1, SeqMonotonic
  <2> HIDE DEF own
  <2>4. Len(Tail(command.operands)) \in Nat
    BY <2>3, LenProperties
  <2>5. (own \o Tail(command.operands))[2] = own[2]
    BY <2>1, <2>3, <2>4, ConcatProperties
  <2> QED BY <1>2, <2>5
<1> HIDE DEF own
<1>4. own \in Seq(ArgValues) /\ DOMAIN own = 1..Len(own) /\ Len(own) \in Nat /\ 2 <= Len(own)
  BY <1>2, LenProperties DEF Built, Paired
<1>5. own[1] = "distillerfs" /\ own[2] \in Absolute
  BY <1>2 DEF Built, Paired, Accepted
<1>6. own[2] \notin FuseWords /\ own[2] # NULL
  BY <1>5, CommandsAssumption
<1>7. \A w \in FuseWords : w \in values <=> Pushed(own, w)
  <2> TAKE w \in FuseWords
  <2>1. own[1] # w /\ own[2] # w
    BY <1>5, <1>6 DEF FuseWords
  <2>2. \A k \in 1..Len(own) : own[k] = w => k \in 3..Len(own)
    BY <1>4, <2>1
  <2> QED BY <1>4, <2>2 DEF Pushed
<1>8. NULL \notin values
  <2>1. \A k \in 1..Len(own) : own[k] # NULL
    <3> TAKE k \in 1..Len(own)
    <3>1. CASE k \in 3..Len(own)
      BY <1>2, <3>1, NullAssumption DEF Built, Paired
    <3>2. CASE k = 1
      BY <1>5, <3>2, NullAssumption
    <3>3. CASE k = 2
      BY <1>6, <3>3
    <3> QED BY <1>4, <3>1, <3>2, <3>3
  <2> QED BY <1>4, <2>1
<1>9. ASSUME NEW k \in DOMAIN own
      PROVE  own[k] = "-o" <=> k < Len(own) /\ own[k + 1] \in {"common", "allow_other_common", "nonempty"}
  <2>1. CASE k = 1
    BY <1>4, <1>5, <1>6, <2>1 DEF FuseWords
  <2>2. CASE k # 1
    <3>1. k \in 2..Len(own)
      BY <1>4, <2>2
    <3> QED BY <1>2, <3>1 DEF Built, Paired
  <2> QED BY <2>1, <2>2
<1>10. /\ "-f" \in values <=> Pushed(own, "-f")
       /\ "allow_other_common" \in values <=> Pushed(own, "allow_other_common")
       /\ "common" \in values <=> Pushed(own, "common")
  <2> HIDE DEF values
  <2> QED BY <1>7 DEF FuseWords
<1> HIDE DEF values
<1>11. /\ args.isDaemon <=> Given("f") = {}
       /\ args.configFilename = LastOf("c")
       /\ Given("l") # {} => args.logFilename = LastOf("l")
       /\ args.got_p <=> Given("p") # {}
  BY <1>1, <1>2, AllOptions DEF HasRead
<1>12. /\ Pushed(own, "-f") <=> Given("f") # {}
       /\ Pushed(own, "allow_other_common") <=> Given("p") # {}
       /\ Pushed(own, "common") <=> Given("p") = {}
  BY <1>1, <1>2, <1>11, AllOptions DEF Built
<1> QED
  BY <1>2, <1>3, <1>8, <1>9, <1>10, <1>11, <1>12 DEF FuseGetsWhatWasAsked, own, values
\* Where processArgs leads to.
LEMMA AfterArgs ==
  ASSUME Arguments, [Next]_vars, getopt \/ processArgs
  PROVE  /\ phase = "args" /\ phase' \in {"args", "open", "exit", "crashed"}
         /\ UNCHANGED <<command, toml, config, streams, place, workers>>
<1>1. args' \in ArgsType
  BY ArgumentsInv DEF Arguments
<1>2. PICK s \in {"ok", "usage", "abort"} : s = args'.status
  BY <1>1 DEF ArgsType
<1>3. After(s, "args") \in {"args", "exit", "crashed"} /\ After(s, "open") \in {"open", "exit", "crashed"}
  BY AfterIs
<1> QED
  BY <1>2, <1>3 DEF getopt, processArgs

-----------------------------------------------------------------------------
(***************************************************************************)
(* Files.                                                                  *)
(***************************************************************************)
\* Two steps write to a stream, and one more decides which.
LEMMA FilesFrame ==
  ASSUME Arguments, [Next]_vars
  PROVE  \/ OpenLog \/ Print_Hash
         \/ /\ UNCHANGED <<command, hash_log, output>>
            /\ phase' \in {"args", "open"} => phase \in {"args", "open"}
            /\ phase' = "printing" => phase = "printing" \/ hash_log # NULL
<1>1. CASE UNCHANGED vars
  BY <1>1 DEF vars, streams
<1>2. CASE Over \/ Distil
  BY <1>2 DEF Over, Distil, vars, streams
<1>3. CASE getopt \/ processArgs
  BY <1>3, AfterArgs DEF streams
<1>4. CASE OpenConfig \/ toml_parse \/ parse_config \/ Chdir \/ Mount
  BY <1>4 DEF OpenConfig, toml_parse, parse_config, Chdir, Mount, streams
<1>5. CASE Return \/ PrintHeader \/ Free_Hash
  BY <1>5 DEF Return, PrintHeader, Free_Hash, settled, streams
<1>6. CASE \E t \in Threads : (\E r \in Request : Serve(t, r)) \/ Record(t)
  BY <1>6 DEF Serve, Record, settled, streams
<1>7. CASE Unmount \/ Kill
  BY <1>7 DEF Unmount, Kill, settled, streams
<1> QED
  BY <1>1, <1>2, <1>3, <1>4, <1>5, <1>6, <1>7 DEF Next, Main

\* No file has been written to.
LEMMA FilesInit == Init => Files
BY NullAssumption DEF Init, Files

\* OpenLog empties the file of the last -l of an accepted command line, and
\* Print_Hash writes to the same.
LEMMA FilesInv == Arguments /\ Files /\ [Next]_vars => Files'
<1> SUFFICES ASSUME Arguments, Files, [Next]_vars PROVE Files'
  OBVIOUS
<1>1. CASE OpenLog
  <2>1. /\ phase = "open" /\ UNCHANGED <<command, args>> /\ phase' \in {"config", "crashed"}
        /\ ReadAll(args, command)
    BY <1>1 DEF OpenLog, Arguments, Started
  <2>2. CASE UNCHANGED streams
    BY <2>1, <2>2 DEF Files, streams
  <2>3. CASE /\ hash_log' = Stream
             /\ output' = IF Stream = NULL THEN output ELSE [output EXCEPT ![Stream] = EmptyLog]
    <3>1. Stream \in {NULL, "stderr"} \cup Creatable
      BY DEF Stream
    <3>2. Stream \in Creatable => Stream = args.logFilename
      BY NullAssumption DEF Stream
    <3>3. Stream \in Creatable =>
            /\ GivenBy(command, "l", Len(command.opts)) # {}
            /\ Stream = LastBy(command, "l", Len(command.opts))
      BY <2>1, <3>2, NullAssumption DEF ReadAll, HasRead
    <3>4. Accepted(command)
      BY <2>1 DEF ReadAll
    <3>5. \A s \in Creatable : output[s] = OldLog
      BY <2>1, NullAssumption DEF Files
    <3> HIDE DEF Stream
    <3> QED BY <2>1, <2>3, <3>1, <3>3, <3>4, <3>5 DEF Files
  <2> QED BY <1>1, <2>2, <2>3 DEF OpenLog
<1>2. CASE Print_Hash
  <2>1. PICK new : output' = [output EXCEPT ![hash_log] = new]
    BY <1>2 DEF Print_Hash
  <2>2. UNCHANGED <<command, phase, hash_log>>
    BY <1>2 DEF Print_Hash
  <2> QED BY <2>1, <2>2 DEF Files
<1>3. CASE /\ UNCHANGED <<command, hash_log, output>>
           /\ phase' \in {"args", "open"} => phase \in {"args", "open"}
           /\ phase' = "printing" => phase = "printing" \/ hash_log # NULL
  BY <1>3 DEF Files
<1> QED
  BY <1>1, <1>2, <1>3, FilesFrame

\* No file but that of the log is touched, and none by a command line that is refused.
LEMMA FilesAsOld == Arguments /\ Files => OldLogsAreKept
BY AllOptions, NullAssumption DEF Arguments, Files, OldLogsAreKept

-----------------------------------------------------------------------------
(***************************************************************************)
(* Place.                                                                  *)
(***************************************************************************)
\* Two steps change the working directory.
LEMMA PlaceFrame ==
  ASSUME Arguments, [Next]_vars
  PROVE  \/ Chdir \/ Mount
         \/ /\ UNCHANGED <<cwd, savefd>>
            /\ phase' \in {"args", "open", "config", "parsing", "chdir"} =>
                 phase \in {"args", "open", "config", "parsing", "chdir"}
            /\ phase' = "mount" => phase = "mount"
            /\ phase' \in {"mounted", "leaving"} => phase \in {"mounted", "leaving"}
<1>1. CASE UNCHANGED vars
  BY <1>1 DEF vars, place
<1>2. CASE Over \/ Distil
  BY <1>2 DEF Over, Distil, vars, place
<1>3. CASE getopt \/ processArgs
  BY <1>3, AfterArgs DEF place
<1>4. CASE OpenLog \/ OpenConfig \/ toml_parse \/ parse_config
  BY <1>4 DEF OpenLog, OpenConfig, toml_parse, parse_config, place
<1>5. CASE Return \/ PrintHeader \/ Print_Hash \/ Free_Hash
  BY <1>5 DEF Return, PrintHeader, Print_Hash, Free_Hash, settled, place
<1>6. CASE \E t \in Threads : (\E r \in Request : Serve(t, r)) \/ Record(t)
  <2>1. ASSUME NEW t \in Threads, NEW r \in Request, Serve(t, r)
        PROVE  phase = "mounted" /\ UNCHANGED <<phase, cwd, savefd>>
    BY <2>1 DEF Serve, settled, place
  <2>2. ASSUME NEW t \in Threads, Record(t)
        PROVE  /\ phase \in {"mounted", "leaving"} /\ phase' \in {phase, "crashed"}
               /\ UNCHANGED <<cwd, savefd>>
    BY <2>2 DEF Record, settled, place
  <2> QED BY <1>6, <2>1, <2>2
<1>7. CASE Unmount \/ Kill
  BY <1>7 DEF Unmount, Kill, settled, place
<1> QED
  BY <1>1, <1>2, <1>3, <1>4, <1>5, <1>6, <1>7 DEF Next, Main

\* main starts where it has been started.
LEMMA PlaceInit == Init => Place
BY DEF Init, Place

\* savefd leads to the directory that chdir has led to, and loggedFS_init
\* leads back to that.
LEMMA PlaceInv == Arguments /\ Place /\ [Next]_vars => Place'
<1> SUFFICES ASSUME Arguments, Place, [Next]_vars PROVE Place'
  OBVIOUS
<1>1. CASE Chdir
  BY <1>1 DEF Chdir, Place
<1>2. CASE Mount
  <2>1. phase = "mount" /\ savefd' = savefd /\ cwd \in {"start", "covered"} /\ savefd \in {cwd, NULL}
    BY <1>2 DEF Mount, Place
  <2>2. CASE phase' = "print"
    BY <2>2 DEF Place
  <2>3. CASE phase' = "mounted" /\ cwd' = loggedFS_init(IF Foreground THEN cwd ELSE "root")
    BY <2>1, <2>3, NullAssumption DEF Place, loggedFS_init
  <2> QED BY <1>2, <2>2, <2>3 DEF Mount
<1>3. CASE /\ UNCHANGED <<cwd, savefd>>
           /\ phase' \in {"args", "open", "config", "parsing", "chdir"} =>
                phase \in {"args", "open", "config", "parsing", "chdir"}
           /\ phase' = "mount" => phase = "mount"
           /\ phase' \in {"mounted", "leaving"} => phase \in {"mounted", "leaving"}
  BY <1>3 DEF Place
<1> QED
  BY <1>1, <1>2, <1>3, PlaceFrame
-----------------------------------------------------------------------------
(***************************************************************************)
(* Requests.                                                               *)
(***************************************************************************)
\* No request has been made.
LEMMA RequestsInit == Init => Requests
BY DEF Init, Requests, Phases, Unserved

\* What a step may do to the requests.
LEMMA RequestsFrame ==
  ASSUME Arguments, [Next]_vars
  PROVE  \/ \E t \in Threads, r \in Request : Serve(t, r)
         \/ \E t \in Threads : Record(t)
         \/ Print_Hash \/ Free_Hash \/ PrintHeader
         \/ UNCHANGED <<phase, serving, asked, log, todo, config, streams>>
         \/ /\ phase \in {"args", "open", "config", "parsing", "chdir", "mount"}
            /\ phase' \in Phases \ {"killed", "leaving", "printing"}
            /\ UNCHANGED <<serving, asked, log, todo>>
         \/ (Unmount \/ Kill \/ Return)
<1>1. CASE UNCHANGED vars \/ Over \/ Distil
  BY <1>1 DEF vars, workers, Over, Distil
<1>2. CASE getopt \/ processArgs
  BY <1>2, AfterArgs DEF workers, Phases, Started
<1>3. CASE OpenLog \/ OpenConfig \/ parse_config \/ Chdir \/ Mount
  BY <1>3 DEF OpenLog, OpenConfig, parse_config, Chdir, Mount, workers, Phases, Started
<1>4. CASE toml_parse
  BY <1>4 DEF toml_parse, workers
<1> QED
  BY <1>1, <1>2, <1>3, <1>4 DEF Next, Main

\* A worker serves what has been asked, and none is left when main goes on.
LEMMA RequestsInv == Arguments /\ Requests /\ [Next]_vars => Requests'
<1> SUFFICES ASSUME Arguments, Requests, [Next]_vars PROVE Requests'
  OBVIOUS
<1>1. ASSUME NEW t \in Threads, NEW r \in Request, Serve(t, r)
      PROVE  Requests'
  <2>1. /\ serving' = [serving EXCEPT ![t] = r]
        /\ asked' = IF r \in DOMAIN asked THEN [asked EXCEPT ![r] = @ + 1]
                    ELSE [q \in DOMAIN asked \cup {r} |-> IF q = r THEN 1 ELSE asked[q]]
        /\ Possible(r)
    BY <1>1 DEF Serve
  <2>3. DOMAIN asked' = DOMAIN asked \cup {r}
    BY <2>1
  <2>2. phase = "mounted" /\ phase' = "mounted"
    BY <1>1 DEF Serve
  <2>4. serving' \in [Threads -> {NULL} \cup DOMAIN asked']
    BY <2>1, <2>3 DEF Requests
  <2>5. \A q \in DOMAIN asked' : Possible(q)
    BY <2>1, <2>3 DEF Requests
  <2> QED BY <2>2, <2>3, <2>4, <2>5 DEF Requests, Phases, Started, Possible
<1>2. ASSUME NEW t \in Threads, Record(t)
      PROVE  Requests'
  <2>1. /\ phase \in {"mounted", "leaving"} /\ phase' \in {phase, "crashed"} /\ UNCHANGED asked
        /\ serving' = serving \/ serving' = [serving EXCEPT ![t] = NULL]
    BY <1>2 DEF Record, Answer
  <2> QED BY <2>1 DEF Requests, Phases, Started
<1>3. CASE Print_Hash \/ Free_Hash \/ PrintHeader
  <2>1. /\ phase \in {"print", "printing"} /\ phase' \in {"printing", "exit", "crashed"}
        /\ UNCHANGED <<serving, asked>>
    BY <1>3 DEF Print_Hash, Free_Hash, PrintHeader, settled
  <2> QED BY <2>1 DEF Requests, Phases, Started, Unserved
<1>4. CASE UNCHANGED <<phase, serving, asked, log, todo, config, streams>>
  BY <1>4 DEF Requests, Unserved
<1>5. CASE /\ phase \in {"args", "open", "config", "parsing", "chdir", "mount"}
           /\ phase' \in Phases \ {"killed", "leaving", "printing"}
           /\ UNCHANGED <<serving, asked, log, todo>>
  BY <1>5 DEF Requests, Unserved
<1>6. CASE Unmount \/ Kill \/ Return
  BY <1>6 DEF Unmount, Kill, Return, settled, Requests, Phases, Started, Unserved, Joined
<1> QED
  BY <1>1, <1>2, <1>3, <1>4, <1>5, <1>6, RequestsFrame
-----------------------------------------------------------------------------
(***************************************************************************)
(* Printing.                                                               *)
(***************************************************************************)
\* The filters say the same of every request, as long as they are the same.
LEMMA VerdictsKept ==
  ASSUME UNCHANGED config
  PROVE  \A r : Verdicts(r)' = Verdicts(r)
BY DEF config, Verdicts, Found, Asks

\* A log is made of the same requests.
LEMMA FromKept ==
  ASSUME UNCHANGED asked, DOMAIN asked = {} \/ UNCHANGED config
  PROVE  \A l : From(l)' <=> From(l)
<1>1. CASE DOMAIN asked = {}
  BY <1>1 DEF From
<1>2. CASE UNCHANGED config
  BY <1>2, VerdictsKept DEF From
<1> QED
  BY <1>1, <1>2

\* One more operation: the log still has what it had, and has what was recorded.
LEMMA HasRecorded ==
  ASSUME NEW l, NEW p, NEW f
  PROVE  /\ \A r : Has(l, r) => Has(Recorded(l, p, f), r)
         /\ \A r : r.path = p /\ r.op = f => Has(Recorded(l, p, f), r)
         /\ DOMAIN Recorded(l, p, f) = DOMAIN l \cup {p}
         /\ \A q \in DOMAIN l \cup {p} : \A g \in Recorded(l, p, f)[q].flags :
              (q = p /\ g = f) \/ (q \in DOMAIN l /\ g \in l[q].flags)
<1> DEFINE new == Recorded(l, p, f)
<1>1. DOMAIN new = DOMAIN l \cup {p}
  BY DEF Recorded
<1>2. \A q \in DOMAIN l \ {p} : new[q] = l[q]
  BY DEF Recorded
<1>3. new[p].flags = IF p \in DOMAIN l THEN l[p].flags \cup {f} ELSE {f}
  BY DEF Recorded
<1> HIDE DEF new
<1>4. \A r : Has(l, r) => Has(new, r)
  BY <1>1, <1>2, <1>3 DEF Has
<1>5. \A r : r.path = p /\ r.op = f => Has(new, r)
  BY <1>1, <1>3 DEF Has
<1>6. \A q \in DOMAIN l \cup {p} : \A g \in new[q].flags :
        (q = p /\ g = f) \/ (q \in DOMAIN l /\ g \in l[q].flags)
  BY <1>2, <1>3
<1> QED
  BY <1>1, <1>4, <1>5, <1>6 DEF new

\* The stream of the log is empty, and the log too.
LEMMA PrintingInit == Init => Printing
BY DEF Init, Printing, From, Printed, EmptyLog

\* A request is taken, and served from now on.
LEMMA PrintingServe ==
  ASSUME Requests, Printing, NEW t \in Threads, NEW r \in Request, Serve(t, r)
  PROVE  Printing'
<1>1. /\ phase = "mounted" /\ phase' = "mounted" /\ serving[t] = NULL
      /\ serving' = [serving EXCEPT ![t] = r]
      /\ UNCHANGED <<log, config, streams>>
      /\ asked' = IF r \in DOMAIN asked THEN [asked EXCEPT ![r] = @ + 1]
                  ELSE [q \in DOMAIN asked \cup {r} |-> IF q = r THEN 1 ELSE asked[q]]
  BY DEF Serve, settled
<1>2. DOMAIN asked' = DOMAIN asked \cup {r}
  BY <1>1
<1>3. From(log)'
  <2>1. From(log)
    BY <1>1 DEF Printing
  <2> QED BY <1>1, <1>2, <2>1, VerdictsKept DEF From
<1>4. ASSUME NEW q \in DOMAIN asked', LetThrough(q)'
      PROVE  Has(log', q) \/ \E u \in Threads : serving'[u] = q
  <2>1. CASE q = r
    BY <1>1, <2>1 DEF Requests
  <2>2. CASE q # r
    <3>1. q \in DOMAIN asked /\ LetThrough(q) /\ q # NULL
      BY <1>1, <1>2, <1>4, <2>2, VerdictsKept, NullAssumption DEF LetThrough, Requests
    <3>2. Has(log, q) \/ \E u \in Threads : serving[u] = q
      BY <1>1, <3>1 DEF Printing
    <3>3. ASSUME NEW u \in Threads, serving[u] = q PROVE serving'[u] = q
      BY <1>1, <3>1, <3>3 DEF Requests
    <3> QED BY <1>1, <3>2, <3>3
  <2> QED BY <2>1, <2>2
<1> QED
  BY <1>1, <1>3, <1>4 DEF Printing, Printed, streams

\* It is answered: if the filters let it through, it is in the log now.
LEMMA PrintingRecord ==
  ASSUME Requests, Printing, NEW t \in Threads, Record(t)
  PROVE  Printing'
<1> DEFINE r == serving[t]
<1>1. /\ r # NULL /\ phase \in {"mounted", "leaving"} /\ UNCHANGED <<asked, config, streams>>
      /\ r \in DOMAIN asked
  BY DEF Record, settled, Requests
<1>2. \A q : LetThrough(q)' <=> LetThrough(q)
  BY <1>1, VerdictsKept DEF LetThrough
<1>3. /\ From(log)
      /\ \A q \in DOMAIN asked : LetThrough(q) => Has(log, q) \/ \E u \in Threads : serving[u] = q
      /\ hash_log # NULL => output[hash_log] = EmptyLog
  BY <1>1 DEF Printing
<1>4. CASE "no" \in Verdicts(r) /\ Answer(t, log) /\ UNCHANGED phase
  <2>1. From(log)'
    BY <1>1, <1>3, <1>4, FromKept DEF Answer, From
  <2>2. ASSUME NEW q \in DOMAIN asked', LetThrough(q)'
        PROVE  Has(log', q) \/ \E u \in Threads : serving'[u] = q
    <3>1. q # r
      BY <1>2, <1>4, <2>2 DEF LetThrough
    <3> QED BY <1>1, <1>2, <1>3, <1>4, <2>2, <3>1 DEF Answer, Requests
  <2> QED BY <1>1, <1>3, <1>4, <2>1, <2>2 DEF Printing, Printed, streams
<1>5. CASE "yes" \in Verdicts(r) /\ Answer(t, Recorded(log, r.path, r.op)) /\ UNCHANGED phase
  <2>1. log' = Recorded(log, r.path, r.op)
    BY <1>5 DEF Answer
  <2>2. From(log)'
    <3>1. ASSUME NEW p \in DOMAIN log', NEW f \in log'[p].flags
          PROVE  \E q \in DOMAIN asked : q.path = p /\ q.op = f /\ "yes" \in Verdicts(q)
      <4>1. (p = r.path /\ f = r.op) \/ (p \in DOMAIN log /\ f \in log[p].flags)
        <5> HIDE DEF r
        <5>1. /\ DOMAIN log' = DOMAIN log \cup {r.path}
              /\ \A q \in DOMAIN log \cup {r.path} : \A g \in log'[q].flags :
                   (q = r.path /\ g = r.op) \/ (q \in DOMAIN log /\ g \in log[q].flags)
          BY <2>1, HasRecorded
        <5> QED BY <3>1, <5>1
      <4> QED BY <1>1, <1>3, <1>5, <4>1 DEF From
    <3> QED BY <1>1, <3>1, VerdictsKept DEF From
  <2>3. ASSUME NEW q \in DOMAIN asked', LetThrough(q)'
        PROVE  Has(log', q) \/ \E u \in Threads : serving'[u] = q
    <3>1. CASE q = r
      BY <2>1, <3>1, HasRecorded
    <3>2. CASE q # r
      <4>1. Has(log, q) \/ \E u \in Threads : serving[u] = q
        BY <1>1, <1>2, <1>3, <2>3
      <4>2. Has(log, q) => Has(log', q)
        BY <2>1, HasRecorded
      <4> QED BY <1>5, <3>2, <4>1, <4>2 DEF Answer, Requests
    <3> QED BY <3>1, <3>2
  <2> QED BY <1>1, <1>3, <1>5, <2>2, <2>3 DEF Printing, Printed, streams
<1>6. CASE phase' = "crashed"
  BY <1>6 DEF Printing, Printed
<1> QED
  BY <1>4, <1>5, <1>6 DEF Record
\* Before anything has been asked, the stream of the log is empty.
LEMMA StreamIsEmpty ==
  ASSUME Arguments, Files, Printing, [Next]_vars,
         phase \in {"args", "open", "config", "parsing", "chdir", "mount"}
  PROVE  hash_log' # NULL /\ phase' # "crashed" => output'[hash_log'] = EmptyLog
<1>1. CASE OpenLog
  <2>1. \/ phase' = "crashed"
        \/ /\ hash_log' = Stream
           /\ output' = IF Stream = NULL THEN output ELSE [output EXCEPT ![Stream] = EmptyLog]
    BY <1>1 DEF OpenLog
  <2>2. Stream \in {NULL, "stderr"} \cup Creatable /\ DOMAIN output = Creatable \cup {"stderr"}
    BY DEF Stream, Files
  <2> HIDE DEF Stream
  <2> QED BY <2>1, <2>2
<1>2. CASE Print_Hash
  BY <1>2 DEF Print_Hash
<1>3. CASE UNCHANGED <<command, hash_log, output>>
  <2>1. CASE phase \in {"args", "open"}
    BY <1>3, <2>1 DEF Files
  <2>2. CASE phase \notin {"args", "open"}
    BY <1>3, <2>2 DEF Printing
  <2> QED BY <2>1, <2>2
<1> QED BY <1>1, <1>2, <1>3, FilesFrame

\* A step of main before anything has been asked.
LEMMA PrintingBefore ==
  ASSUME Arguments, Files, Requests, Printing, [Next]_vars,
         phase \in {"args", "open", "config", "parsing", "chdir", "mount"},
         phase' \in Phases \ {"killed", "leaving", "printing"},
         UNCHANGED <<serving, asked, log, todo>>
  PROVE  Printing'
<1>1. DOMAIN asked = {}
  BY DEF Requests
<1>2. From(log)'
  BY <1>1, FromKept DEF Printing, From
<1>3. hash_log' # NULL /\ phase' # "crashed" => output'[hash_log'] = EmptyLog
  BY StreamIsEmpty
<1>4. From(EmptyLog)'
  BY DEF From, EmptyLog
<1> QED
  BY <1>1, <1>2, <1>3, <1>4 DEF Printing, Printed

\* From the unmount to the end of the print.
LEMMA PrintingAfter ==
  ASSUME Files, Requests, Printing, Unmount \/ Kill \/ Return \/ PrintHeader \/ Print_Hash \/ Free_Hash
  PROVE  Printing'
<1>0. UNCHANGED <<serving, asked, config, hash_log>>
  BY DEF Unmount, Kill, Return, PrintHeader, Print_Hash, Free_Hash, settled, streams
<1>1. /\ \A q : LetThrough(q)' <=> LetThrough(q)
      /\ \A l : From(l)' <=> From(l)
  BY <1>0, VerdictsKept, FromKept DEF LetThrough
<1>2. /\ From(log)
      /\ \A q \in DOMAIN asked : LetThrough(q) => Has(log, q) \/ \E u \in Threads : serving[u] = q
  BY DEF Unmount, Kill, Return, PrintHeader, Print_Hash, Free_Hash, Printing
<1>3. UNCHANGED log => From(log)'
  BY <1>0, <1>2, VerdictsKept DEF From
<1>4. CASE Unmount \/ Kill \/ Return
  <2>1. /\ UNCHANGED <<log, streams>> /\ phase \notin {"exit", "crashed"} /\ phase' \in {"leaving", "killed", "print"}
        /\ phase' \in {"leaving", "print"} => phase \in {"mounted", "leaving"}
    BY <1>4 DEF Unmount, Kill, Return, settled
  <2> QED BY <1>0, <1>1, <1>2, <1>3, <2>1 DEF Printing, Printed, streams
<1>5. CASE PrintHeader
  <2>1. /\ phase = "print" /\ UNCHANGED <<log, streams>>
        /\ \/ phase' = "crashed"
           \/ hash_log # NULL /\ phase' = "printing" /\ todo' = DOMAIN log
    BY <1>5 DEF PrintHeader
  <2>2. hash_log # NULL => output[hash_log] = EmptyLog
    BY <2>1 DEF Printing
  <2>3. DOMAIN EmptyLog = {}
    BY DEF EmptyLog
  <2> QED BY <1>0, <1>1, <1>2, <1>3, <2>1, <2>2, <2>3 DEF Printing, Printed, streams
<1>6. CASE Print_Hash
  <2>1. PICK path \in todo :
          /\ todo' = todo \ {path}
          /\ output' = [output EXCEPT ![hash_log] =
                          [p \in DOMAIN @ \cup {path} |-> IF p = path THEN log[p] ELSE @[p]]]
    BY <1>6 DEF Print_Hash
  <2>2. phase = "printing" /\ phase' = "printing" /\ UNCHANGED log /\ hash_log \in DOMAIN output
    BY <1>6 DEF Print_Hash, Files
  <2>3. /\ todo \subseteq DOMAIN log /\ DOMAIN output[hash_log] = DOMAIN log \ todo
        /\ \A p \in DOMAIN log \ todo : output[hash_log][p] = log[p]
    BY <2>2 DEF Printing
  <2>4. output'[hash_log] = [p \in (DOMAIN log \ todo) \cup {path} |-> IF p = path THEN log[p] ELSE output[hash_log][p]]
    BY <2>1, <2>2, <2>3
  <2>5. /\ DOMAIN output'[hash_log] = DOMAIN log \ todo'
        /\ \A p \in DOMAIN log \ todo' : output'[hash_log][p] = log[p]
    BY <2>1, <2>3, <2>4
  <2> QED BY <1>0, <1>1, <1>2, <1>3, <2>1, <2>2, <2>3, <2>5 DEF Printing, Printed
<1>7. CASE Free_Hash
  <2>1. phase = "printing" /\ todo = {} /\ phase' = "exit" /\ UNCHANGED <<output, asked>>
    BY <1>7 DEF Free_Hash, settled, streams
  <2>2. /\ DOMAIN output[hash_log] = DOMAIN log
        /\ \A p \in DOMAIN log : output[hash_log][p] = log[p]
    BY <2>1 DEF Printing
  <2>3. From(output[hash_log])'
    BY <1>0, <1>2, <2>1, <2>2, VerdictsKept DEF From
  <2>4. ASSUME NEW q \in DOMAIN asked', LetThrough(q)' PROVE Has(output'[hash_log'], q)
    <3>1. Has(log, q)
      BY <1>1, <1>2, <2>1, <2>4, NullAssumption DEF Requests, Unserved
    <3> QED BY <1>0, <2>1, <2>2, <3>1 DEF Has
  <2> QED BY <2>1, <2>3, <2>4 DEF Printing, Printed
<1> QED
  BY <1>4, <1>5, <1>6, <1>7

\* Every step.
LEMMA PrintingInv ==
  Arguments /\ Files /\ Requests /\ Printing /\ [Next]_vars => Printing'
<1> SUFFICES ASSUME Arguments, Files, Requests, Printing, [Next]_vars PROVE Printing'
  OBVIOUS
<1>1. CASE UNCHANGED <<phase, serving, asked, log, todo, config, streams>>
  <2>1. From(log)' <=> From(log)
    BY <1>1, VerdictsKept DEF From
  <2>2. From(output[hash_log])' <=> From(output[hash_log])
    BY <1>1, VerdictsKept DEF From, streams
  <2>3. \A q : LetThrough(q)' <=> LetThrough(q)
    BY <1>1, VerdictsKept DEF LetThrough
  <2> QED BY <1>1, <2>1, <2>2, <2>3 DEF Printing, Printed, streams
<1> QED
  BY <1>1, RequestsFrame, PrintingServe, PrintingRecord, PrintingBefore, PrintingAfter
-----------------------------------------------------------------------------
(***************************************************************************)
(* Lists.                                                                  *)
(***************************************************************************)
\* There is one function without arguments.
LEMMA EmptyList ==
  ASSUME NEW f, f = [n \in DOMAIN f |-> f[n]], DOMAIN f = {}
  PROVE  f = << >>
<1>1. f \in [1..0 -> {}]
  BY SMT
<1>2. f \in Seq({})
  BY <1>1
<1>3. Len(f) = 0
  BY <1>1, <1>2, LenProperties
<1> QED
  BY <1>2, <1>3, EmptySeq

\* At first both lists are empty.
LEMMA ListsInit == Init => Lists
BY DEF Init, Lists

\* parse_config makes them.
LEMMA ListsInv == Arguments /\ Lists /\ [Next]_vars => Lists'
<1> SUFFICES ASSUME Arguments, Lists, [Next]_vars PROVE Lists'
  OBVIOUS
<1>1. ASSUME parse_config PROVE Lists'
  <2>1. \/ UNCHANGED g_filter
        \/ g_filter' = [exclude |-> Paths_in("exclude"), include |-> Paths_in("include_only")]
    BY <1>1 DEF parse_config, config
  <2>2. \A section : DOMAIN Paths_in(section) = {} => Paths_in(section) = << >>
    <3> TAKE section
    <3> DEFINE a == IF In(1, section, "t") = NULL THEN NULL ELSE In(In(1, section, "t"), "paths", "a")
    <3>1. Paths_in(section) = IF a = NULL THEN << >> ELSE [n \in DOMAIN heap.array[a].item |-> Element(a, n)]
      BY DEF Paths_in
    <3> HIDE DEF a
    <3>2. CASE a = NULL
      BY <3>1, <3>2
    <3>3. CASE a # NULL
      <4> DEFINE f == [n \in DOMAIN heap.array[a].item |-> Element(a, n)]
      <4>1. f = [n \in DOMAIN f |-> f[n]]
        OBVIOUS
      <4> HIDE DEF f
      <4>2. DOMAIN f = {} => f = << >>
        BY <4>1, EmptyList
      <4> QED BY <3>1, <3>3, <4>2 DEF f
    <3> QED BY <3>2, <3>3
  <2> QED BY <2>1, <2>2 DEF Lists
<1>2. ASSUME UNCHANGED config PROVE Lists'
  BY <1>2 DEF Lists, config
<1>3. CASE getopt \/ processArgs
  BY <1>2, <1>3, AfterArgs
<1>4. CASE OpenLog \/ OpenConfig \/ toml_parse \/ Chdir \/ Mount
  BY <1>2, <1>4 DEF OpenLog, OpenConfig, toml_parse, Chdir, Mount
<1>5. CASE Return \/ PrintHeader \/ Print_Hash \/ Free_Hash \/ Unmount \/ Kill
  BY <1>2, <1>5 DEF Return, PrintHeader, Print_Hash, Free_Hash, Unmount, Kill, settled
<1>6. CASE \E t \in Threads : (\E r \in Request : Serve(t, r)) \/ Record(t)
  BY <1>2, <1>6 DEF Serve, Record, settled
<1>7. CASE Over \/ Distil \/ UNCHANGED vars
  BY <1>2, <1>7 DEF Over, Distil, vars
<1> QED
  BY <1>1, <1>3, <1>4, <1>5, <1>6, <1>7 DEF Next, Main

-----------------------------------------------------------------------------
(***************************************************************************)
(* The theorems.                                                           *)
(***************************************************************************)
\* What holds at every step of main and of its workers.
THEOREM Invariance == Spec => []IInv
<1>1. Init => IInv
  BY ArgumentsInit, FilesInit, PlaceInit, RequestsInit, PrintingInit, ListsInit DEF IInv
<1>2. IInv /\ [Next]_vars => IInv'
  BY ArgumentsInv, FilesInv, PlaceInv, RequestsInv, PrintingInv, ListsInv DEF IInv
<1> QED
  BY <1>1, <1>2, PTL DEF Spec

\* Whatever the options, their number and their order: the last value of each is
\* used, and FUSE gets a well-formed command line (processArgs).
THEOREM FuseIsCalledAsAsked == Spec => []FuseGetsWhatWasAsked
<1>1. IInv => FuseGetsWhatWasAsked
  BY ArgumentsAsAsked DEF IInv
<1> QED
  BY <1>1, Invariance, PTL

\* No run writes to another file than the log its command line names last.
THEOREM OldLogsStay == Spec => []OldLogsAreKept
<1>1. IInv => OldLogsAreKept
  BY FilesAsOld DEF IInv
<1> QED
  BY <1>1, Invariance, PTL

\* The directory that is served is the covered one, if main could open it.
THEOREM CoveredDirectory == Spec => []CoveredDirectoryIsServed
<1>1. IInv => CoveredDirectoryIsServed
  BY DEF IInv, Place, CoveredDirectoryIsServed
<1> QED
  BY <1>1, Invariance, PTL

\* The printed log has every request that the filters in force let through, and
\* has nothing that no request has put there.  releases and fsyncs, which do not
\* ask their filters, are let through by the two lists alone.
PrintedIsWhatWasServed ==
  Printed => /\ From(output[hash_log])
             /\ \A r \in DOMAIN asked : LetThrough(r) => Has(output[hash_log], r)

\* From the workers through Return, PrintHeader, Print_Hash and Free_Hash
\* nothing gets lost, with any number of threads and of requests for operations
\* whose handlers log one path (OpsAssumption).
THEOREM PrintIsWhole == Spec => []PrintedIsWhatWasServed
<1>1. IInv => PrintedIsWhatWasServed
  BY DEF IInv, Printing, PrintedIsWhatWasServed
<1> QED
  BY <1>1, Invariance, PTL
-----------------------------------------------------------------------------
(***************************************************************************)
(* The configuration file.  The parser is that of Toml, so that what has   *)
(* been read is a tree of which TomlTree_proofs knows each entry; the      *)
(* accessors look it up by section and key.                                *)
(***************************************************************************)
\* The parser, with the theorems about it.
TP == INSTANCE TomlTree_proofs WITH Lines <- {}, MaxLines <- 0, MaxPath <- 10

\* Toml is the same with its theorems as without: what a line is and where it belongs,
LEMMA SameText ==
  /\ \A s : T!IsSeq(s) <=> TP!IsSeq(s)
  /\ \A line : T!IsLine(line) <=> TP!IsLine(line)
  /\ \A text, i : T!FullPath(text, i) = TP!FullPath(text, i)
  /\ \A text : T!Independent(text) <=> TP!Independent(text)
<1>1. \A s : T!IsSeq(s) <=> TP!IsSeq(s)
  BY DEF T!IsSeq, TP!IsSeq, T!ToSet, TP!ToSet
<1>2. \A line : T!IsLine(line) <=> TP!IsLine(line)
  BY <1>1 DEF T!IsLine, TP!IsLine
<1>3. \A text, i : T!HeaderPath(text, i) = TP!HeaderPath(text, i)
  BY DEF T!HeaderPath, TP!HeaderPath, T!Max, TP!Max
<1>4. \A text, i : T!FullPath(text, i) = TP!FullPath(text, i)
  BY <1>3 DEF T!FullPath, TP!FullPath
<1>5. \A value : T!IsPlain(value) <=> TP!IsPlain(value)
  BY DEF T!IsPlain, TP!IsPlain
<1>6. \A text, i, path : T!Passes(text, i, path) <=> TP!Passes(text, i, path)
  BY <1>3, <1>4 DEF T!Passes, TP!Passes, T!IsStrictPrefix, TP!IsStrictPrefix, T!IsPrefix, TP!IsPrefix
<1>7. \A text : T!Independent(text) <=> TP!Independent(text)
  BY <1>4, <1>5, <1>6 DEF T!Independent, TP!Independent, T!IsPrefix, TP!IsPrefix
<1> QED BY <1>1, <1>2, <1>4, <1>7

\* how a key is looked up,
LEMMA SameKey == \A h, t, key : T!check_key(h, t, key) = TP!check_key(h, t, key)
BY DEF T!check_key, TP!check_key, T!NoRef, TP!NoRef, T!Ref, TP!Ref

\* and what the parser does.
LEMMA SameSteps ==
  /\ T!Init <=> TP!Init
  /\ T!InsideLine <=> TP!InsideLine
  /\ \A line : T!fill_tabpath(line) <=> TP!fill_tabpath(line)
  /\ \A line : T!ParseLine(line) <=> TP!ParseLine(line)
  /\ T!Eof <=> TP!Eof
<1>1. T!Init <=> TP!Init
  BY DEF T!Init, TP!Init, T!NewTable, TP!NewTable
<1>2. \A line : T!fill_tabpath(line) <=> TP!fill_tabpath(line)
  BY DEF T!fill_tabpath, TP!fill_tabpath, T!Walk, TP!Walk, T!Fail, TP!Fail
<1>3. \A line : T!ParseLine(line) <=> TP!ParseLine(line)
  BY DEF T!ParseLine, TP!ParseLine, T!KeyVal, TP!KeyVal
<1>4. T!Eof <=> TP!Eof
  BY DEF T!Eof, TP!Eof
<1>5. T!walk_tabpath <=> TP!walk_tabpath
  BY DEF T!walk_tabpath, TP!walk_tabpath, T!Ref, TP!Ref, T!NoRef, TP!NoRef, T!Done, TP!Done,
     T!Failed, TP!Failed, T!check_key, TP!check_key, T!Enter, TP!Enter, T!NewTable, TP!NewTable,
     T!AddTable, TP!AddTable, T!AddArray, TP!AddArray, T!Fail, TP!Fail, T!Continue, TP!Continue,
     T!TableOfKey, TP!TableOfKey, T!CurrentTable, TP!CurrentTable, T!Last, TP!Last, T!Walk,
     TP!Walk
<1>6. T!parse_select <=> TP!parse_select
  BY DEF T!parse_select, TP!parse_select, T!Ref, TP!Ref, T!NoRef, TP!NoRef, T!Done, TP!Done,
     T!Failed, TP!Failed, T!check_key, TP!check_key, T!Enter, TP!Enter, T!NewTable, TP!NewTable,
     T!AddTable, TP!AddTable, T!AddArray, TP!AddArray, T!Fail, TP!Fail, T!Continue, TP!Continue,
     T!create_keytable_in_table, TP!create_keytable_in_table, T!create_element,
     TP!create_element, T!create_keyarray_in_table, TP!create_keyarray_in_table,
     T!create_table_in_array, TP!create_table_in_array, T!Element, TP!Element, T!TakesOver,
     TP!TakesOver
<1>7. T!DottedKey <=> TP!DottedKey
  BY DEF T!DottedKey, TP!DottedKey, T!Ref, TP!Ref, T!NoRef, TP!NoRef, T!Done, TP!Done, T!Failed,
     TP!Failed, T!check_key, TP!check_key, T!Enter, TP!Enter, T!NewTable, TP!NewTable,
     T!AddTable, TP!AddTable, T!AddArray, TP!AddArray, T!Fail, TP!Fail, T!Continue, TP!Continue,
     T!create_keytable_in_table, TP!create_keytable_in_table, T!TakesOver, TP!TakesOver,
     T!IsOpen, TP!IsOpen, T!KeyVal, TP!KeyVal
<1>8. T!AssignKey <=> TP!AssignKey
  BY DEF T!AssignKey, TP!AssignKey, T!Ref, TP!Ref, T!NoRef, TP!NoRef, T!Done, TP!Done, T!Failed,
     TP!Failed, T!check_key, TP!check_key, T!Enter, TP!Enter, T!NewTable, TP!NewTable,
     T!AddTable, TP!AddTable, T!AddArray, TP!AddArray, T!Fail, TP!Fail, T!Continue, TP!Continue,
     T!create_keyval_in_table, TP!create_keyval_in_table, T!create_keyarray_in_table,
     TP!create_keyarray_in_table, T!create_keytable_in_table, TP!create_keytable_in_table,
     T!TakesOver, TP!TakesOver, T!IsOpen, TP!IsOpen, T!InArray, TP!InArray, T!Inline, TP!Inline
<1>9. T!parse_inline_table <=> TP!parse_inline_table
  BY DEF T!parse_inline_table, TP!parse_inline_table, T!Inline, TP!Inline, T!KeyVal, TP!KeyVal
<1>10. T!parse_array <=> TP!parse_array
  BY DEF T!parse_array, TP!parse_array, T!Ref, TP!Ref, T!NoRef, TP!NoRef, T!Done, TP!Done, T!Failed,
     TP!Failed, T!check_key, TP!check_key, T!Enter, TP!Enter, T!NewTable, TP!NewTable,
     T!AddTable, TP!AddTable, T!AddArray, TP!AddArray, T!Fail, TP!Fail, T!Continue, TP!Continue,
     T!Noted, TP!Noted, T!KindWith, TP!KindWith, T!InArray, TP!InArray, T!Inline, TP!Inline,
     T!Element, TP!Element, T!create_array_in_array, TP!create_array_in_array,
     T!create_table_in_array, TP!create_table_in_array
<1>11. T!InsideLine <=> TP!InsideLine
  BY <1>5, <1>6, <1>7, <1>8, <1>9, <1>10 DEF T!InsideLine, TP!InsideLine
<1> QED BY <1>1, <1>2, <1>3, <1>4, <1>11

\* The file that parse_config is to read is the one that -c names last.
LEMMA NamedFile ==
  ASSUME Arguments
  PROVE  /\ LastOf("c") \in {NULL} \cup DOMAIN ConfigFile
         /\ Conf = Meaning(File(LastOf("c")))
         /\ phase \in Started => args.configFilename = LastOf("c")
<1>1. command \in Commands
  BY DEF Arguments
<1>2. LastOf("c") \in {NULL} \cup DOMAIN ConfigFile
  <2> DEFINE S == Given("c")
  <2>1. DOMAIN command.opts = 1..Len(command.opts) /\ Len(command.opts) \in Nat
    BY <1>1, CommandsAssumption, LenProperties
  <2>2. S \in SUBSET (0..Len(command.opts))
    BY <2>1 DEF Given
  <2>3. S # {} => Max(S) \in S
    <3> HIDE DEF S
    <3> QED BY <2>1, <2>2, MaxNat
  <2>4. \A k \in S : k \in DOMAIN command.opts /\ command.opts[k].opt = "c"
    BY DEF Given
  <2>5. LastOf("c") = IF S = {} THEN NULL ELSE command.opts[Max(S)].arg
    BY DEF LastOf
  <2> HIDE DEF S
  <2> QED BY <1>1, <2>3, <2>4, <2>5, FilesAssumption
<1>3. Conf = Meaning(File(LastOf("c")))
  BY <1>2 DEF Conf, Meanings
<1>4. phase \in Started => args.configFilename = LastOf("c")
  BY <1>1, AllOptions DEF Arguments, ReadAll, HasRead
<1> QED BY <1>2, <1>3, <1>4

\* The values of a line of a file.
IsValued(line) ==
  line.type = "keyval" =>
    /\ IsText(line.value)
    /\ line.value.type = "array" =>
         \A n \in DOMAIN line.value.elements : IsText(line.value.elements[n])

\* The lines of a file are what the parser takes.
LEMMA FileIs ==
  ASSUME NEW name \in {NULL} \cup DOMAIN ConfigFile, File(name) # NULL
  PROVE  /\ TP!IsText(File(name))
         /\ \A i \in DOMAIN File(name) : IsValued(File(name)[i])
<1>1. name \in DOMAIN ConfigFile /\ File(name) = ConfigFile[name] /\ ConfigFile[name] # NULL
  BY DEF File
<1> DEFINE text == ConfigFile[name]
<1>2. /\ T!IsSeq(text)
      /\ \A i \in DOMAIN text : T!IsLine(text[i]) /\ IsValued(text[i])
  BY <1>1, FilesAssumption DEF IsValued
<1> HIDE DEF text
<1>3. TP!IsText(text)
  BY <1>2, SameText DEF TP!IsText
<1> QED BY <1>1, <1>2, <1>3 DEF text

\* No line has been read.
LEMMA NothingRead ==
  /\ TP!IsText(<< >>) /\ TP!Independent(<< >>)
  /\ \A more : TP!IsText(more) => TP!Begins(<< >>, more)
<1>1. TP!IsSeq(<< >>) /\ DOMAIN << >> = {} /\ Len(<< >>) = 0
  BY DEF TP!IsSeq
<1>2. TP!IsText(<< >>)
  BY <1>1 DEF TP!IsText
<1>3. TP!Independent(<< >>)
  BY <1>1 DEF TP!Independent
<1>4. ASSUME NEW more, TP!IsText(more) PROVE TP!Begins(<< >>, more)
  <2>1. TP!IsSeq(more)
    BY <1>4 DEF TP!IsText
  <2>2. Len(more) \in Nat
    BY <2>1, LenProperties DEF TP!IsSeq
  <2>3. Len(<< >>) <= Len(more)
    BY <1>1, <2>2
  <2> QED BY <1>1, <1>2, <1>4, <2>3 DEF TP!Begins
<1> QED BY <1>2, <1>3, <1>4

\* What main has set before parse_config.
AtFirst ==
  /\ g_filter = [exclude |-> << >>, include |-> << >>]
  /\ op_flags = [op \in op_names |-> Both]

\* The parser has read the first lines of the file, all of them at its end, and
\* nothing has been loaded yet.
Parser ==
  /\ phase \in {"args", "open", "config", "parsing"} => TP!IInv /\ TP!TreeInv /\ AtFirst
  /\ phase \in {"args", "open", "config"} => read = << >> /\ status = "parsing"
  /\ phase = "parsing" =>
       /\ File(args.configFilename) # NULL
       /\ TP!Begins(read, File(args.configFilename))
       /\ status = "parsed" => read = File(args.configFilename)

\* Before the first step.
LEMMA ParserInit == Init => Parser
<1> SUFFICES ASSUME Init PROVE Parser
  OBVIOUS
<1>1. TP!Init
  BY SameSteps DEF Init
<1>2. TP!IInv /\ TP!TreeInv
  BY <1>1, TP!InitInv, TP!InitTree
<1>3. read = << >> /\ status = "parsing"
  BY <1>1 DEF TP!Init
<1> QED BY <1>2, <1>3 DEF Init, Parser, AtFirst

\* A step of the parser.
LEMMA ParserStep ==
  ASSUME Arguments, Parser, toml_parse
  PROVE  Parser'
<1> DEFINE file == File(args.configFilename)
           line == file[Len(read) + 1]
<1>1. /\ phase = "parsing" /\ UNCHANGED <<command, phase, args, config>>
      /\ \/ TP!InsideLine
         \/ Len(read) < Len(file) /\ (TP!fill_tabpath(line) \/ TP!ParseLine(line))
         \/ Len(read) = Len(file) /\ TP!Eof
  BY SameSteps DEF toml_parse
<1>2. TP!IInv /\ TP!TreeInv /\ AtFirst /\ AtFirst'
  BY <1>1 DEF Parser, AtFirst, config
<1>3. /\ file # NULL /\ TP!Begins(read, file) /\ (status = "parsed" => read = file)
  BY <1>1 DEF Parser
<1> HIDE DEF file
<1>4. File(args.configFilename)' = file
  BY <1>1 DEF file, File
<1> HIDE DEF line
<1>5. ASSUME TP!IInv', TP!TreeInv', TP!Begins(read', file), status' = "parsed" => read' = file
      PROVE  Parser'
  BY <1>1, <1>2, <1>3, <1>4, <1>5 DEF Parser
<1>6. CASE TP!InsideLine
  <2>1. TP!IInv' /\ TP!TreeInv' /\ read' = read /\ status' # "parsed"
    BY <1>2, <1>6, TP!RestStep
  <2> QED BY <1>3, <1>5, <2>1
<1>7. CASE Len(read) < Len(file) /\ (TP!fill_tabpath(line) \/ TP!ParseLine(line))
  <2>1. TP!IsLine(line) /\ TP!Begins(Append(read, line), file)
    BY <1>3, <1>7, TP!BeginsNext DEF line
  <2>2. TP!IInv' /\ TP!TreeInv' /\ status' # "parsed" /\ read' = Append(read, line)
    BY <1>2, <1>7, <2>1, TP!LineStep
  <2> QED BY <1>5, <2>1, <2>2
<1>8. CASE Len(read) = Len(file) /\ TP!Eof
  <2>1. TP!IInv' /\ TP!TreeInv' /\ read' = read
    BY <1>2, <1>8, TP!RestStep
  <2>2. read = file
    BY <1>3, <1>8, TP!BeginsNext
  <2> QED BY <1>3, <1>5, <2>1, <2>2
<1> QED BY <1>1, <1>6, <1>7, <1>8 DEF file, line

\* The parser is left alone before it begins, and by all others.
LEMMA ParserInv == Arguments /\ Parser /\ [Next]_vars => Parser'
<1> SUFFICES ASSUME Arguments, Parser, [Next]_vars PROVE Parser'
  OBVIOUS
<1>1. ASSUME UNCHANGED <<args, toml, config>>,
             phase' = phase \/ phase' \notin {"args", "open", "config", "parsing"}
             \/ (phase \in {"args", "open"} /\ phase' \in {"args", "open", "config"})
      PROVE  Parser'
  BY <1>1 DEF Parser, AtFirst, toml, config, TP!IInv, TP!TreeInv
<1>2. CASE getopt \/ processArgs
  <2>1. /\ phase = "args" /\ phase' \in {"args", "open", "exit", "crashed"}
        /\ UNCHANGED <<toml, config>>
    BY <1>2, AfterArgs
  <2> QED BY <2>1 DEF Parser, AtFirst, toml, config, TP!IInv, TP!TreeInv
<1>3. CASE OpenLog
  BY <1>1, <1>3 DEF OpenLog
<1>4. CASE OpenConfig
  <2>1. /\ phase = "config" /\ UNCHANGED <<args, toml, config>>
        /\ phase' = IF File(args.configFilename) = NULL THEN "chdir" ELSE "parsing"
    BY <1>4 DEF OpenConfig
  <2>2. CASE File(args.configFilename) = NULL
    BY <2>1, <2>2 DEF Parser
  <2>3. CASE File(args.configFilename) # NULL
    <3>1. args.configFilename \in {NULL} \cup DOMAIN ConfigFile
      BY <2>1, NamedFile DEF Started
    <3>2. TP!IsText(File(args.configFilename))
      BY <2>3, <3>1, FileIs
    <3>3. File(args.configFilename)' = File(args.configFilename)
      BY <2>1 DEF File
    <3>4. /\ read = << >> /\ status = "parsing" /\ TP!IInv /\ TP!TreeInv /\ AtFirst
      BY <2>1 DEF Parser
    <3>5. TP!Begins(read, File(args.configFilename))
      BY <3>2, <3>4, NothingRead
    <3>6. TP!IInv' /\ TP!TreeInv' /\ AtFirst' /\ read' = read /\ status' = status
      BY <2>1, <3>4 DEF AtFirst, toml, config, TP!IInv, TP!TreeInv
    <3>7. phase' = "parsing"
      BY <2>1, <2>3
    <3> QED BY <2>3, <3>3, <3>4, <3>5, <3>6, <3>7 DEF Parser
  <2> QED BY <2>2, <2>3
<1>5. CASE toml_parse
  BY <1>5, ParserStep
<1>6. CASE parse_config \/ Chdir \/ Mount
  BY <1>6 DEF parse_config, Chdir, Mount, Parser
<1>7. CASE Return \/ PrintHeader \/ Print_Hash \/ Free_Hash \/ Unmount \/ Kill
  BY <1>7 DEF Return, PrintHeader, Print_Hash, Free_Hash, Unmount, Kill, Parser
<1>8. CASE \E t \in Threads : (\E r \in Request : Serve(t, r)) \/ Record(t)
  BY <1>1, <1>8 DEF Serve, Record, settled
<1>9. CASE Over \/ Distil \/ UNCHANGED vars
  BY <1>1, <1>9 DEF Over, Distil, vars
<1> QED
  BY <1>2, <1>3, <1>4, <1>5, <1>6, <1>7, <1>8, <1>9 DEF Next, Main

\* The values of a key are those of the lines with its path.
LEMMA ValuesAre ==
  ASSUME NEW text, NEW path
  PROVE  ValuesOf(text, path) = {text[i].value : i \in TP!KeyLines(text, path)}
<1>1. {j \in DOMAIN text : text[j].type = "keyval" /\ T!FullPath(text, j) = path} = TP!KeyLines(text, path)
  BY SameText DEF TP!KeyLines
<1> QED BY <1>1 DEF ValuesOf

\* What toml_table_in finds.
LEMMA TableIn ==
  ASSUME NEW P, NEW text, TP!FileTree(heap, P, text), NEW s
  PROVE  LET old == TP!check_key(heap, 1, s)
         IN /\ In(1, s, "t") = IF old.kind = "t" THEN old.to ELSE NULL
            /\ old.kind = "t" => In(1, s, "t") # NULL
<1> DEFINE old == TP!check_key(heap, 1, s)
<1>1. In(1, s, "t") = IF old.kind = "t" THEN old.to ELSE NULL
  BY SameKey DEF In
<1>2. 1 \in DOMAIN P /\ DOMAIN P = DOMAIN heap.table /\ TP!IsHeap(heap)
  BY DEF TP!FileTree, TP!Shape
<1>3. old.kind = "t" => old.to \in DOMAIN P
  BY <1>2, TP!TableFound
<1>4. DOMAIN heap.table \subseteq Nat
  <2>1. TP!IsSeq(heap.table)
    BY <1>2 DEF TP!IsHeap
  <2>2. DOMAIN heap.table = 1..Len(heap.table) /\ Len(heap.table) \in Nat
    BY <2>1, TP!SeqIs
  <2> QED BY <2>2
<1> HIDE DEF old
<1>5. old.kind = "t" => old.to # NULL
  BY <1>2, <1>3, <1>4, FilesAssumption
<1> QED BY <1>1, <1>5 DEF old

\* What toml_raw_in and toml_array_in find for key k of the table [s]: the value of
\* the one line that sets it, or nothing.
LEMMA ValueIn ==
  ASSUME NEW P, NEW text, TP!FileTree(heap, P, text), NEW s, NEW k, In(1, s, "t") # NULL
  PROVE  LET t == In(1, s, "t")
             ref == TP!check_key(heap, t, k)
         IN \/ ValuesOf(text, <<s, k>>) = {} /\ ref.kind \notin {"v", "a"}
            \/ \E i \in DOMAIN text : /\ ValuesOf(text, <<s, k>>) = {text[i].value}
                                      /\ text[i].type = "keyval"
                                      /\ TP!Gives(heap, ref, text[i].value, 0, << >>)
<1> DEFINE t == In(1, s, "t")
           ref == TP!check_key(heap, t, k)
           lines == TP!KeyLines(text, <<s, k>>)
           values == ValuesOf(text, <<s, k>>)
<1>1. TP!check_key(heap, 1, s).kind = "t" /\ t = TP!check_key(heap, 1, s).to
  BY TableIn
<1>2. \/ lines = {} /\ ref.kind \notin {"v", "a"}
      \/ \E i \in DOMAIN text : lines = {i} /\ TP!Gives(heap, ref, text[i].value, 0, << >>)
  <2>1. LET old == TP!check_key(heap, 1, s)
            r == TP!check_key(heap, old.to, k)
        IN \/ lines = {} /\ (old.kind = "t" => r.kind \notin {"v", "a"})
           \/ \E i \in DOMAIN text : /\ lines = {i} /\ old.kind = "t"
                                     /\ TP!Gives(heap, r, text[i].value, 0, << >>)
    BY TP!SectionFound
  <2> HIDE DEF lines, t
  <2> QED BY <1>1, <2>1
<1>3. values = {text[i].value : i \in lines}
  BY ValuesAre
<1>4. \A i \in lines : text[i].type = "keyval"
  BY DEF TP!KeyLines
<1> SUFFICES \/ values = {} /\ ref.kind \notin {"v", "a"}
             \/ \E i \in DOMAIN text : /\ values = {text[i].value} /\ text[i].type = "keyval"
                                       /\ TP!Gives(heap, ref, text[i].value, 0, << >>)
  OBVIOUS
<1> HIDE DEF lines, values, ref
<1> QED BY <1>2, <1>3, <1>4

\* Nothing is the section of a file without its table.
LEMMA NoTable ==
  ASSUME NEW P, NEW text, TP!FileTree(heap, P, text), NEW s, NEW k, In(1, s, "t") = NULL
  PROVE  ValuesOf(text, <<s, k>>) = {}
<1>1. TP!check_key(heap, 1, s).kind # "t"
  BY TableIn
<1>2. TP!KeyLines(text, <<s, k>>) = {}
  BY <1>1, TP!SectionFound
<1> QED BY <1>2, ValuesAre

\* The lines of a file that is there have values.
Valued(text) == \A i \in DOMAIN text : IsValued(text[i])

\* The word of an operation.
LEMMA WordIs ==
  ASSUME NEW P, NEW text, TP!FileTree(heap, P, text), Valued(text), In(1, "filter", "t") # NULL, NEW op
  PROVE  LET word == toml_string_in(In(1, "filter", "t"), op)
         IN \/ Words(text, op) = {} /\ word = NULL
            \/ word # NULL /\ \E v : Words(text, op) = {v} /\ v.val = word
<1> DEFINE t == In(1, "filter", "t")
           ref == TP!check_key(heap, t, op)
           values == ValuesOf(text, <<"filter", op>>)
           word == toml_string_in(t, op)
<1>1. word = toml_rtos(IF ref.kind = "v" THEN ref.to ELSE NULL)
  BY SameKey DEF toml_string_in, In
<1>2. \/ values = {} /\ ref.kind \notin {"v", "a"}
      \/ \E i \in DOMAIN text : /\ values = {text[i].value} /\ text[i].type = "keyval"
                                /\ TP!Gives(heap, ref, text[i].value, 0, << >>)
  BY ValueIn
<1>3. Words(text, op) = {v \in values : IsString(v)}
  BY DEF Words
<1> SUFFICES \/ Words(text, op) = {} /\ word = NULL
             \/ word # NULL /\ \E v : Words(text, op) = {v} /\ v.val = word
  OBVIOUS
<1> HIDE DEF word, values, ref, t
<1>4. toml_rtos(NULL) = NULL
  BY DEF toml_rtos
<1>5. CASE values = {} /\ ref.kind \notin {"v", "a"}
  <2>1. Words(text, op) = {}
    BY <1>3, <1>5
  <2> QED BY <1>1, <1>4, <1>5, <2>1
<1>6. ASSUME NEW i \in DOMAIN text, values = {text[i].value}, text[i].type = "keyval",
             TP!Gives(heap, ref, text[i].value, 0, << >>)
      PROVE  \/ Words(text, op) = {} /\ word = NULL
             \/ word # NULL /\ \E v : Words(text, op) = {v} /\ v.val = word
  <2> DEFINE v == text[i].value
  <2>1. IsText(v)
    BY <1>6 DEF Valued, IsValued
  <2>2. \/ ref.kind = "v" /\ v.type = "value" /\ ref.to = v.val
        \/ ref.kind = "a" /\ v.type = "array"
    BY <1>6 DEF TP!Gives
  <2>3. values = {v}
    BY <1>6
  <2> HIDE DEF v
  <2>4. CASE ref.kind = "v" /\ v.type = "value" /\ ref.to = v.val /\ v.val # NotString
    <3>1. word = v.val /\ v.val # NULL
      BY <1>1, <2>1, <2>4 DEF toml_rtos, IsText
    <3>2. IsString(v)
      BY <2>4 DEF IsString
    <3>3. Words(text, op) = {v}
      BY <1>3, <2>3, <3>2
    <3> QED BY <3>1, <3>3
  <2>5. CASE v.type # "value" \/ v.val = NotString
    <3>1. ~IsString(v)
      BY <2>5 DEF IsString
    <3>2. Words(text, op) = {}
      BY <1>3, <2>3, <3>1
    <3>3. word = NULL
      BY <1>1, <1>4, <2>2, <2>5 DEF toml_rtos
    <3> QED BY <3>2, <3>3
  <2> QED BY <2>2, <2>4, <2>5
<1> QED BY <1>2, <1>5, <1>6

\* A list without its array.
LEMMA NoList ==
  ASSUME NEW text, NEW section, NEW list, list = << >>,
         \A w \in ValuesOf(text, <<section, "paths">>) : w.type # "array"
  PROVE  /\ ToSet(list) = {v.val : v \in {w \in Listed(text, section) : IsString(w)}}
         /\ JUNK \notin ToSet(list)
<1>1. Listed(text, section) = {}
  BY DEF Listed
<1>2. ToSet(list) = {}
  BY DEF ToSet
<1> QED BY <1>1, <1>2

\* The list of a section has the elements of its array, if they are strings.
LEMMA ListIs ==
  ASSUME NEW P, NEW text, TP!FileTree(heap, P, text), Valued(text), NEW section,
         \A w \in Listed(text, section) : IsString(w)
  PROVE  LET list == Paths_in(section)
         IN /\ ToSet(list) = {v.val : v \in {w \in Listed(text, section) : IsString(w)}}
            /\ JUNK \notin ToSet(list)
<1> DEFINE t == In(1, section, "t")
           a == IF t = NULL THEN NULL ELSE In(t, "paths", "a")
           ref == TP!check_key(heap, t, "paths")
           values == ValuesOf(text, <<section, "paths">>)
           list == Paths_in(section)
<1>0. list = IF a = NULL THEN << >> ELSE [n \in DOMAIN heap.array[a].item |-> Element(a, n)]
  BY DEF Paths_in
<1>1. t # NULL => a = IF ref.kind = "a" THEN ref.to ELSE NULL
  BY SameKey DEF In
<1>2. t # NULL =>
        \/ values = {} /\ ref.kind \notin {"v", "a"}
        \/ \E i \in DOMAIN text : /\ values = {text[i].value} /\ text[i].type = "keyval"
                                  /\ TP!Gives(heap, ref, text[i].value, 0, << >>)
  BY ValueIn
<1>3. t = NULL => values = {}
  BY NoTable
<1>4. Listed(text, section) = UNION {ToSet(v.elements) : v \in {w \in values : w.type = "array"}}
  BY DEF Listed
<1> SUFFICES /\ ToSet(list) = {v.val : v \in {w \in Listed(text, section) : IsString(w)}}
             /\ JUNK \notin ToSet(list)
  OBVIOUS
<1>5. ASSUME a = NULL, \A w \in values : w.type # "array"
      PROVE  /\ ToSet(list) = {v.val : v \in {w \in Listed(text, section) : IsString(w)}}
             /\ JUNK \notin ToSet(list)
  <2>1. list = << >>
    BY <1>0, <1>5
  <2> HIDE DEF list
  <2> QED BY <1>5, <2>1, NoList
<1>6. CASE t = NULL
  BY <1>3, <1>5, <1>6
<1>7. CASE t # NULL /\ values = {} /\ ref.kind \notin {"v", "a"}
  <2>1. a = NULL
    BY <1>1, <1>7
  <2>2. \A w \in values : w.type # "array"
    BY <1>7
  <2> QED BY <1>5, <2>1, <2>2
<1>8. ASSUME t # NULL, NEW i \in DOMAIN text, values = {text[i].value}, text[i].type = "keyval",
             TP!Gives(heap, ref, text[i].value, 0, << >>)
      PROVE  /\ ToSet(list) = {v.val : v \in {w \in Listed(text, section) : IsString(w)}}
             /\ JUNK \notin ToSet(list)
  <2> DEFINE v == text[i].value
  <2>1. CASE v.type # "array"
    <3>1. ref.kind = "v"
      BY <1>8, <2>1 DEF TP!Gives
    <3>2. a = NULL
      BY <1>1, <1>8, <3>1
    <3>3. \A w \in values : w.type # "array"
      BY <1>8, <2>1
    <3> QED BY <1>5, <3>2, <3>3
  <2>2. CASE v.type = "array"
    <3> DEFINE item == heap.array[ref.to].item
    <3>1. ref.kind = "a" /\ ref.to \in DOMAIN heap.array /\ TP!Holds(heap, ref.to, v.elements, << >>)
      BY <1>8, <2>2 DEF TP!Gives
    <3>2. TP!IsHeap(heap) /\ TP!IsText(text)
      BY DEF TP!FileTree
    <3>3. TP!IsSeq(v.elements) /\ TP!IsSeq(item) /\ TP!IsSeq(heap.array)
      BY <1>8, <2>2, <3>1, <3>2 DEF TP!IsText, TP!IsLine, TP!IsHeap, TP!IsArray
    <3>4. DOMAIN heap.array \subseteq Nat /\ DOMAIN item = 1..Len(item) /\ DOMAIN v.elements = 1..Len(v.elements)
          /\ Len(item) \in Nat
      <4>1. /\ DOMAIN heap.array = 1..Len(heap.array) /\ Len(heap.array) \in Nat
            /\ DOMAIN item = 1..Len(item) /\ Len(item) \in Nat
            /\ DOMAIN v.elements = 1..Len(v.elements)
        BY <3>3, TP!SeqIs
      <4> HIDE DEF item, v
      <4> QED BY <4>1
    <3>5. DOMAIN item = DOMAIN v.elements /\ \A n \in DOMAIN item : item[n] = TP!Ref("v", v.elements[n].val)
      <4>1. /\ Len(item) + Len(<< >>) = Len(v.elements)
            /\ \A n \in DOMAIN item : item[n] = TP!Ref("v", v.elements[n].val)
        BY <3>1 DEF TP!Holds
      <4> HIDE DEF item, v
      <4>2. Len(item) = Len(v.elements)
        BY <3>4, <4>1
      <4> QED BY <3>4, <4>1, <4>2
    <3>6. a = ref.to /\ a # NULL
      <4>1. ref.to # NULL
        BY <3>1, <3>4, FilesAssumption
      <4> QED BY <1>1, <1>8, <3>1, <4>1
    <3>7. list = [n \in DOMAIN item |-> Element(a, n)]
      BY <1>0, <3>6
    <3>8. Listed(text, section) = ToSet(v.elements)
      BY <1>4, <1>8, <2>2
    <3>9. ASSUME NEW n \in DOMAIN item
          PROVE  /\ Element(a, n) = v.elements[n].val /\ v.elements[n].val # JUNK
                 /\ v.elements[n] \in ToSet(v.elements) /\ IsString(v.elements[n])
      <4> DEFINE e == v.elements[n]
      <4>1. n \in DOMAIN v.elements /\ item[n] = TP!Ref("v", e.val)
        BY <3>5
      <4>2. e \in ToSet(v.elements)
        BY <4>1 DEF ToSet
      <4>3. IsString(e)
        BY <3>8, <4>2
      <4>4. IsText(e)
        BY <1>8, <2>2, <4>1 DEF Valued, IsValued
      <4> HIDE DEF e
      <4>5. e.val # NotString /\ e.val # NULL /\ e.val # JUNK
        BY <4>3, <4>4 DEF IsString, IsText
      <4>6. toml_string_at(a, n) = toml_rtos(e.val)
        <5>1. item[n].kind = "v" /\ item[n].to = e.val
          BY <4>1 DEF TP!Ref
        <5>2. item = heap.array[a].item
          BY <3>6
        <5> HIDE DEF item, a
        <5> QED BY <5>1, <5>2 DEF toml_string_at
      <4>7. toml_rtos(e.val) = e.val
        BY <4>5 DEF toml_rtos
      <4>8. Element(a, n) = e.val
        BY <4>5, <4>6, <4>7 DEF Element
      <4> QED BY <4>2, <4>3, <4>5, <4>8 DEF e
    <3> HIDE DEF item, v, a, list, values, ref, t
    <3>10. ToSet(list) = {v.elements[n].val : n \in DOMAIN v.elements}
      BY <3>5, <3>7, <3>9 DEF ToSet
    <3>11. {w \in Listed(text, section) : IsString(w)} = {v.elements[n] : n \in DOMAIN v.elements}
      BY <3>5, <3>8, <3>9 DEF ToSet
    <3>12. JUNK \notin ToSet(list)
      BY <3>5, <3>9, <3>10
    <3> QED BY <3>10, <3>11, <3>12
  <2> QED BY <2>1, <2>2
<1> HIDE DEF a, ref, values, list, t
<1> QED BY <1>2, <1>6, <1>7, <1>8

\* What the lines of a file mean that is there.
LEMMA MeaningIs ==
  ASSUME NEW text, text # NULL
  PROVE  LET c == Meaning(text)
         IN /\ c.exclude = {v \in Listed(text, "exclude") : IsString(v)}
            /\ c.include = {v \in Listed(text, "include_only") : IsString(v)}
            /\ c.lists <=> \A v \in Listed(text, "exclude") \cup Listed(text, "include_only") : IsString(v)
            /\ \A op \in op_names :
                 c.word[op] = IF Words(text, op) = {} THEN "absent"
                              ELSE (CHOOSE v \in Words(text, op) : TRUE).val
            /\ c.independent <=> TP!Independent(text)
            /\ c.sound <=> TP!Independent(text) /\ HasFilters(text)
<1> DEFINE c == Meaning(text)
           word == [op \in op_names |-> IF Words(text, op) = {} THEN "absent"
                                        ELSE (CHOOSE v \in Words(text, op) : TRUE).val]
<1>1. /\ c.exclude = {v \in Listed(text, "exclude") : IsString(v)}
      /\ c.include = {v \in Listed(text, "include_only") : IsString(v)}
  BY DEF Meaning
<1>2. c.lists = (\A v \in Listed(text, "exclude") \cup Listed(text, "include_only") : IsString(v))
  BY DEF Meaning
<1>3. c.word = word
  BY DEF Meaning
<1>4. c.independent = T!Independent(text) /\ c.sound = (text = NULL \/ (T!Independent(text) /\ HasFilters(text)))
  BY DEF Meaning
<1> HIDE DEF c
<1>5. \A op \in op_names :
        c.word[op] = IF Words(text, op) = {} THEN "absent" ELSE (CHOOSE v \in Words(text, op) : TRUE).val
  BY <1>3
<1>6. (c.independent <=> TP!Independent(text)) /\ (c.sound <=> TP!Independent(text) /\ HasFilters(text))
  BY <1>4, SameText
<1> QED BY <1>1, <1>2, <1>5, <1>6 DEF c

\* The file that has been read is that of the configuration.
LEMMA ReadIs ==
  ASSUME Arguments, Parser, phase = "parsing"
  PROVE  LET file == File(LastOf("c"))
         IN /\ file # NULL /\ Conf = Meaning(file) /\ Valued(file)
            /\ TP!Begins(read, file) /\ (status = "parsed" => read = file)
            /\ TP!IInv /\ TP!TreeInv /\ AtFirst
<1> DEFINE file == File(LastOf("c"))
<1>1. file = File(args.configFilename) /\ LastOf("c") \in {NULL} \cup DOMAIN ConfigFile /\ Conf = Meaning(file)
  BY NamedFile DEF Started
<1>2. /\ file # NULL /\ TP!Begins(read, file) /\ (status = "parsed" => read = file)
      /\ TP!IInv /\ TP!TreeInv /\ AtFirst
  BY <1>1 DEF Parser
<1>3. Valued(file)
  BY <1>1, <1>2, FileIs DEF Valued
<1> QED BY <1>1, <1>2, <1>3

\* The tree of a file of independent lines that has been read.
LEMMA TreeIs ==
  ASSUME Arguments, Parser, phase = "parsing", status = "parsed", TP!Independent(File(LastOf("c")))
  PROVE  \E P : TP!FileTree(heap, P, File(LastOf("c")))
<1>1. /\ read = File(LastOf("c")) /\ TP!IInv /\ TP!TreeInv
  BY ReadIs
<1> QED BY <1>1, TP!ParsedTree

\* A sound file is read to its end, and has its table.
LEMMA SoundFile ==
  ASSUME Arguments, Parser, phase = "parsing", Conf.sound
  PROVE  status # "failed" /\ (status = "parsed" => In(1, "filter", "t") # NULL)
<1> DEFINE file == File(LastOf("c"))
<1>1. /\ file # NULL /\ Conf = Meaning(file) /\ TP!Begins(read, file) /\ TP!TreeInv
  BY ReadIs
<1> HIDE DEF file
<1>2. TP!Independent(file) /\ HasFilters(file)
  BY <1>1, MeaningIs
<1>3. TP!Independent(read)
  BY <1>1, <1>2, TP!BeginsIs
<1>4. status # "failed"
  BY <1>1, <1>3 DEF TP!TreeInv
<1>5. ASSUME status = "parsed" PROVE In(1, "filter", "t") # NULL
  <2>1. PICK P : TP!FileTree(heap, P, file)
    BY <1>2, <1>5, TreeIs DEF file
  <2>2. PICK i \in DOMAIN file :
          /\ TP!FullPath(file, i) # << >> /\ Head(TP!FullPath(file, i)) = "filter"
          /\ Len(TP!FullPath(file, i)) > 1 \/ file[i].type = "table"
    BY <1>2, SameText DEF HasFilters
  <2>3. TP!check_key(heap, 1, "filter").kind = "t"
    <3>1. LET old == TP!check_key(heap, 1, Head(TP!FullPath(file, i))) IN old.kind = "t"
      BY <2>1, <2>2, TP!SectionThere
    <3> QED BY <2>2, <3>1
  <2> QED BY <2>1, <2>3, TableIn
<1> QED BY <1>4, <1>5

\* The flags of a word that has been loaded.
LEMMA FlagsAreLoaded ==
  ASSUME NEW P, NEW text, text # NULL, TP!FileTree(heap, P, text), Valued(text),
         In(1, "filter", "t") # NULL, AtFirst, NEW op \in op_names
  PROVE  Flags_in(In(1, "filter", "t"))[op] = LF!FlagsOfWord(Meaning(text).word[op])
<1> DEFINE word == toml_string_in(In(1, "filter", "t"), op)
           words == Words(text, op)
<1>1. Flags_in(In(1, "filter", "t"))[op] = IF word = NULL THEN Both ELSE LF!FlagsOfWord(word)
  BY DEF Flags_in, AtFirst
<1>2. Meaning(text).word[op] = IF words = {} THEN "absent" ELSE (CHOOSE v \in words : TRUE).val
  BY MeaningIs
<1>3. \/ words = {} /\ word = NULL
      \/ word # NULL /\ \E v : words = {v} /\ v.val = word
  BY WordIs
<1>4. LF!FlagsOfWord("absent") = Both
  BY DEF LF!FlagsOfWord, Both
<1> HIDE DEF word, words
<1>5. CASE words = {} /\ word = NULL
  BY <1>1, <1>2, <1>4, <1>5
<1>6. ASSUME word # NULL, NEW v, words = {v}, v.val = word
      PROVE  Meaning(text).word[op] = word
  <2>1. (CHOOSE x \in words : TRUE) = v
    BY <1>6
  <2> QED BY <1>2, <1>6, <2>1
<1>7. CASE word # NULL /\ \E v : words = {v} /\ v.val = word
  <2>1. Meaning(text).word[op] = word
    BY <1>6, <1>7
  <2> QED BY <1>1, <1>7, <2>1
<1> QED BY <1>3, <1>5, <1>7

\* parse_config loads what the lines say.
LEMMA FileIsLoaded ==
  ASSUME Arguments, Parser, parse_config, phase' = "chdir", LinesAreIndependent
  PROVE  FiltersAreMeant'
<1> DEFINE file == File(LastOf("c"))
           t == In(1, "filter", "t")
<1>1. /\ phase = "parsing" /\ status = "parsed" /\ t # NULL /\ UNCHANGED command
      /\ g_filter' = [exclude |-> Paths_in("exclude"), include |-> Paths_in("include_only")]
      /\ op_flags' = Flags_in(t)
  BY DEF parse_config
<1>2. file # NULL /\ Conf = Meaning(file) /\ Valued(file) /\ AtFirst
  BY <1>1, ReadIs
<1>3. TP!Independent(file)
  <2> HIDE DEF file
  <2> QED BY <1>2, MeaningIs DEF LinesAreIndependent
<1>4. PICK P : TP!FileTree(heap, P, file)
  BY <1>1, <1>3, TreeIs
<1>5. Conf' = Conf
  <2>1. LastOf("c")' = LastOf("c")
    BY <1>1 DEF LastOf, Given
  <2> QED BY <2>1 DEF Conf
<1> HIDE DEF file, t
<1>6. \A op \in op_names : op_flags'[op] = LF!FlagsOfWord(Conf.word[op])
  BY <1>1, <1>2, <1>4, FlagsAreLoaded DEF t
<1>7. ASSUME Conf.lists
      PROVE  /\ ToSet(Paths_in("exclude")) = {v.val : v \in Conf.exclude}
             /\ ToSet(Paths_in("include_only")) = {v.val : v \in Conf.include}
             /\ JUNK \notin ToSet(Paths_in("exclude")) \cup ToSet(Paths_in("include_only"))
  <2>1. \A v \in Listed(file, "exclude") \cup Listed(file, "include_only") : IsString(v)
    BY <1>2, <1>7, MeaningIs
  <2>2. \A section \in {"exclude", "include_only"} :
          /\ ToSet(Paths_in(section)) = {v.val : v \in {w \in Listed(file, section) : IsString(w)}}
          /\ JUNK \notin ToSet(Paths_in(section))
    BY <1>2, <1>4, <2>1, ListIs
  <2>3. /\ Conf.exclude = {v \in Listed(file, "exclude") : IsString(v)}
        /\ Conf.include = {v \in Listed(file, "include_only") : IsString(v)}
    BY <1>2, MeaningIs
  <2> QED BY <2>2, <2>3
<1>8. g_filter'.exclude = Paths_in("exclude") /\ g_filter'.include = Paths_in("include_only")
  BY <1>1
<1> QED BY <1>5, <1>6, <1>7, <1>8 DEF FiltersAreMeant, ListsAreSound

\* Without a file there is nothing to load.
LEMMA NoFileIsLoaded ==
  ASSUME Arguments, File(LastOf("c")) = NULL, AtFirst
  PROVE  FiltersAreMeant
<1>1. Conf = Meaning(NULL)
  BY NamedFile
<1>2. \A path : ValuesOf(<< >>, path) = {}
  BY DEF ValuesOf
<1>3. \A section : Listed(<< >>, section) = {}
  BY <1>2 DEF Listed
<1>4. \A op : Words(<< >>, op) = {}
  BY <1>2 DEF Words
<1>5. /\ Conf.exclude = {} /\ Conf.include = {}
      /\ \A op \in op_names : Conf.word[op] = "absent"
  BY <1>1, <1>3, <1>4 DEF Meaning
<1>6. LF!FlagsOfWord("absent") = Both
  BY DEF LF!FlagsOfWord, Both
<1>7. ToSet(<< >>) = {}
  BY DEF ToSet
<1> QED BY <1>5, <1>6, <1>7 DEF AtFirst, FiltersAreMeant

\* From parse_config on, the filters are those of the file.
Loaded ==
  phase \in {"chdir", "mount", "mounted", "leaving", "print", "printing"} /\ LinesAreIndependent =>
    FiltersAreMeant

\* The filters in force stay, with the command line, and so does what they should be.
LEMMA FiltersKept ==
  ASSUME UNCHANGED <<command, config>>
  PROVE  /\ FiltersAreMeant' <=> FiltersAreMeant
         /\ LinesAreIndependent' <=> LinesAreIndependent
<1>1. LastOf("c")' = LastOf("c")
  BY DEF LastOf, Given
<1>2. Conf' = Conf
  BY <1>1 DEF Conf
<1> QED
  BY <1>2 DEF FiltersAreMeant, ListsAreSound, LinesAreIndependent, config

\* They are loaded in one step of parse_config, or are those of main.
LEMMA LoadedInv == Arguments /\ Parser /\ Loaded /\ [Next]_vars => Loaded'
<1> SUFFICES ASSUME Arguments, Parser, Loaded, [Next]_vars PROVE Loaded'
  OBVIOUS
<1> DEFINE Served == {"chdir", "mount", "mounted", "leaving", "print", "printing"}
<1>1. ASSUME UNCHANGED <<command, config>>, phase' \in Served => phase \in Served
      PROVE  Loaded'
  BY <1>1, FiltersKept DEF Loaded
<1>2. CASE getopt \/ processArgs
  BY <1>1, <1>2, AfterArgs
<1>3. CASE OpenLog \/ toml_parse
  BY <1>1, <1>3 DEF OpenLog, toml_parse
<1>4. CASE OpenConfig
  <2>1. /\ phase = "config" /\ UNCHANGED <<command, config>>
        /\ phase' = IF File(args.configFilename) = NULL THEN "chdir" ELSE "parsing"
    BY <1>4 DEF OpenConfig
  <2>2. CASE File(args.configFilename) = NULL
    <3>1. File(LastOf("c")) = NULL /\ AtFirst
      BY <2>1, <2>2, NamedFile DEF Parser, Started
    <3> QED BY <2>1, <3>1, NoFileIsLoaded, FiltersKept DEF Loaded
  <2>3. CASE phase' = "parsing"
    BY <2>3 DEF Loaded
  <2> QED BY <2>1, <2>2, <2>3
<1>5. CASE parse_config
  <2>1. phase' \in {"crashed", "exit", "chdir"} /\ UNCHANGED command
    BY <1>5 DEF parse_config
  <2>2. LinesAreIndependent' <=> LinesAreIndependent
    <3>1. LastOf("c")' = LastOf("c")
      BY <2>1 DEF LastOf, Given
    <3> QED BY <3>1 DEF LinesAreIndependent, Conf
  <2> QED BY <1>5, <2>1, <2>2, FileIsLoaded DEF Loaded
<1>6. CASE Chdir \/ Mount
  BY <1>1, <1>6 DEF Chdir, Mount
<1>7. CASE Return \/ PrintHeader \/ Print_Hash \/ Free_Hash \/ Unmount \/ Kill
  BY <1>1, <1>7 DEF Return, PrintHeader, Print_Hash, Free_Hash, Unmount, Kill, settled
<1>8. CASE \E t \in Threads : (\E r \in Request : Serve(t, r)) \/ Record(t)
  BY <1>1, <1>8 DEF Serve, Record, settled
<1>9. CASE Over \/ Distil \/ UNCHANGED vars
  BY <1>1, <1>9 DEF Over, Distil, vars
<1> QED
  BY <1>2, <1>3, <1>4, <1>5, <1>6, <1>7, <1>8, <1>9 DEF Next, Main

\* The lines of a sound file are independent.
LEMMA SoundLines ==
  ASSUME Arguments, Conf.sound
  PROVE  LinesAreIndependent
<1> DEFINE file == File(LastOf("c"))
<1>1. Conf = Meaning(file)
  BY NamedFile
<1> HIDE DEF file
<1>2. CASE file = NULL
  <2>1. Conf.independent = T!Independent(<< >>)
    BY <1>1, <1>2 DEF Meaning
  <2> QED BY <2>1, NothingRead, SameText DEF LinesAreIndependent
<1>3. CASE file # NULL
  BY <1>1, <1>3, MeaningIs DEF LinesAreIndependent
<1> QED BY <1>2, <1>3

\* Whatever files there are and whichever is named, the filters in force are those
\* that its lines say: parser, accessors and parse_config lose or change none.
THEOREM FiltersLoaded == Spec => []FiltersAreLoaded
<1>1. Init => Parser /\ Loaded
  BY ParserInit DEF Init, Loaded
<1>2. IInv /\ Parser /\ [Next]_vars => Parser'
  BY ParserInv DEF IInv
<1>3. IInv /\ Parser /\ Loaded /\ [Next]_vars => Loaded'
  BY LoadedInv DEF IInv
<1>4. IInv /\ Parser /\ Loaded => FiltersAreLoaded
  BY SoundFile DEF IInv, Loaded, FiltersAreLoaded
<1> QED BY <1>1, <1>2, <1>3, <1>4, Invariance, PTL DEF Spec

-----------------------------------------------------------------------------
(***************************************************************************)
(* From the configuration file to the copy.                                *)
(***************************************************************************)
\* Once a request has been made, the filters in force are those of the file.
Meant == DOMAIN asked # {} /\ LinesAreIndependent => FiltersAreMeant

\* Nothing is loaded after the mount.
LEMMA MeantInv == IInv /\ FiltersAreLoaded /\ Meant /\ [Next]_vars => Meant'
<1> SUFFICES ASSUME IInv, FiltersAreLoaded, Meant, [Next]_vars PROVE Meant'
  OBVIOUS
<1>0. Arguments /\ Requests
  BY DEF IInv
<1>1. ASSUME NEW t \in Threads, NEW r \in Request, Serve(t, r)
      PROVE  Meant'
  <2>1. phase = "mounted" /\ UNCHANGED <<command, config>>
    BY <1>1 DEF Serve, settled
  <2> QED BY <2>1, FiltersKept DEF FiltersAreLoaded, Meant
<1>2. CASE UNCHANGED <<asked, command, config>>
  BY <1>2, FiltersKept DEF Meant
<1>3. ASSUME NEW t \in Threads, Record(t) PROVE Meant'
  BY <1>2, <1>3 DEF Record, settled
<1>4. CASE Print_Hash \/ Free_Hash \/ PrintHeader \/ Unmount \/ Kill \/ Return
  BY <1>2, <1>4 DEF Print_Hash, Free_Hash, PrintHeader, Unmount, Kill, Return, settled
<1>5. CASE phase \in {"args", "open", "config", "parsing", "chdir", "mount"} /\ UNCHANGED asked
  BY <1>0, <1>5 DEF Requests, Meant
<1>6. CASE toml_parse \/ Over \/ Distil \/ UNCHANGED vars
  BY <1>2, <1>6 DEF toml_parse, Over, Distil, vars, workers
<1>7. CASE getopt \/ processArgs
  BY <1>0, <1>5, <1>7, AfterArgs DEF workers
<1>8. CASE OpenLog \/ OpenConfig \/ parse_config \/ Chdir \/ Mount
  BY <1>5, <1>8 DEF OpenLog, OpenConfig, parse_config, Chdir, Mount, workers
<1> QED
  BY <1>1, <1>3, <1>4, <1>6, <1>7, <1>8 DEF Next, Main

\* What a loop over a list of strings finds.
LEMMA FoundIs ==
  ASSUME NEW list, NEW path, JUNK \notin ToSet(list)
  PROVE  Found(list, path) = IF \E p \in ToSet(list) : IsPrefix(p, path) THEN {"yes"} ELSE {"no"}
<1> DEFINE hits == {k \in DOMAIN list : list[k] # JUNK /\ IsPrefix(list[k], path)}
<1>1. ~\E k \in DOMAIN list : list[k] = JUNK
  BY DEF ToSet
<1>2. hits # {} <=> \E p \in ToSet(list) : IsPrefix(p, path)
  BY <1>1 DEF ToSet
<1>3. Found(list, path) = IF hits # {} THEN {"yes"} ELSE {"no"}
  BY <1>1 DEF Found
<1> HIDE DEF hits
<1> QED BY <1>2, <1>3

\* With lists of strings, a path that the file selects is let through.
LEMMA SelectedIsLetThrough ==
  ASSUME Lists, FiltersAreMeant, ListsAreSound,
         NEW r \in Request, Asks(r), Selected(r.path)
  PROVE  LetThrough(r)
<1> DEFINE inc == g_filter.include
           exc == g_filter.exclude
<1>1. /\ ToSet(exc) = {v.val : v \in Conf.exclude}
      /\ ToSet(inc) = {v.val : v \in Conf.include}
      /\ JUNK \notin ToSet(exc) \cup ToSet(inc)
  BY DEF FiltersAreMeant
<1>2. /\ DOMAIN inc = {} => inc = << >>
      /\ DOMAIN exc = {} => exc = << >>
  BY DEF Lists
<1> HIDE DEF inc, exc
<1>3. \A list : JUNK \notin ToSet(list) =>
        Found(list, r.path) = IF \E p \in ToSet(list) : IsPrefix(p, r.path) THEN {"yes"} ELSE {"no"}
  BY FoundIs
<1>4. Found(exc, r.path) = {"no"}
  <2>1. ~\E p \in ToSet(exc) : IsPrefix(p, r.path)
    BY <1>1 DEF Selected, Under
  <2> QED BY <1>1, <1>3, <2>1
<1>5. inc # << >> => Found(inc, r.path) = {"yes"}
  <2>1. inc # << >> => ToSet(inc) # {}
    BY <1>2 DEF ToSet
  <2>2. inc # << >> => \E p \in ToSet(inc) : IsPrefix(p, r.path)
    BY <1>1, <2>1 DEF Selected, Under
  <2> QED BY <1>1, <1>3, <2>2
<1>6. Verdicts(r) = ((IF inc = << >> THEN {"yes"} ELSE Found(inc, r.path)) \cap {"no", "crash"})
                      \cup {CASE e = "yes" -> "no" [] e = "no" -> "yes" [] e = "crash" -> e : e \in {"no"}}
  BY <1>4, <1>5 DEF Verdicts, inc, exc
<1>7. {CASE e = "yes" -> "no" [] e = "no" -> "yes" [] e = "crash" -> e : e \in {"no"}} = {"yes"}
  OBVIOUS
<1> QED
  BY <1>5, <1>6, <1>7 DEF LetThrough

\* What the commands rely on: a place in the copy has the kind it has in the
\* directory, or has been left empty.
Good(tree) ==
  \A p \in DOMAIN tree :
    \/ tree[p] = "dir" /\ IsDir(Tree, p)
    \/ tree[p] = "copied" /\ p \in DOMAIN Tree /\ Tree[p] = "file"
    \/ tree[p] = "empty"

\* `new` has what `tree` has, in every place outside `places`, and is not empty
\* in others than these and those where `tree` is.
Grows(tree, new, places) ==
  /\ \A q \in DOMAIN tree \ places : q \in DOMAIN new /\ new[q] = tree[q]
  /\ \A q \in DOMAIN new \ places : new[q] = "empty" => q \in DOMAIN tree /\ tree[q] = "empty"

\* mkdir -p of a directory makes it, unless something on the way has been left
\* empty.
LEMMA MkdirIs ==
  ASSUME NEW tree, NEW path, Good(tree), \A d \in Above(path) \cup {path} : IsDir(Tree, d)
  PROVE  LET new == mkdir(tree, path)
         IN /\ Good(new) /\ Grows(tree, new, {})
            /\ IsDir(new, path)
               \/ \E d \in Above(path) \cup {path} : d \in DOMAIN tree /\ tree[d] = "empty"
<1> DEFINE dirs == Above(path) \cup {path}
           new == mkdir(tree, path)
<1>1. CASE \A d \in dirs \cap DOMAIN tree : tree[d] = "dir"
  <2>1. new = With(tree, dirs, "dir")
    BY <1>1 DEF mkdir
  <2>2. /\ DOMAIN new = DOMAIN tree \cup dirs
        /\ \A q \in dirs : new[q] = "dir"
        /\ \A q \in DOMAIN tree \ dirs : new[q] = tree[q]
    <3> HIDE DEF new, dirs
    <3> QED BY <2>1 DEF With
  <2>3. \A d \in dirs : IsDir(Tree, d)
    OBVIOUS
  <2>4. path \in dirs
    OBVIOUS
  <2> HIDE DEF new, dirs
  <2>5. Good(new)
    BY <2>2, <2>3 DEF Good
  <2>6. Grows(tree, new, {})
    BY <1>1, <2>2 DEF Grows
  <2> QED BY <2>2, <2>4, <2>5, <2>6 DEF IsDir, new
<1>2. CASE \E d \in dirs \cap DOMAIN tree : tree[d] # "dir"
  <2>1. new = tree
    BY <1>2 DEF mkdir
  <2>2. \E d \in dirs : d \in DOMAIN tree /\ tree[d] = "empty"
    BY <1>2 DEF Good, IsDir
  <2> QED BY <2>1, <2>2 DEF Grows
<1> QED BY <1>1, <1>2

\* cp -a of a file into a directory.
LEMMA CpIs ==
  ASSUME NEW tree, NEW path, Good(tree)
  PROVE  LET new == cp(tree, path)
         IN /\ Good(new) /\ Grows(tree, new, {path})
            /\ path \in DOMAIN new /\ new[path] = "empty" => path \in DOMAIN tree /\ tree[path] = "empty"
            /\ path \in DOMAIN Tree /\ Tree[path] = "file" /\ IsDir(tree, get_dir(path))
                 => path \in DOMAIN new /\ new[path] = "copied"
            /\ IsDir(tree, << >>) /\ IsDir(Tree, << >>) => IsDir(new, << >>)
<1> DEFINE new == cp(tree, path)
<1>1. CASE path \in DOMAIN Tree /\ Tree[path] = "file" /\ IsDir(tree, get_dir(path))
  <2>1. new = With(tree, {path}, "copied")
    BY <1>1 DEF cp
  <2>2. /\ DOMAIN new = DOMAIN tree \cup {path} /\ new[path] = "copied"
        /\ \A q \in DOMAIN tree \ {path} : new[q] = tree[q]
    <3> HIDE DEF new
    <3> QED BY <2>1 DEF With
  <2> HIDE DEF new
  <2>3. Good(new)
    BY <1>1, <2>2 DEF Good
  <2>4. Grows(tree, new, {path})
    BY <2>2 DEF Grows
  <2> QED BY <1>1, <2>2, <2>3, <2>4 DEF IsDir, new
<1>2. CASE ~(path \in DOMAIN Tree /\ Tree[path] = "file" /\ IsDir(tree, get_dir(path)))
  <2>1. new = tree
    BY <1>2 DEF cp
  <2> HIDE DEF new
  <2> QED BY <1>2, <2>1 DEF Grows, new
<1> QED BY <1>1, <1>2

\* touch leaves what is there, and may make an empty file.
LEMMA TouchIs ==
  ASSUME NEW tree, NEW path, Good(tree)
  PROVE  LET new == touch(tree, path)
         IN /\ Good(new)
            /\ \A q \in DOMAIN tree : q \in DOMAIN new /\ new[q] = tree[q]
            /\ \A q \in DOMAIN new \ {path} : q \in DOMAIN tree
<1> DEFINE new == touch(tree, path)
<1>1. CASE path \notin DOMAIN tree /\ IsDir(tree, get_dir(path))
  <2>1. new = With(tree, {path}, "empty")
    BY <1>1 DEF touch
  <2>2. /\ DOMAIN new = DOMAIN tree \cup {path} /\ new[path] = "empty"
        /\ \A q \in DOMAIN tree \ {path} : new[q] = tree[q]
    <3> HIDE DEF new
    <3> QED BY <2>1 DEF With
  <2> HIDE DEF new
  <2> QED BY <1>1, <2>2 DEF Good, new
<1>2. CASE ~(path \notin DOMAIN tree /\ IsDir(tree, get_dir(path)))
  BY <1>2 DEF touch
<1> QED BY <1>1, <1>2

\* The directory of a path: what is on the way to a path is on the way to its
\* directory, or is its directory.
LEMMA DirIs ==
  ASSUME NEW p \in Paths
  PROVE  /\ \A d \in Above(get_dir(p)) \cup {get_dir(p)} : IsDir(Tree, d)
         /\ p # << >> => \A d \in Above(get_dir(p)) \cup {get_dir(p)} : d \in Above(p)
         /\ get_dir(p) = << >> /\ p # << >> => Len(p) = 1
<1>1. p \in Seq(ToSet(p)) /\ \A d \in Above(p) : IsDir(Tree, d)
  BY PathsAssumption
<1> DEFINE n == Len(p)
<1>2. n \in Nat
  BY <1>1, LenProperties
<1>3. CASE p = << >>
  <2>1. get_dir(p) = << >>
    BY <1>3 DEF get_dir
  <2>2. Above(<< >>) = {}
    BY DEF Above
  <2> QED BY <1>3, <2>1, <2>2, TargetAssumption
<1>4. CASE p # << >>
  <2>1. n >= 1
    BY <1>1, <1>2, <1>4, EmptySeq
  <2>2. get_dir(p) = SubSeq(p, 1, n - 1)
    BY <1>4 DEF get_dir, Front
  <2>3. Len(get_dir(p)) = n - 1
    <3> DEFINE m == n - 1
               front == SubSeq(p, 1, m)
    <3>1. m \in Nat /\ \A i \in 1..m : p[i] \in ToSet(p)
      BY <1>1, <1>2, <2>1
    <3> HIDE DEF m
    <3>2. /\ front \in Seq(ToSet(p))
          /\ Len(front) = IF 1 <= m THEN m - 1 + 1 ELSE 0
          /\ \A i \in 1..m - 1 + 1 : front[i] = p[1 + i - 1]
      BY <3>1, SubSeqProperties
    <3>3. Len(front) = m
      BY <3>1, <3>2
    <3> QED BY <2>2, <3>3 DEF m
  <2>4. get_dir(p) \in Above(p)
    <3>1. n - 1 \in 0..n - 1
      BY <1>2, <2>1
    <3> QED BY <2>2, <3>1 DEF Above
  <2>5. ASSUME NEW d \in Above(get_dir(p)) PROVE d \in Above(p)
    <3>1. PICK k \in 0..n - 2 : d = SubSeq(get_dir(p), 1, k)
      BY <1>2, <2>1, <2>3 DEF Above
    <3>2. SubSeq(SubSeq(p, 1, n - 1), 1, k) = SubSeq(p, 1, k)
      BY <1>1, <1>2, <2>1, <3>1
    <3>3. k \in 0..n - 1
      BY <1>2, <3>1
    <3> QED BY <2>2, <3>1, <3>2, <3>3 DEF Above
  <2>6. get_dir(p) = << >> => n = 1
    <3>1. Len(<< >>) = 0
      OBVIOUS
    <3> QED BY <1>2, <2>3, <3>1
  <2> QED BY <1>1, <2>4, <2>5, <2>6
<1> QED BY <1>3, <1>4

\* A line of the log, and what its flags tell about its path.
Line(path, flags) ==
  /\ path \in Paths
  /\ Copied(flags) /\ path \in DOMAIN Tree => Tree[path] = "file"
  /\ "readdir" \in flags => IsDir(Tree, path)

\* The commands of a line.
LEMMA LineIs ==
  ASSUME NEW tree, NEW path, NEW flags, Good(tree), Line(path, flags),
         path \in DOMAIN tree => tree[path] # "empty"
  PROVE  LET new == process_path(tree, path, flags)
         IN /\ Good(new) /\ Grows(tree, new, {path})
            /\ path \in DOMAIN new /\ new[path] = "empty" =>
                 "getattr" \in flags /\ ~Copied(flags) /\ "readdir" \notin flags
            /\ Copied(flags) /\ path \in DOMAIN Tree =>
                 \/ path \in DOMAIN new /\ new[path] = "copied"
                 \/ \E d \in Above(path) : d \in DOMAIN tree /\ tree[d] = "empty"
                 \/ Len(path) = 1 /\ ~IsDir(tree, << >>)
            /\ IsDir(tree, << >>) => IsDir(new, << >>)
<1> DEFINE new == process_path(tree, path, flags)
           dir == get_dir(path)
<1>1. path \in Paths /\ path \notin NoSlash
  BY PathsAssumption DEF Line
<1>2. /\ \A d \in Above(dir) \cup {dir} : IsDir(Tree, d)
      /\ path # << >> => \A d \in Above(dir) \cup {dir} : d \in Above(path)
      /\ dir = << >> /\ path # << >> => Len(path) = 1
  BY <1>1, DirIs
<1>3. IsDir(Tree, << >>)
  BY TargetAssumption
<1> DEFINE made == mkdir(tree, dir)
<1> HIDE DEF dir
<1>4. /\ Good(made) /\ Grows(tree, made, {})
      /\ IsDir(made, dir) \/ \E d \in Above(dir) \cup {dir} : d \in DOMAIN tree /\ tree[d] = "empty"
  BY <1>2, MkdirIs
<1> HIDE DEF made
<1>5. CASE Copied(flags)
  <2> DEFINE there == IF dir = << >> THEN tree ELSE made
  <2>1. new = cp(there, path)
    BY <1>1, <1>5 DEF process_path, dir, made
  <2>2. Good(there) /\ Grows(tree, there, {})
    BY <1>4 DEF Grows
  <2>3. \/ IsDir(there, dir)
        \/ \E d \in Above(dir) \cup {dir} : d \in DOMAIN tree /\ tree[d] = "empty"
        \/ dir = << >> /\ ~IsDir(tree, << >>)
    BY <1>4
  <2> HIDE DEF there, new
  <2>4. /\ Good(new) /\ Grows(there, new, {path})
        /\ path \in DOMAIN new /\ new[path] = "empty" => path \in DOMAIN there /\ there[path] = "empty"
        /\ path \in DOMAIN Tree /\ Tree[path] = "file" /\ IsDir(there, dir)
             => path \in DOMAIN new /\ new[path] = "copied"
        /\ IsDir(there, << >>) => IsDir(new, << >>)
    BY <1>3, <2>1, <2>2, CpIs DEF dir
  <2>5. Grows(tree, new, {path})
    BY <2>2, <2>4 DEF Grows
  <2>6. ~(path \in DOMAIN new /\ new[path] = "empty")
    BY <2>2, <2>4 DEF Grows
  <2>7. IsDir(tree, << >>) => IsDir(new, << >>)
    BY <2>2, <2>4 DEF Grows, IsDir
  <2>8. ASSUME path \in DOMAIN Tree
        PROVE  \/ path \in DOMAIN new /\ new[path] = "copied"
               \/ \E d \in Above(path) : d \in DOMAIN tree /\ tree[d] = "empty"
               \/ Len(path) = 1 /\ ~IsDir(tree, << >>)
    <3>1. Tree[path] = "file"
      BY <1>5, <2>8 DEF Line
    <3>2. path # << >>
      BY <1>3, <3>1 DEF IsDir
    <3> QED BY <1>2, <2>3, <2>4, <2>8, <3>1, <3>2
  <2> QED BY <2>4, <2>5, <2>6, <2>7, <2>8 DEF new
<1>6. CASE ~Copied(flags) /\ "getattr" \in flags /\ "readdir" \in flags
  <2>1. new = mkdir(tree, path)
    BY <1>1, <1>6 DEF process_path
  <2>2. \A d \in Above(path) \cup {path} : IsDir(Tree, d)
    BY <1>1, <1>6, PathsAssumption DEF Line
  <2> HIDE DEF new
  <2>3. Good(new) /\ Grows(tree, new, {})
    BY <2>1, <2>2, MkdirIs
  <2> QED BY <1>6, <2>3 DEF Grows, IsDir, new
<1>7. CASE ~Copied(flags) /\ "getattr" \in flags /\ "readdir" \notin flags
  <2>1. new = touch(made, path)
    BY <1>1, <1>7 DEF process_path, made, dir
  <2> HIDE DEF new
  <2>2. /\ Good(new)
        /\ \A q \in DOMAIN made : q \in DOMAIN new /\ new[q] = made[q]
        /\ \A q \in DOMAIN new \ {path} : q \in DOMAIN made
    BY <1>4, <2>1, TouchIs
  <2>3. Grows(tree, new, {path}) /\ (IsDir(tree, << >>) => IsDir(new, << >>))
    BY <1>4, <2>2 DEF Grows, IsDir
  <2> QED BY <1>7, <2>2, <2>3 DEF new
<1>8. CASE ~Copied(flags) /\ "getattr" \notin flags
  <2>1. new = tree
    BY <1>1, <1>8 DEF process_path
  <2> HIDE DEF new
  <2> QED BY <1>8, <2>1 DEF Grows, new
<1> QED BY <1>5, <1>6, <1>7, <1>8

\* The flags of a printed line are those of requests that FUSE may make.
LEMMA LinesAre ==
  ASSUME Requests, NEW l, From(l), NEW p \in DOMAIN l, l[p].flags # {}
  PROVE  Line(p, l[p].flags)
<1> DEFINE flags == l[p].flags
<1>1. ASSUME NEW f \in flags
      PROVE  \E r \in Request : r.path = p /\ r.op = f /\ Possible(r)
  BY <1>1 DEF From, Requests
<1>2. p \in Paths
  BY <1>1 DEF Request
<1>3. ASSUME Copied(flags), p \in DOMAIN Tree PROVE Tree[p] = "file"
  <2>1. PICK f \in flags : f \in {"open", "read", "readlink"}
    BY <1>3 DEF Copied
  <2>2. PICK r \in Request : r.path = p /\ r.op = f /\ Possible(r)
    BY <1>1, <2>1
  <2> QED BY <1>3, <2>1, <2>2 DEF Possible, FileOps
<1>4. ASSUME "readdir" \in flags PROVE IsDir(Tree, p)
  <2>1. PICK r \in Request : r.path = p /\ r.op = "readdir" /\ Possible(r)
    BY <1>1, <1>4
  <2> QED BY <2>1 DEF Possible, Held, IsDir
<1> QED BY <1>2, <1>3, <1>4 DEF Line

\* The copy while lines are processed: it holds nothing but what the directory
\* has, and what has been left empty; and the files of the lines so far are in
\* it, but for the two exceptions.
Copying ==
  /\ done # {} => Printed
  /\ Good(copy) /\ (TargetThere => IsDir(copy, << >>))
  /\ \A p \in DOMAIN copy : copy[p] = "empty" => p \in done /\ LookedAt(p)
  /\ \A p \in done \ HasColon :
       Copied(output[hash_log][p].flags) /\ p \in DOMAIN Tree =>
         \/ InCopy(p, "copied")
         \/ \E d \in Above(p) : InCopy(d, "empty")
         \/ Len(p) = 1 /\ ~TargetThere

\* At first there is the target, or nothing.
LEMMA CopyingInit == Init => Copying
<1> SUFFICES ASSUME Init PROVE Copying
  OBVIOUS
<1>1. done = {} /\ copy = [p \in IF TargetThere THEN {<< >>} ELSE {} |-> "dir"]
  BY DEF Init
<1>2. IsDir(Tree, << >>)
  BY TargetAssumption
<1>3. \A p \in DOMAIN copy : p = << >> /\ copy[p] = "dir"
  BY <1>1
<1> QED BY <1>1, <1>2, <1>3 DEF Copying, Good, IsDir

\* Until the end there is nothing to process, and after it nothing else is done.
LEMMA CopyFrame ==
  ASSUME Copying, [Next]_vars
  PROVE  Distil \/ (UNCHANGED distilled /\ (UNCHANGED <<phase, hash_log, output>> \/ done = {}))
<1>1. CASE phase = "exit"
  BY <1>1 DEF Next, Main, getopt, processArgs, OpenLog, OpenConfig, toml_parse, parse_config,
    Chdir, Mount, Return, PrintHeader, Print_Hash, Free_Hash, Serve, Record, Unmount, Kill, Over,
    vars, streams
<1>2. CASE phase # "exit"
  <2>1. done = {}
    BY <1>2 DEF Copying, Printed
  <2> QED BY <2>1 DEF Next, Main, getopt, processArgs, OpenLog, OpenConfig, toml_parse, parse_config,
    Chdir, Mount, Return, PrintHeader, Print_Hash, Free_Hash, Serve, Record, Unmount, Kill, Over,
    vars, settled
<1> QED BY <1>1, <1>2

\* One more line.
LEMMA CopyingInv == IInv /\ Copying /\ [Next]_vars => Copying'
<1> SUFFICES ASSUME IInv, Copying, [Next]_vars PROVE Copying'
  OBVIOUS
<1>1. ASSUME Distil PROVE Copying'
  <2> DEFINE l == output[hash_log]
  <2>1. /\ Printed /\ UNCHANGED <<phase, hash_log, output>>
        /\ \E path \in DOMAIN l : process_line(l, path)
    BY <1>1 DEF Distil, Printed, streams
  <2>2. PICK path \in DOMAIN l : process_line(l, path)
    BY <2>1
  <2> DEFINE flags == l[path].flags
  <2>3. /\ path \notin done /\ done' = done \cup {path}
        /\ copy' = IF path \in HasColon THEN copy ELSE process_path(copy, path, flags)
    BY <2>2 DEF process_line
  <2>4. From(l)
    BY <2>1 DEF IInv, Printing
  <2> HIDE DEF flags
  <2>5. /\ Good(copy) /\ (TargetThere => IsDir(copy, << >>))
        /\ \A p \in DOMAIN copy : copy[p] = "empty" => p \in done /\ LookedAt(p)
    BY DEF Copying
  <2>6. CASE path \notin HasColon /\ flags # {}
    <3>1. Line(path, flags)
      BY <2>4, <2>6, LinesAre DEF IInv, flags
    <3>2. path \in DOMAIN copy => copy[path] # "empty"
      BY <2>3, <2>5
    <3>3. copy' = process_path(copy, path, flags)
      BY <2>3, <2>6
    <3>4. /\ Good(copy') /\ Grows(copy, copy', {path})
          /\ path \in DOMAIN copy' /\ copy'[path] = "empty" =>
               "getattr" \in flags /\ ~Copied(flags) /\ "readdir" \notin flags
          /\ Copied(flags) /\ path \in DOMAIN Tree =>
               \/ path \in DOMAIN copy' /\ copy'[path] = "copied"
               \/ \E d \in Above(path) : d \in DOMAIN copy /\ copy[d] = "empty"
               \/ Len(path) = 1 /\ ~IsDir(copy, << >>)
          /\ IsDir(copy, << >>) => IsDir(copy', << >>)
      BY <2>5, <3>1, <3>2, <3>3, LineIs
    <3>5. \A q : copy[q] = "empty" /\ q \in DOMAIN copy => q \in DOMAIN copy' /\ copy'[q] = "empty"
      BY <3>2, <3>4 DEF Grows
    <3>6. ASSUME NEW p \in DOMAIN copy', copy'[p] = "empty" PROVE p \in done' /\ LookedAt(p)'
      <4>1. CASE p = path
        BY <2>1, <2>3, <3>4, <3>6, <4>1 DEF LookedAt, Copied, flags
      <4>2. CASE p # path
        <5>1. p \in DOMAIN copy /\ copy[p] = "empty"
          BY <3>4, <3>6, <4>2 DEF Grows
        <5> QED BY <2>1, <2>3, <2>5, <5>1 DEF LookedAt
      <4> QED BY <4>1, <4>2
    <3>7. ASSUME NEW p \in done' \ HasColon, Copied(l[p].flags), p \in DOMAIN Tree
          PROVE  \/ InCopy(p, "copied")'
                 \/ \E d \in Above(p) : InCopy(d, "empty")'
                 \/ Len(p) = 1 /\ ~TargetThere
      <4>1. CASE p = path
        BY <2>5, <3>4, <3>5, <3>7, <4>1 DEF InCopy, flags
      <4>2. CASE p # path
        <5>1. \/ InCopy(p, "copied")
              \/ \E d \in Above(p) : InCopy(d, "empty")
              \/ Len(p) = 1 /\ ~TargetThere
          BY <2>3, <3>7, <4>2 DEF Copying
        <5>2. InCopy(p, "copied") => InCopy(p, "copied")'
          BY <3>4, <4>2 DEF Grows, InCopy
        <5> QED BY <3>5, <5>1, <5>2 DEF InCopy
      <4> QED BY <4>1, <4>2
    <3> QED BY <2>1, <2>5, <3>4, <3>6, <3>7 DEF Copying, Printed
  <2>7. CASE path \in HasColon \/ flags = {}
    <3>1. copy' = copy
      BY <2>3, <2>7 DEF process_path, Copied
    <3>2. \A p \in done' \ HasColon : Copied(l[p].flags) => p \in done \ HasColon
      BY <2>3, <2>7 DEF Copied, flags
    <3>3. \A p : LookedAt(p)' <=> LookedAt(p)
      BY <2>1 DEF LookedAt
    <3> QED BY <2>1, <2>3, <2>5, <3>1, <3>2, <3>3 DEF Copying, Printed, InCopy
  <2> QED BY <2>6, <2>7
<1>2. CASE UNCHANGED distilled /\ UNCHANGED <<phase, hash_log, output>>
  BY <1>2 DEF distilled, Copying, Printed, LookedAt, InCopy
<1>3. CASE UNCHANGED distilled /\ done = {}
  BY <1>3 DEF distilled, Copying, InCopy
<1> QED BY <1>1, <1>2, <1>3, CopyFrame

\* What holds all the time of the filters and of the copy.
LEMMA CopyAlways == Spec => [](IInv /\ Meant /\ Copying)
<1>1. Init => Meant /\ Copying
  BY CopyingInit DEF Init, Meant
<1>2. IInv /\ FiltersAreLoaded /\ Meant /\ [Next]_vars => Meant'
  BY MeantInv
<1>3. IInv /\ Copying /\ [Next]_vars => Copying'
  BY CopyingInv
<1> QED BY <1>1, <1>2, <1>3, Invariance, FiltersLoaded, PTL DEF Spec

\* The purpose of the system, for any number of threads, requests and paths and
\* any order of the printed lines: what was opened and selected is in the copy
\* when the script has run, unless a directory on its way had been left an empty
\* file, or the target is missing (Store_In_Hash to process_log.lua).
THEOREM DistilledCopy == Spec => []OpenedFilesAreCopied
<1>1. IInv /\ Meant /\ Copying => OpenedFilesAreCopied
  <2> SUFFICES ASSUME IInv, Meant, Copying, Distilled, LinesAreIndependent, ListsAreSound,
                      Word("open") \in {"absent", "success"}, NEW p \in Opened
               PROVE  \/ InCopy(p, "copied")
                      \/ \E d \in Above(p) : InCopy(d, "empty") /\ LookedAt(d)
                      \/ Len(p) = 1 /\ ~TargetThere
    BY DEF OpenedFilesAreCopied
  <2>1. PICK r \in DOMAIN asked : /\ r.op = "open" /\ r.outcome = LF!LOG_SUCCESS
                                 /\ Selected(r.path) /\ r.path \notin HasColon /\ r.path = p
    BY DEF Opened
  <2>2. FiltersAreMeant /\ r \in Request /\ "open" \in op_names /\ Possible(r)
    BY <2>1 DEF Meant, IInv, Requests, Request
  <2>3. Asks(r)
    <3>1. op_flags["open"] = LF!FlagsOfWord(Word("open"))
      BY <2>2 DEF FiltersAreMeant, Word
    <3> QED BY <2>1, <3>1 DEF Asks, LF!FlagsOfWord
  <2>4. LetThrough(r)
    BY <2>1, <2>2, <2>3, SelectedIsLetThrough DEF IInv
  <2>5. Has(output[hash_log], r)
    BY <2>1, <2>4 DEF IInv, Printing, Distilled
  <2>6. p \in done \ HasColon /\ Copied(output[hash_log][p].flags)
    BY <2>1, <2>5 DEF Has, Distilled, Copied
  <2>7. p \in DOMAIN Tree
    BY <2>1, <2>2 DEF Possible, LF!LOG_SUCCESS, LF!LOG_UNSUCCESS
  <2>8. \A d : InCopy(d, "empty") => LookedAt(d)
    BY DEF Copying, InCopy
  <2> QED BY <2>6, <2>7, <2>8 DEF Copying
<1> QED
  BY <1>1, CopyAlways, PTL

\* And the copy has nothing that the directory has not, no file for a directory
\* or directory for a file, and nothing empty of what clients read, if the filter
\* of getattr is "success"; but a directory they only looked at may be an empty
\* file.
THEOREM NoPhantom == Spec => []NoPhantomFile
<1>1. IInv /\ Meant /\ Copying => NoPhantomFile
  <2> SUFFICES ASSUME IInv, Meant, Copying, Printed, LinesAreIndependent, Word("getattr") = "success",
                      NEW p \in DOMAIN copy
               PROVE  /\ p \in DOMAIN Tree
                      /\ copy[p] = "dir" => Tree[p] = "dir"
                      /\ copy[p] = "copied" => Tree[p] = "file"
                      /\ copy[p] = "empty" => LookedAt(p)
    BY DEF NoPhantomFile
  <2>1. CASE copy[p] # "empty"
    BY <2>1 DEF Copying, Good, IsDir
  <2>2. CASE copy[p] = "empty"
    <3>1. p \in DOMAIN output[hash_log] /\ "getattr" \in output[hash_log][p].flags /\ LookedAt(p)
      BY <2>2 DEF Copying, LookedAt
    <3>2. PICK r \in DOMAIN asked : r.path = p /\ r.op = "getattr" /\ "yes" \in Verdicts(r)
      BY <3>1 DEF IInv, Printing, From
    <3>3. FiltersAreMeant /\ r \in Request /\ "getattr" \in op_names /\ Possible(r)
      BY <3>2 DEF Meant, IInv, Requests, Request
    <3>4. op_flags["getattr"] = {LF!LOG_SUCCESS}
      BY <3>3 DEF FiltersAreMeant, Word, LF!FlagsOfWord
    <3>5. Asks(r)
      BY <3>2 DEF Verdicts
    <3>6. r.outcome = LF!LOG_SUCCESS
      BY <3>2, <3>4, <3>5 DEF Asks, Unasked
    <3>7. p \in DOMAIN Tree
      BY <3>2, <3>3, <3>6 DEF Possible, LF!LOG_SUCCESS, LF!LOG_UNSUCCESS
    <3> QED BY <2>2, <3>1, <3>7
  <2> QED BY <2>1, <2>2
<1> QED
  BY <1>1, CopyAlways, PTL

-----------------------------------------------------------------------------
(***************************************************************************)
(* The counts of the log.                                                  *)
(***************************************************************************)
\* The requests on a path that the configuration asks for, and the workers that
\* serve one.
WantedOn(p) == {r \in Request : r.path = p /\ Wanted(r)}
Busy(p) == {t \in Threads : serving[t] \in WantedOn(p)}

\* A log whose counts are numbers.
Counter(l) == \A p \in DOMAIN l : l[p].count \in Nat

\* Each request that was made is in the log or is being served, until it is printed.
Counts ==
  /\ asked \in [DOMAIN asked -> Nat] /\ Counter(log)
  /\ \A p : IsFiniteSet(Askings(WantedOn(p))) /\ IsFiniteSet(Busy(p))
  /\ LinesAreIndependent /\ ListsAreSound =>
       /\ phase \notin {"exit", "crashed", "killed"} =>
            \A p : CountIn(log, p) + Cardinality(Busy(p)) = Cardinality(Askings(WantedOn(p)))
       /\ Printed =>
            \A p : CountIn(output[hash_log], p) = Cardinality(Askings(WantedOn(p)))

\* One recorded operation more.
LEMMA CountRecorded ==
  ASSUME NEW l, Counter(l), NEW p, NEW f
  PROVE  LET l2 == Recorded(l, p, f)
         IN /\ Counter(l2)
            /\ \A q : /\ CountIn(l, q) \in Nat
                      /\ CountIn(l2, q) = IF q = p THEN CountIn(l, q) + 1 ELSE CountIn(l, q)
<1> DEFINE l2 == Recorded(l, p, f)
<1>1. /\ DOMAIN l2 = DOMAIN l \cup {p}
      /\ \A q \in DOMAIN l \ {p} : l2[q] = l[q]
      /\ l2[p].count = IF p \in DOMAIN l THEN l[p].count + 1 ELSE 1
  BY DEF Recorded
<1> HIDE DEF l2
<1>2. l2[p].count \in Nat
  BY <1>1 DEF Counter
<1>3. Counter(l2)
  BY <1>1, <1>2 DEF Counter
<1>4. ASSUME NEW q
      PROVE  /\ CountIn(l, q) \in Nat
             /\ CountIn(l2, q) = IF q = p THEN CountIn(l, q) + 1 ELSE CountIn(l, q)
  BY <1>1 DEF Counter, CountIn
<1> QED BY <1>3, <1>4 DEF l2

\* The pairs that Askings is made of.
Pairs(f, W) == UNION {{r} \X (1..f[r]) : r \in DOMAIN f \cap W}

\* One asking more.
LEMMA AskedMore ==
  ASSUME NEW f, f \in [DOMAIN f -> Nat], NEW r, NEW W,
         NEW g, g = [q \in DOMAIN g |-> g[q]], DOMAIN g = DOMAIN f \cup {r},
         g[r] = IF r \in DOMAIN f THEN f[r] + 1 ELSE 1,
         \A q \in DOMAIN f \ {r} : g[q] = f[q]
  PROVE  /\ g \in [DOMAIN g -> Nat]
         /\ r \notin W => Pairs(g, W) = Pairs(f, W)
         /\ r \in W => /\ Pairs(g, W) = Pairs(f, W) \cup {<<r, g[r]>>}
                       /\ <<r, g[r]>> \notin Pairs(f, W)
<1> DEFINE n == IF r \in DOMAIN f THEN f[r] ELSE 0
<1>1. /\ DOMAIN g = DOMAIN f \cup {r} /\ n \in Nat /\ g[r] = n + 1
      /\ \A q \in DOMAIN f \ {r} : g[q] = f[q]
      /\ \A q \in DOMAIN f : f[q] \in Nat
  <2>1. CASE r \in DOMAIN f
    BY <2>1
  <2>2. CASE r \notin DOMAIN f
    BY <2>2
  <2> QED BY <2>1, <2>2
<1>2. g \in [DOMAIN g -> Nat]
  <2>1. \A q \in DOMAIN g : g[q] \in Nat
    BY <1>1
  <2> QED BY <2>1
<1>3. \A h, x : x \in Pairs(h, W) <=> \E q \in DOMAIN h \cap W : \E k \in 1..h[q] : x = <<q, k>>
  BY DEF Pairs
<1>4. r \in DOMAIN f => f[r] = n
  OBVIOUS
<1>5. r \notin DOMAIN f => n = 0
  OBVIOUS
<1> HIDE DEF n
<1>6. ASSUME r \notin W PROVE Pairs(g, W) = Pairs(f, W)
  <2>1. DOMAIN g \cap W = DOMAIN f \cap W /\ \A q \in DOMAIN f \cap W : g[q] = f[q]
    BY <1>1, <1>6
  <2> QED BY <2>1 DEF Pairs
<1>7. ASSUME r \in W PROVE Pairs(g, W) = Pairs(f, W) \cup {<<r, n + 1>>}
  <2>1. ASSUME NEW x \in Pairs(g, W) PROVE x \in Pairs(f, W) \cup {<<r, n + 1>>}
    <3>1. PICK q \in DOMAIN g \cap W : \E k \in 1..g[q] : x = <<q, k>>
      BY <1>3, <2>1
    <3>2. PICK k \in 1..g[q] : x = <<q, k>>
      BY <3>1
    <3>3. CASE q # r
      BY <1>1, <1>3, <3>1, <3>2, <3>3
    <3>4. CASE q = r
      <4>1. k = n + 1 \/ (k \in 1..n /\ r \in DOMAIN f)
        BY <1>1, <1>5, <3>2, <3>4
      <4> QED BY <1>3, <1>4, <1>7, <3>2, <3>4, <4>1
    <3> QED BY <3>3, <3>4
  <2>2. ASSUME NEW x \in Pairs(f, W) PROVE x \in Pairs(g, W)
    <3>1. PICK q \in DOMAIN f \cap W : \E k \in 1..f[q] : x = <<q, k>>
      BY <1>3, <2>2
    <3>2. PICK k \in 1..f[q] : x = <<q, k>>
      BY <3>1
    <3>3. q \in DOMAIN g \cap W /\ k \in 1..g[q]
      <4>1. g[q] \in Nat /\ f[q] \in Nat /\ f[q] <= g[q]
        BY <1>1, <1>4
      <4> QED BY <1>1, <3>1, <3>2, <4>1
    <3> QED BY <1>3, <3>2, <3>3
  <2>3. <<r, n + 1>> \in Pairs(g, W)
    <3>1. r \in DOMAIN g \cap W /\ n + 1 \in 1..g[r]
      BY <1>1, <1>7
    <3> QED BY <1>3, <3>1
  <2> QED BY <2>1, <2>2, <2>3
<1>8. <<r, n + 1>> \notin Pairs(f, W)
  <2> SUFFICES ASSUME NEW q \in DOMAIN f \cap W, NEW k \in 1..f[q], <<r, n + 1>> = <<q, k>> PROVE FALSE
    BY <1>3
  <2>1. q = r /\ k = n + 1
    OBVIOUS
  <2> QED BY <1>1, <1>4, <2>1
<1> QED BY <1>1, <1>2, <1>6, <1>7, <1>8

\* Askings is made of these pairs; it and the wanted requests stay with the
\* command line.
LEMMA AskingsAre == \A W : Askings(W) = Pairs(asked, W)
BY DEF Askings, Pairs

LEMMA WantedKept ==
  ASSUME UNCHANGED command
  PROVE  /\ \A p : WantedOn(p)' = WantedOn(p)
         /\ LinesAreIndependent' <=> LinesAreIndependent
         /\ ListsAreSound' <=> ListsAreSound
<1>1. LastOf("c")' = LastOf("c")
  BY DEF LastOf, Given
<1>2. Conf' = Conf
  BY <1>1 DEF Conf
<1>3. \A r : Wanted(r)' <=> Wanted(r)
  BY <1>2 DEF Wanted, Selected, Under, Word
<1> QED BY <1>2, <1>3 DEF WantedOn, LinesAreIndependent, ListsAreSound

\* The filters let through what is wanted, and nothing else.
LEMMA VerdictIs ==
  ASSUME Lists, FiltersAreMeant, ListsAreSound, NEW r \in Request
  PROVE  /\ Wanted(r) => "no" \notin Verdicts(r)
         /\ "yes" \in Verdicts(r) => Wanted(r)
<1>1. r.op \in op_names
  BY DEF Request
<1>2. Asks(r) <=> r.op \in Unasked \/ r.outcome \in LF!FlagsOfWord(Word(r.op))
  BY <1>1 DEF FiltersAreMeant, Asks, Word
<1>3. Wanted(r) => "no" \notin Verdicts(r)
  <2> SUFFICES ASSUME Wanted(r) PROVE "no" \notin Verdicts(r)
    OBVIOUS
  <2>1. LetThrough(r)
    BY <1>2, SelectedIsLetThrough DEF Wanted
  <2> QED BY <2>1 DEF LetThrough
<1>4. ASSUME "yes" \in Verdicts(r) PROVE Wanted(r)
  <2> DEFINE inc == g_filter.include
             exc == g_filter.exclude
             included == IF inc = << >> THEN {"yes"} ELSE Found(inc, r.path)
             excluded == IF "yes" \in included THEN Found(exc, r.path) ELSE {}
  <2>1. Asks(r)
    BY <1>4 DEF Verdicts
  <2>2. /\ ToSet(exc) = {v.val : v \in Conf.exclude}
        /\ ToSet(inc) = {v.val : v \in Conf.include}
        /\ JUNK \notin ToSet(exc) \cup ToSet(inc)
    BY DEF FiltersAreMeant
  <2>3. "yes" \in included /\ "no" \in excluded
    <3>1. "yes" \in (included \cap {"no", "crash"})
             \cup {CASE e = "yes" -> "no" [] e = "no" -> "yes" [] e = "crash" -> e : e \in excluded}
      BY <1>4, <2>1 DEF Verdicts
    <3> HIDE DEF included, excluded
    <3>2. PICK e \in excluded : "yes" = CASE e = "yes" -> "no" [] e = "no" -> "yes" [] e = "crash" -> e
      BY <3>1
    <3>3. excluded \subseteq {"yes", "no"}
      <4>1. Found(exc, r.path) \subseteq {"yes", "no"}
        <5> HIDE DEF exc, inc
        <5> QED BY <2>2, FoundIs
      <4> QED BY <4>1 DEF excluded
    <3>4. e = "no"
      BY <3>2, <3>3
    <3> QED BY <3>2, <3>3, <3>4 DEF excluded
  <2> HIDE DEF inc, exc
  <2>4. ~Under(Conf.exclude, r.path)
    <3>1. Found(exc, r.path) = IF \E p \in ToSet(exc) : IsPrefix(p, r.path) THEN {"yes"} ELSE {"no"}
      BY <2>2, FoundIs
    <3>2. "no" \in Found(exc, r.path)
      BY <2>3
    <3>3. ~\E p \in ToSet(exc) : IsPrefix(p, r.path)
      BY <3>1, <3>2
    <3> QED BY <2>2, <3>3 DEF Under
  <2>5. Conf.include = {} \/ Under(Conf.include, r.path)
    <3>1. CASE inc = << >>
      <4>1. ToSet(inc) = {}
        BY <3>1 DEF ToSet
      <4> QED BY <2>2, <4>1
    <3>2. CASE inc # << >>
      <4>1. Found(inc, r.path) = IF \E p \in ToSet(inc) : IsPrefix(p, r.path) THEN {"yes"} ELSE {"no"}
        BY <2>2, FoundIs
      <4>2. "yes" \in Found(inc, r.path)
        BY <2>3, <3>2
      <4>3. \E p \in ToSet(inc) : IsPrefix(p, r.path)
        BY <4>1, <4>2
      <4> QED BY <2>2, <4>3 DEF Under
    <3> QED BY <3>1, <3>2
  <2> QED BY <1>2, <2>1, <2>4, <2>5 DEF Wanted, Selected
<1> QED BY <1>3, <1>4

\* Nothing has been counted.
LEMMA CountsInit == Init => Counts
<1> SUFFICES ASSUME Init PROVE Counts
  OBVIOUS
<1>1. asked = [r \in {} |-> 0] /\ log = EmptyLog /\ phase = "args" /\ serving = [t \in Threads |-> NULL]
  BY DEF Init
<1>2. asked \in [DOMAIN asked -> Nat] /\ Counter(log) /\ \A p : CountIn(log, p) = 0
  BY <1>1 DEF Counter, CountIn, EmptyLog
<1>3. \A W : Askings(W) = {}
  BY <1>1 DEF Askings
<1>4. \A p : Busy(p) = {}
  BY <1>1, NullAssumption DEF Busy, WantedOn
<1>5. IsFiniteSet({}) /\ Cardinality({}) = 0
  BY FS_EmptySet
<1>6. \A p : CountIn(log, p) + Cardinality(Busy(p)) = Cardinality(Askings(WantedOn(p)))
  <2> SUFFICES ASSUME NEW p
               PROVE  CountIn(log, p) + Cardinality(Busy(p)) = Cardinality(Askings(WantedOn(p)))
    OBVIOUS
  <2>1. /\ CountIn(log, p) = 0
        /\ Cardinality(Busy(p)) = 0
        /\ Cardinality(Askings(WantedOn(p))) = 0
    BY <1>2, <1>3, <1>4, <1>5
  <2> QED BY <2>1
<1>7. \A p : IsFiniteSet(Askings(WantedOn(p))) /\ IsFiniteSet(Busy(p))
  BY <1>3, <1>4, <1>5
<1>8. ~Printed
  BY <1>1 DEF Printed
<1> QED BY <1>2, <1>6, <1>7, <1>8 DEF Counts

\* A request is made, and served from now on.
LEMMA CountsServe ==
  ASSUME Requests, Counts, NEW t \in Threads, NEW r \in Request, Serve(t, r)
  PROVE  Counts'
<1>1. /\ phase = "mounted" /\ phase' = "mounted" /\ serving[t] = NULL
      /\ serving' = [serving EXCEPT ![t] = r]
      /\ UNCHANGED <<command, log>>
      /\ asked' = IF r \in DOMAIN asked THEN [asked EXCEPT ![r] = @ + 1]
                  ELSE [q \in DOMAIN asked \cup {r} |-> IF q = r THEN 1 ELSE asked[q]]
  BY DEF Serve, settled
<1>2. /\ asked \in [DOMAIN asked -> Nat] /\ Counter(log)
      /\ \A p : IsFiniteSet(Askings(WantedOn(p))) /\ IsFiniteSet(Busy(p))
  BY DEF Counts
<1>3. ASSUME NEW W
      PROVE  /\ asked' \in [DOMAIN asked' -> Nat]
             /\ r \notin W => Pairs(asked', W) = Pairs(asked, W)
             /\ r \in W => /\ Pairs(asked', W) = Pairs(asked, W) \cup {<<r, asked'[r]>>}
                           /\ <<r, asked'[r]>> \notin Pairs(asked, W)
  <2>1. asked \in [DOMAIN asked -> Nat]
    BY <1>2
  <2>2. asked' = IF r \in DOMAIN asked THEN [asked EXCEPT ![r] = @ + 1]
                 ELSE [q \in DOMAIN asked \cup {r} |-> IF q = r THEN 1 ELSE asked[q]]
    BY <1>1
  <2>3. /\ asked' = [q \in DOMAIN asked' |-> asked'[q]] /\ DOMAIN asked' = DOMAIN asked \cup {r}
        /\ asked'[r] = IF r \in DOMAIN asked THEN asked[r] + 1 ELSE 1
        /\ \A q \in DOMAIN asked \ {r} : asked'[q] = asked[q]
    <3>1. CASE r \in DOMAIN asked
      BY <2>1, <2>2, <3>1
    <3>2. CASE r \notin DOMAIN asked
      BY <2>1, <2>2, <3>2
    <3> QED BY <3>1, <3>2
  <2> QED BY <2>1, <2>3, AskedMore
<1>4. /\ \A p : WantedOn(p)' = WantedOn(p)
      /\ LinesAreIndependent' <=> LinesAreIndependent
      /\ ListsAreSound' <=> ListsAreSound
  BY <1>1, WantedKept
<1>5. \A p : Askings(WantedOn(p))' = Pairs(asked', WantedOn(p))
  BY <1>4 DEF Askings, Pairs
<1>6. \A p : NULL \notin WantedOn(p)
  BY NullAssumption DEF WantedOn
<1>7. ASSUME NEW p
      PROVE  /\ IsFiniteSet(Askings(WantedOn(p)))' /\ IsFiniteSet(Busy(p))'
             /\ Cardinality(Busy(p))' = Cardinality(Busy(p)) + (IF r \in WantedOn(p) THEN 1 ELSE 0)
             /\ Cardinality(Askings(WantedOn(p)))' =
                  Cardinality(Askings(WantedOn(p))) + (IF r \in WantedOn(p) THEN 1 ELSE 0)
  <2> DEFINE W == WantedOn(p)
             B == Busy(p)
             A == Pairs(asked, W)
  <2>1. /\ IsFiniteSet(A) /\ IsFiniteSet(B) /\ Askings(W) = A
        /\ Askings(WantedOn(p))' = Pairs(asked', W)
        /\ Cardinality(A) \in Nat /\ Cardinality(B) \in Nat
    BY <1>2, <1>5, AskingsAre, FS_CardinalityType
  <2>2. Busy(p)' = IF r \in W THEN B \cup {t} ELSE B
    <3>1. Busy(p)' = {u \in Threads : serving'[u] \in W}
      BY <1>4 DEF Busy
    <3>2. \A u \in Threads : serving'[u] = IF u = t THEN r ELSE serving[u]
      BY <1>1 DEF Requests
    <3>3. serving[t] \notin W
      BY <1>1, <1>6
    <3>4. B = {u \in Threads : serving[u] \in W}
      BY DEF Busy
    <3> HIDE DEF B, W
    <3>5. CASE r \in W
      BY <3>1, <3>2, <3>4, <3>5
    <3>6. CASE r \notin W
      BY <3>1, <3>2, <3>3, <3>4, <3>6
    <3> QED BY <3>5, <3>6
  <2>3. t \notin B
    BY <1>1, <1>6 DEF Busy
  <2>4. CASE r \in W
    <3>1. Askings(WantedOn(p))' = A \cup {<<r, asked'[r]>>} /\ <<r, asked'[r]>> \notin A
      BY <1>3, <2>1, <2>4
    <3>2. IsFiniteSet(A \cup {<<r, asked'[r]>>}) /\ Cardinality(A \cup {<<r, asked'[r]>>}) = Cardinality(A) + 1
      BY <2>1, <3>1, FS_AddElement
    <3>3. IsFiniteSet(B \cup {t}) /\ Cardinality(B \cup {t}) = Cardinality(B) + 1
      BY <2>1, <2>3, FS_AddElement
    <3> HIDE DEF A, B, W
    <3> QED BY <2>1, <2>2, <2>4, <3>1, <3>2, <3>3 DEF W, B
  <2>5. CASE r \notin W
    <3>1. Askings(WantedOn(p))' = A
      BY <1>3, <2>1, <2>5
    <3> HIDE DEF A, B, W
    <3> QED BY <2>1, <2>2, <2>5, <3>1 DEF W, B
  <2> QED BY <2>4, <2>5
<1>8. ASSUME LinesAreIndependent, ListsAreSound, NEW p
      PROVE  CountIn(log, p) + Cardinality(Busy(p))' = Cardinality(Askings(WantedOn(p)))'
  <2>1. CountIn(log, p) + Cardinality(Busy(p)) = Cardinality(Askings(WantedOn(p)))
    BY <1>1, <1>8 DEF Counts
  <2>2. CountIn(log, p) \in Nat /\ Cardinality(Busy(p)) \in Nat /\ Cardinality(Askings(WantedOn(p))) \in Nat
    BY <1>2, CountRecorded, FS_CardinalityType
  <2> QED BY <1>7, <2>1, <2>2
<1>9. \A p : CountIn(log, p)' = CountIn(log, p)
  BY <1>1 DEF CountIn
<1>10. asked' \in [DOMAIN asked' -> Nat] /\ Counter(log)' /\ ~Printed'
  BY <1>1, <1>2, <1>3 DEF Counter, Printed
<1>11. ASSUME LinesAreIndependent', ListsAreSound', NEW p
       PROVE  CountIn(log, p)' + Cardinality(Busy(p))' = Cardinality(Askings(WantedOn(p)))'
  BY <1>4, <1>8, <1>9, <1>11
<1> QED BY <1>7, <1>10, <1>11 DEF Counts

\* A request is answered: it is counted if it is wanted, and else it was not to be.
LEMMA CountsRecord ==
  ASSUME Requests, Lists, Loaded, Counts, NEW t \in Threads, Record(t)
  PROVE  Counts'
<1> DEFINE r == serving[t]
<1>1. /\ r # NULL /\ phase \in {"mounted", "leaving"} /\ UNCHANGED <<command, asked>>
      /\ r \in DOMAIN asked /\ r \in Request
  BY DEF Record, settled, Requests
<1>2. /\ asked \in [DOMAIN asked -> Nat] /\ Counter(log)
      /\ \A p : IsFiniteSet(Askings(WantedOn(p))) /\ IsFiniteSet(Busy(p))
  BY DEF Counts
<1>3. /\ \A p : WantedOn(p)' = WantedOn(p)
      /\ LinesAreIndependent' <=> LinesAreIndependent
      /\ ListsAreSound' <=> ListsAreSound
  BY <1>1, WantedKept
<1>4. \A p : Askings(WantedOn(p))' = Askings(WantedOn(p))
  BY <1>1, <1>3 DEF Askings
<1>5. /\ serving' = serving \/ serving' = [serving EXCEPT ![t] = NULL]
      /\ log' = log \/ log' = Recorded(log, r.path, r.op)
      /\ phase' \in {phase, "crashed"}
  BY DEF Record, Answer
<1>6. \A p : NULL \notin WantedOn(p)
  BY NullAssumption DEF WantedOn
<1>7. ASSUME NEW p
      PROVE  /\ IsFiniteSet(Busy(p)')
             /\ serving' = [serving EXCEPT ![t] = NULL] => Busy(p)' = Busy(p) \ {t}
  <2>1. Busy(p)' = {u \in Threads : serving'[u] \in WantedOn(p)}
    BY <1>3 DEF Busy
  <2>2. ASSUME serving' = [serving EXCEPT ![t] = NULL] PROVE Busy(p)' = Busy(p) \ {t}
    <3>1. \A u \in Threads : serving'[u] = IF u = t THEN NULL ELSE serving[u]
      BY <2>2 DEF Requests
    <3> QED BY <1>6, <2>1, <3>1 DEF Busy
  <2>3. Busy(p)' \subseteq Busy(p)
    BY <1>5, <2>1, <2>2 DEF Busy
  <2> QED BY <1>2, <2>2, <2>3, FS_Subset
<1> HIDE DEF r
<1>8. Counter(log')
  BY <1>2, <1>5, CountRecorded
<1>9. ASSUME LinesAreIndependent, ListsAreSound, phase' # "crashed", NEW p
      PROVE  CountIn(log', p) + Cardinality(Busy(p)') = Cardinality(Askings(WantedOn(p)))
  <2>1. CountIn(log, p) + Cardinality(Busy(p)) = Cardinality(Askings(WantedOn(p)))
    BY <1>1, <1>9 DEF Counts
  <2>2. /\ CountIn(log, p) \in Nat /\ Cardinality(Busy(p)) \in Nat
        /\ Cardinality(Askings(WantedOn(p))) \in Nat
    BY <1>2, CountRecorded, FS_CardinalityType
  <2>3. /\ Wanted(r) => "no" \notin Verdicts(r)
        /\ "yes" \in Verdicts(r) => Wanted(r)
    BY <1>1, <1>9, VerdictIs DEF Loaded
  <2>4. t \in Busy(p) <=> r \in WantedOn(p)
    BY DEF Busy, r
  <2>5. CASE "no" \in Verdicts(r) /\ Answer(t, log)
    <3>1. log' = log /\ Busy(p)' = Busy(p) \ {t}
      BY <1>7, <2>5 DEF Answer
    <3>2. t \notin Busy(p)
      BY <2>3, <2>4, <2>5 DEF WantedOn
    <3>3. Busy(p)' = Busy(p)
      BY <3>1, <3>2
    <3> QED BY <2>1, <3>1, <3>3
  <2>6. CASE "yes" \in Verdicts(r) /\ Answer(t, Recorded(log, r.path, r.op))
    <3>1. log' = Recorded(log, r.path, r.op) /\ Busy(p)' = Busy(p) \ {t}
      BY <1>7, <2>6 DEF Answer
    <3>2. CountIn(log', p) = IF p = r.path THEN CountIn(log, p) + 1 ELSE CountIn(log, p)
      BY <1>2, <3>1, CountRecorded
    <3>3. r \in WantedOn(p) <=> p = r.path
      BY <1>1, <2>3, <2>6 DEF WantedOn
    <3>4. CASE p = r.path
      <4>1. t \in Busy(p)
        BY <2>4, <3>3, <3>4
      <4>2. Cardinality(Busy(p)') = Cardinality(Busy(p)) - 1
        BY <1>2, <3>1, <4>1, FS_RemoveElement
      <4> QED BY <2>1, <2>2, <3>2, <3>4, <4>2
    <3>5. CASE p # r.path
      <4>1. Busy(p)' = Busy(p)
        BY <2>4, <3>1, <3>3, <3>5
      <4> QED BY <2>1, <3>2, <3>5, <4>1
    <3> QED BY <3>4, <3>5
  <2> QED BY <1>9, <2>5, <2>6 DEF Record, r
<1>10. ~Printed'
  BY <1>1, <1>5 DEF Printed
<1>11. \A p : CountIn(log, p)' = CountIn(log', p)
  BY DEF CountIn
<1>12. ASSUME LinesAreIndependent', ListsAreSound', phase' \notin {"exit", "crashed", "killed"}, NEW p
       PROVE  CountIn(log, p)' + Cardinality(Busy(p))' = Cardinality(Askings(WantedOn(p)))'
  BY <1>3, <1>4, <1>9, <1>11, <1>12
<1>13. asked' \in [DOMAIN asked' -> Nat] /\ Counter(log)'
  BY <1>1, <1>2, <1>8 DEF Counter
<1> QED BY <1>2, <1>4, <1>7, <1>10, <1>12, <1>13 DEF Counts

\* Other steps ask and answer nothing: what is printed at the end is the log.
LEMMA CountsOther ==
  ASSUME Arguments, Files, Requests, Printing, Counts, [Next]_vars,
         UNCHANGED <<command, serving, asked>>,
         UNCHANGED log \/ Free_Hash,
         \/ UNCHANGED <<phase, streams>>
         \/ phase \in {"args", "open", "config", "parsing", "chdir", "mount"}
         \/ phase \notin {"exit", "crashed", "killed"} /\ phase' # "exit"
         \/ Free_Hash
  PROVE  Counts'
<1>1. /\ asked \in [DOMAIN asked -> Nat] /\ Counter(log)
      /\ \A p : IsFiniteSet(Askings(WantedOn(p))) /\ IsFiniteSet(Busy(p))
  BY DEF Counts
<1>2. /\ \A p : WantedOn(p)' = WantedOn(p)
      /\ LinesAreIndependent' <=> LinesAreIndependent
      /\ ListsAreSound' <=> ListsAreSound
  BY WantedKept
<1>3. \A p : Askings(WantedOn(p))' = Askings(WantedOn(p)) /\ Busy(p)' = Busy(p)
  BY <1>2 DEF Askings, Busy
<1>4. \A p : CountIn(EmptyLog, p) = 0 /\ Counter(EmptyLog)
  BY DEF CountIn, EmptyLog, Counter
<1>5. Counter(log')
  BY <1>1, <1>4 DEF Free_Hash
<1>6. asked' \in [DOMAIN asked' -> Nat] /\ Counter(log)'
  BY <1>1, <1>5 DEF Counter
<1>7. \A p : /\ CountIn(log, p)' = CountIn(log', p)
             /\ CountIn(output[hash_log], p)' = CountIn(output'[hash_log'], p)
  BY DEF CountIn
<1>8. ASSUME LinesAreIndependent', ListsAreSound', phase' \notin {"exit", "crashed", "killed"}, NEW p
      PROVE  CountIn(log, p)' + Cardinality(Busy(p))' = Cardinality(Askings(WantedOn(p)))'
  <2>1. phase \notin {"exit", "crashed", "killed"} /\ UNCHANGED log
    BY <1>8 DEF Free_Hash
  <2>2. CountIn(log, p) + Cardinality(Busy(p)) = Cardinality(Askings(WantedOn(p)))
    BY <1>2, <1>8, <2>1 DEF Counts
  <2> QED BY <1>3, <1>7, <2>1, <2>2
<1>9. ASSUME LinesAreIndependent', ListsAreSound', Printed', NEW p
      PROVE  CountIn(output[hash_log], p)' = Cardinality(Askings(WantedOn(p)))'
  <2>0. phase' = "exit" /\ hash_log' # NULL
    BY <1>9 DEF Printed
  <2>1. CASE UNCHANGED <<phase, streams>>
    BY <1>2, <1>3, <1>7, <1>9, <2>1 DEF Counts, Printed, streams
  <2>2. CASE phase \in {"args", "open", "config", "parsing", "chdir", "mount"}
    <3>1. output'[hash_log'] = EmptyLog
      BY <2>0, <2>2, StreamIsEmpty
    <3>2. Askings(WantedOn(p)) = {}
      <4>1. DOMAIN asked = {}
        BY <2>2 DEF Requests
      <4> QED BY <4>1 DEF Askings
    <3> QED BY <1>3, <1>4, <1>7, <3>1, <3>2, FS_EmptySet
  <2>3. CASE Free_Hash
    <3>1. phase = "printing" /\ todo = {} /\ UNCHANGED streams
      BY <2>3 DEF Free_Hash, settled
    <3>2. /\ DOMAIN output[hash_log] = DOMAIN log
          /\ \A q \in DOMAIN log : output[hash_log][q] = log[q]
      BY <3>1 DEF Printing
    <3>3. CountIn(output'[hash_log'], p) = CountIn(log, p)
      BY <3>1, <3>2 DEF CountIn, streams
    <3>4. Busy(p) = {}
      <4>1. Unserved
        BY <3>1 DEF Requests
      <4> QED BY <4>1, NullAssumption DEF Unserved, Busy, WantedOn
    <3>5. CountIn(log, p) + Cardinality(Busy(p)) = Cardinality(Askings(WantedOn(p)))
      BY <1>2, <1>9, <3>1 DEF Counts
    <3>6. CountIn(log, p) \in Nat
      BY <1>1, CountRecorded
    <3>7. CountIn(log, p) = Cardinality(Askings(WantedOn(p)))
      BY <3>4, <3>5, <3>6, FS_EmptySet
    <3> QED BY <1>3, <1>7, <3>3, <3>7
  <2> QED BY <2>0, <2>1, <2>2, <2>3
<1> QED BY <1>1, <1>3, <1>6, <1>8, <1>9 DEF Counts

\* Every step.
LEMMA CountsInv == IInv /\ Loaded /\ Counts /\ [Next]_vars => Counts'
<1> SUFFICES ASSUME IInv, Loaded, Counts, [Next]_vars PROVE Counts'
  OBVIOUS
<1>0. Arguments /\ Files /\ Requests /\ Printing /\ Lists
  BY DEF IInv
<1>1. ASSUME NEW t \in Threads, NEW r \in Request, Serve(t, r)
      PROVE  Counts'
  BY <1>0, <1>1, CountsServe
<1>2. ASSUME NEW t \in Threads, Record(t) PROVE Counts'
  BY <1>0, <1>2, CountsRecord
<1>3. UNCHANGED command
  BY ArgsFrame DEF getopt, processArgs
<1>4. CASE Print_Hash \/ PrintHeader \/ Unmount \/ Kill \/ Return
  <2>1. /\ UNCHANGED <<serving, asked, log>>
        /\ phase \notin {"exit", "crashed", "killed"} /\ phase' # "exit"
    BY <1>4 DEF Print_Hash, PrintHeader, Unmount, Kill, Return
  <2> QED BY <1>0, <1>3, <2>1, CountsOther
<1>5. CASE Free_Hash
  <2>1. UNCHANGED <<serving, asked>>
    BY <1>5 DEF Free_Hash
  <2> QED BY <1>0, <1>3, <1>5, <2>1, CountsOther
<1>6. CASE UNCHANGED <<phase, serving, asked, log, todo, config, streams>>
  BY <1>0, <1>3, <1>6, CountsOther
<1>7. CASE /\ phase \in {"args", "open", "config", "parsing", "chdir", "mount"}
           /\ UNCHANGED <<serving, asked, log, todo>>
  BY <1>0, <1>3, <1>7, CountsOther
<1> QED BY <1>0, <1>1, <1>2, <1>4, <1>5, <1>6, <1>7, RequestsFrame

\* The printed log is complete and exact, for any number of clients, requests and
\* worker threads: no request is lost between Store_In_Hash and the print, none is
\* counted twice, and against its filter none but a release or an fsync, which
\* the code does not ask about (distillerfs.c:818 and 829).
THEOREM PrintedLog == Spec => []PrintedLogIsComplete
<1>1. Init => Parser /\ Loaded /\ Counts
  BY ParserInit, CountsInit DEF Init, Loaded
<1>2. IInv /\ Parser /\ [Next]_vars => Parser'
  BY ParserInv DEF IInv
<1>3. IInv /\ Parser /\ Loaded /\ [Next]_vars => Loaded'
  BY LoadedInv DEF IInv
<1>4. IInv /\ Loaded /\ Counts /\ [Next]_vars => Counts'
  BY CountsInv
<1>5. Counts => PrintedLogIsComplete
  BY DEF Counts, PrintedLogIsComplete, WantedOn
<1> QED BY <1>1, <1>2, <1>3, <1>4, <1>5, Invariance, PTL DEF Spec

-----------------------------------------------------------------------------
(***************************************************************************)
(* A sound run does not crash.                                             *)
(***************************************************************************)
\* The stream that OpenLog has chosen is that of the log until the end.
Chosen ==
  phase \in {"config", "parsing", "chdir", "mount", "mounted", "leaving", "print", "printing"} =>
    hash_log = Stream

\* OpenLog chooses, and nobody else.
LEMMA ChosenInv == Arguments /\ Chosen /\ [Next]_vars => Chosen'
<1> SUFFICES ASSUME Arguments, Chosen, [Next]_vars PROVE Chosen'
  OBVIOUS
<1>1. CASE OpenLog
  <2>1. phase' = "crashed" \/ hash_log' = Stream
    BY <1>1 DEF OpenLog
  <2>2. Stream' = Stream
    BY <1>1 DEF OpenLog, Stream
  <2> HIDE DEF Stream
  <2> QED BY <2>1, <2>2 DEF Chosen
<1>2. ASSUME UNCHANGED <<args, hash_log>>, phase \notin {"args", "open"} \/ phase' \in {"open", "exit", "crashed", "args"}
      PROVE  Chosen'
  <2>1. Stream' = Stream
    BY <1>2 DEF Stream
  <2>2. CASE phase' \in {"open", "exit", "crashed", "args"}
    BY <2>2 DEF Chosen
  <2>3. CASE phase \notin {"args", "open"} /\ phase \in Started
    BY <1>2, <2>1, <2>3 DEF Chosen, Started
  <2>4. CASE phase \notin {"args", "open"} /\ phase \notin Started
    BY <2>4, ArgsFrame DEF Chosen, Started, getopt, processArgs
  <2> QED BY <1>2, <2>2, <2>3, <2>4
<1>3. CASE getopt \/ processArgs
  <2>1. phase' \in {"open", "exit", "crashed", "args"}
    BY <1>3, AfterArgs
  <2> QED BY <2>1 DEF Chosen
<1>4. CASE OpenConfig \/ toml_parse \/ parse_config \/ Chdir \/ Mount
  BY <1>2, <1>4 DEF OpenConfig, toml_parse, parse_config, Chdir, Mount, streams
<1>5. CASE Return \/ PrintHeader \/ Print_Hash \/ Free_Hash \/ Unmount \/ Kill
  BY <1>2, <1>5 DEF Return, PrintHeader, Print_Hash, Free_Hash, Unmount, Kill, settled, streams
<1>6. CASE \E t \in Threads : (\E r \in Request : Serve(t, r)) \/ Record(t)
  BY <1>2, <1>6 DEF Serve, Record, settled, streams
<1>7. CASE Over \/ Distil \/ UNCHANGED vars
  BY <1>7 DEF Over, Distil, vars, Chosen, Stream, streams
<1> QED
  BY <1>1, <1>3, <1>4, <1>5, <1>6, <1>7 DEF Next, Main

\* What a run has to bring along to end well.
Sound ==
  /\ WellFormed /\ Conf.sound /\ ListsAreSound
  /\ Given("f") # {} \/ LastOf("l") \in Creatable

\* With a sound command line there is a stream, and no indeterminate name.
LEMMA SoundStream ==
  ASSUME Arguments, Sound, phase \in Started
  PROVE  Stream # NULL /\ ~(args.isDaemon /\ args.logFilename = JUNK)
<1>1. command \in Commands /\ HasRead(args, command, Len(command.opts))
  BY DEF Arguments, ReadAll
<1>2. /\ args.isDaemon <=> Given("f") = {}
      /\ Given("l") # {} => args.logFilename = LastOf("l")
  BY <1>1, AllOptions DEF HasRead
<1>3. LastOf("l") \in Creatable => Given("l") # {}
  BY NullAssumption DEF LastOf
<1> QED
  BY <1>2, <1>3, NullAssumption DEF Sound, Stream

\* The lists have no indeterminate pointer, so that the filters have an answer.
LEMMA NoCrashInLists ==
  ASSUME FiltersAreMeant, ListsAreSound, NEW r
  PROVE  "crash" \notin Verdicts(r)
<1>1. JUNK \notin ToSet(g_filter.exclude) \cup ToSet(g_filter.include)
  BY DEF FiltersAreMeant
<1>2. \A list : JUNK \notin ToSet(list) => Found(list, r.path) \subseteq {"yes", "no"}
  BY DEF Found, ToSet
<1>3. /\ Found(g_filter.include, r.path) \subseteq {"yes", "no"}
      /\ Found(g_filter.exclude, r.path) \subseteq {"yes", "no"}
  BY <1>1, <1>2
<1> HIDE DEF Found
<1>4. PICK inc \in SUBSET {"yes", "no"} :
        inc = IF g_filter.include = << >> THEN {"yes"} ELSE Found(g_filter.include, r.path)
  BY <1>3
<1>5. PICK exc \in SUBSET {"yes", "no"} :
        exc = IF "yes" \in inc THEN Found(g_filter.exclude, r.path) ELSE {}
  BY <1>3
<1>6. Verdicts(r) \subseteq {"no"} \/
      Verdicts(r) = (inc \cap {"no", "crash"}) \cup
        {CASE e = "yes" -> "no" [] e = "no" -> "yes" [] e = "crash" -> e : e \in exc}
  BY <1>4, <1>5 DEF Verdicts
<1>7. \A e \in exc : (CASE e = "yes" -> "no" [] e = "no" -> "yes" [] e = "crash" -> e) # "crash"
  BY <1>5
<1> QED
  BY <1>6, <1>7
\* Soundness is a matter of the command line, which stays the same.
LEMMA SoundKept ==
  ASSUME UNCHANGED command
  PROVE  Sound' <=> Sound
<1>1. \A o : Given(o)' = Given(o) /\ LastOf(o)' = LastOf(o)
  BY DEF LastOf, Given
<1>2. WellFormed' <=> WellFormed
  BY <1>1 DEF WellFormed
<1>3. Conf' = Conf
  BY <1>1 DEF Conf
<1> QED
  BY <1>1, <1>2, <1>3 DEF Sound, ListsAreSound

\* Why a run has crashed.
Crashed == phase = "crashed" => ~Sound \/ args.status = "abort"

\* No step of a sound run crashes it: not OpenLog, parse_config, a worker in the
\* lists, or the print.
LEMMA CrashedInv ==
  IInv /\ Chosen /\ FiltersAreLoaded /\ Crashed /\ [Next]_vars => Crashed'
<1> SUFFICES ASSUME IInv, Chosen, FiltersAreLoaded, Crashed, [Next]_vars,
                    phase' = "crashed"
             PROVE  ~Sound' \/ args'.status = "abort"
  BY DEF Crashed
<1>0. Arguments /\ Requests
  BY DEF IInv
<1>1. UNCHANGED command
  BY ArgsFrame DEF getopt, processArgs
<1>2. CASE getopt \/ processArgs
  <2>1. args' \in ArgsType
    BY <1>0, ArgumentsInv DEF Arguments
  <2>2. PICK s \in {"ok", "usage", "abort"} : s = args'.status
    BY <2>1 DEF ArgsType
  <2>3. After(s, "args") = "crashed" \/ After(s, "open") = "crashed"
    BY <1>2, <2>2 DEF getopt, processArgs
  <2> QED BY <2>2, <2>3, AfterIs
<1>3. CASE phase = "crashed" /\ UNCHANGED args
  BY <1>1, <1>3, SoundKept DEF Crashed
<1>4. CASE OpenLog
  <2>1. phase = "open" /\ args.isDaemon /\ args.logFilename = JUNK
    BY <1>4 DEF OpenLog
  <2> QED BY <1>0, <1>1, <2>1, SoundStream, SoundKept DEF Started
<1>5. CASE parse_config
  <2>1. /\ phase = "parsing"
        /\ status = "failed" \/ (status = "parsed" /\ In(1, "filter", "t") = NULL)
    BY <1>5 DEF parse_config
  <2>2. ~Conf.sound
    BY <1>0, <2>1, SoundLines DEF FiltersAreLoaded
  <2> QED BY <1>1, <2>2, SoundKept DEF Sound
<1>6. ASSUME NEW t \in Threads, Record(t)
      PROVE  ~Sound'
  <2>1. phase \in {"mounted", "leaving"} /\ "crash" \in Verdicts(serving[t])
    BY <1>6 DEF Record
  <2>2. ~ListsAreSound \/ ~Conf.sound
    BY <1>0, <2>1, NoCrashInLists, SoundLines DEF FiltersAreLoaded
  <2> QED BY <1>1, <2>2, SoundKept DEF Sound
<1>7. CASE PrintHeader
  <2>1. phase = "print" /\ hash_log = NULL
    BY <1>7 DEF PrintHeader
  <2>2. Stream = NULL
    BY <2>1 DEF Chosen
  <2> QED BY <1>0, <1>1, <2>1, <2>2, SoundStream, SoundKept DEF Started
<1>8. CASE OpenConfig \/ Chdir \/ Mount \/ Return \/ Print_Hash \/ Free_Hash \/ Unmount \/ Kill
  BY <1>8 DEF OpenConfig, Chdir, Mount, Return, Print_Hash, Free_Hash, Unmount, Kill
<1>9. CASE \E t \in Threads, r \in Request : Serve(t, r)
  BY <1>9 DEF Serve
<1>10. CASE toml_parse \/ Over \/ Distil \/ UNCHANGED vars
  BY <1>3, <1>10 DEF toml_parse, Over, Distil, vars
<1> QED
  BY <1>2, <1>4, <1>5, <1>6, <1>7, <1>8, <1>9, <1>10 DEF Next, Main

\* A run with a mount point, a log and a sound file does not crash, whatever the
\* order of its options and however chdir, open, fopen and the mount fail.
THEOREM NoCrash == Spec => []SoundRunsEndWell
<1>1. Init => Chosen /\ Crashed
  BY DEF Init, Chosen, Crashed
<1>2. IInv /\ Chosen /\ [Next]_vars => Chosen'
  BY ChosenInv DEF IInv
<1>3. IInv /\ Chosen /\ FiltersAreLoaded /\ Crashed /\ [Next]_vars => Crashed'
  BY CrashedInv
<1>4. Crashed => SoundRunsEndWell
  BY DEF Crashed, Sound, SoundRunsEndWell
<1> QED
  BY <1>1, <1>2, <1>3, <1>4, Invariance, FiltersLoaded, PTL DEF Spec
=============================================================================
