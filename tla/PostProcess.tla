---------------------------- MODULE PostProcess ----------------------------
(***************************************************************************)
(* src/postprocess/process_log.lua: the shell script it makes of a log     *)
(* that the monitor has printed, and what that script leaves of the        *)
(* directory in the place it copies to.  The script is nothing but the     *)
(* commands of one line after those of the other, so that a line is read   *)
(* and its commands run in one step.                                       *)
(*                                                                         *)
(* A path is the sequence of its names, the directory itself the empty     *)
(* sequence; a tree is a function on paths.  mkdir -p, cp -a and touch are *)
(* external: a command that cannot do its work changes nothing, and the    *)
(* script goes on.                                                         *)
(***************************************************************************)
EXTENDS Naturals, SequencesExt

CONSTANTS
  Tree,         \* what the directory holds: Tree[path] is "dir" or "file", which is no directory
  HasColon,     \* the paths with a colon in one of their names
  NoSlash,      \* the texts without a slash: what a symbolic link may hold
  TargetThere   \* whether the directory to copy to is there at first

VARIABLES
  copy,  \* the copy; copy[path] is "dir", "copied" or "empty"
  done   \* the lines of the log that have been read, by their paths

distilled == <<copy, done>>

\* What is on the way to a path, the directory itself first.
Above(path) == {SubSeq(path, 1, k) : k \in 0..Len(path) - 1}

IsDir(tree, path) == path \in DOMAIN tree /\ tree[path] = "dir"

\* The directory holds nothing that is not in a directory.
ASSUME TreeAssumption ==
  \A p \in DOMAIN Tree :
    /\ p \in Seq(ToSet(p)) /\ Tree[p] \in {"dir", "file"}
    /\ \A d \in Above(p) : d \in DOMAIN Tree /\ Tree[d] = "dir"

ASSUME TargetAssumption == TargetThere \in BOOLEAN /\ IsDir(Tree, << >>)

With(tree, paths, kind) ==
  [p \in DOMAIN tree \cup paths |-> IF p \in paths THEN kind ELSE tree[p]]

\* Everything up to the last slash.
get_dir(path) == IF path = << >> THEN << >> ELSE Front(path)

\* mkdir -p
mkdir(tree, path) ==
  LET dirs == Above(path) \cup {path}
  IN IF \A d \in dirs \cap DOMAIN tree : tree[d] = "dir" THEN With(tree, dirs, "dir") ELSE tree

\* cp -a, of something that is no directory.
cp(tree, path) ==
  IF path \in DOMAIN Tree /\ Tree[path] = "file" /\ IsDir(tree, get_dir(path))
    THEN With(tree, {path}, "copied") ELSE tree

\* Of what is there, touch changes the time only.
touch(tree, path) ==
  IF path \notin DOMAIN tree /\ IsDir(tree, get_dir(path))
    THEN With(tree, {path}, "empty") ELSE tree

\* Variant of Copied: getattr is asked before open.
CopiedUnlessStat(flags) ==
  {"open", "read", "readlink"} \cap flags # {} /\ "getattr" \notin flags

Copied(flags) == {"open", "read", "readlink"} \cap flags # {}

\* What was read is copied; what was only looked at is made anew: a directory if
\* it was listed, or else an empty file.  The test for /prebuilts compares seven
\* characters with ten and is always true.
process_path(tree, path, flags) ==
  LET dir == get_dir(path)
  IN CASE path \in NoSlash -> tree
       [] path \notin NoSlash /\ Copied(flags) ->
            cp(IF dir = << >> THEN tree ELSE mkdir(tree, dir), path)
       [] path \notin NoSlash /\ ~Copied(flags) /\ "getattr" \in flags ->
            IF "readdir" \in flags THEN mkdir(tree, path) ELSE touch(mkdir(tree, dir), path)
       [] OTHER -> tree

\* One turn of the main loop.  The lines come in the order in which Print_Hash
\* has found them in its buckets, which may be any; one that does not have three
\* fields is left out.
process_line(log, path) ==
  /\ path \in DOMAIN log \ done
  /\ done' = done \cup {path}
  /\ copy' = IF path \in HasColon THEN copy ELSE process_path(copy, path, log[path].flags)
=============================================================================
