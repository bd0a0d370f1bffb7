----------------------------- MODULE LogFilter -----------------------------
(***************************************************************************)
(* Which operations reach the log: the include and exclude lists of path   *)
(* prefixes and the filter of each operation, as the configuration file    *)
(* leaves them in g_filter and op_flags.                                   *)
(*                                                                         *)
(* A path is a sequence of tokens and a prefix test is a test on           *)
(* sequences: what matters is which paths a prefix covers, not how strncmp *)
(* walks over the characters.                                              *)
(***************************************************************************)
EXTENDS Sequences, SequencesExt

CONSTANTS
  include_path,   \* prefixes of [include_only] paths
  exclude_path,   \* prefixes of [exclude] paths
  filter          \* filter[op] : the word the [filter] table holds, or "absent"

\* The bits of op_flags[].
LOG_SUCCESS == "LOG_SUCCESS"
LOG_UNSUCCESS == "LOG_UNSUCCESS"

FilterWords == {"absent", "success", "unsuccess", "all", "never"}

\* No include list means that every path is included.
is_included(path) ==
  \/ include_path = {}
  \/ \E prefix \in include_path : IsPrefix(prefix, path)

is_excluded(path) == \E prefix \in exclude_path : IsPrefix(prefix, path)

LoggedPath(path) == is_included(path) /\ ~is_excluded(path)

\* The bit set parse_config stores for a filter word; an operation the table
\* does not name keeps what main() gave it.  "all" ORs LOG_UNSUCCESS with
\* itself.
FlagsOfWord(word) ==
  CASE word = "absent"    -> {LOG_SUCCESS, LOG_UNSUCCESS}
    [] word = "success"   -> {LOG_SUCCESS}
    [] word = "unsuccess" -> {LOG_UNSUCCESS}
    [] word = "all"       -> {LOG_UNSUCCESS} \cup {LOG_UNSUCCESS}
    [] word = "never"     -> {}

op_flags == [op \in DOMAIN filter |-> FlagsOfWord(filter[op])]

should_log(op, outcome) == outcome \in op_flags[op]
=============================================================================
