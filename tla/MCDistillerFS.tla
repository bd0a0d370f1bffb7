--------------------------- MODULE MCDistillerFS ---------------------------
(* Small instances of DistillerFS for TLC. *)
EXTENDS DistillerFS, TLC

CONSTANTS t1, t2, i1, i2, f1, f2, u1, u2, daemon

\* Two names of the build tree and one that is excluded; .fuse_hidden names are
\* names like the others.
pa == <<"a">>
pb == <<"b">>
pt == <<"tmp", "x">>
raw == <<".", "a">>

MCPaths == {pa, pb}
MCPathsExcl == {pa, pt}
MCTargets == {raw}
MCMounted == [p \in MCPaths |-> IF p = pa THEN i1 ELSE NULL]
MCMountedExcl == [p \in MCPathsExcl |-> IF p = pa THEN i1 ELSE NULL]
MCInclude == {}
MCExclude == { <<"tmp">> }

MCOneThread == {t1}
MCThreads == {t1, t2}
MCInodes == {i1, i2}
MCHandles == {f1, f2}
MCUsers == {u1}
MCTwoUsers == {u1, u2}

AllOps == {"getattr", "access", "readlink", "readdir", "mknod", "mkdir", "unlink",
           "rmdir", "symlink", "rename", "link", "chmod", "chown", "truncate",
           "utimens", "open", "read", "write", "statfs", "release", "fsync",
           "utime"} \cup XattrOps

\* Open files, and what may happen to their paths and descriptors.
MCFileOps == {"open", "read", "write", "release", "fsync", "rename", "unlink", "link",
              "chmod", "mknod"}

\* Entries and attributes.
MCEntryOps == {"getattr", "access", "readlink", "readdir", "mknod", "mkdir", "unlink",
               "rmdir", "symlink", "rename", "chown", "truncate", "utimens", "statfs",
               "utime", "setxattr"}

\* One word of each kind.
MCFilter == [op \in AllOps |-> CASE op = "open"    -> "success"
                                 [] op = "write"   -> "success"
                                 [] op = "read"    -> "all"
                                 [] op = "getattr" -> "never"
                                 [] op = "unlink"  -> "unsuccess"
                                 [] OTHER          -> "absent"]

MCFsyncOps == {"open", "write", "fsync", "release"}
MCLinkOps == {"link", "getattr", "chown"}
MCReadOps == {"open", "read", "release"}

MCSymmetry == Permutations(MCThreads) \cup Permutations(MCHandles)
=============================================================================
