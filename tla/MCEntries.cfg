SPECIFICATION Spec
CONSTANTS
  t1 = t1
  t2 = t2
  i1 = i1
  i2 = i2
  f1 = f1
  f2 = f2
  u1 = u1
  u2 = u2
  daemon = daemon
  NULL = NULL
  Daemon = daemon
  Threads <- MCThreads
  Paths <- MCPathsExcl
  Mounted <- MCMountedExcl
  Users <- MCTwoUsers
  Targets <- MCTargets
  Inodes <- MCInodes
  Handles <- MCHandles
  Privileged = TRUE
  MayFail = TRUE
  Ops <- MCEntryOps
  MaxFds = 1
  MaxCalls = 3
  include_path <- MCInclude
  exclude_path <- MCExclude
  filter <- MCFilter
SYMMETRY MCSymmetry
INVARIANTS
  OneOwnerPerFd
  LogIsExact
  CreatorOwns
PROPERTIES
  OnlyChownChangesOwner
