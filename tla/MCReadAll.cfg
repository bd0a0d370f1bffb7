SPECIFICATION Spec
CONSTANTS
  t1 = t1
  t2 = t2
  i1 = i1
  i2 = i2
  f1 = f1
  f2 = f2
  u1 = u1
  u2 = u2
  daemon = daemon
  NULL = NULL
  Daemon = daemon
  Threads <- MCOneThread
  Paths <- MCPaths
  Mounted <- MCMounted
  Users <- MCUsers
  Targets <- MCTargets
  Inodes <- MCInodes
  Handles <- MCHandles
  Privileged = FALSE
  MayFail = TRUE
  Ops <- MCReadOps
  MaxFds = 3
  MaxCalls = 4
  include_path <- MCInclude
  exclude_path <- MCExclude
  filter <- MCFilter
INVARIANTS
  AllIsLogged
