SPECIFICATION FairSpec
CONSTANTS
  t1 = t1
  t2 = t2
  t3 = t3
  NULL = NULL
  Threads <- MCThreads
  Paths <- MCPaths
  Flags <- MCFlags
  include_path <- MCInclude
  exclude_path <- MCExclude
  filter <- MCFilter
  IntMax = 3
  MaxCalls = 2
INVARIANTS
  NoLostUpdate
  IInv
PROPERTIES
  ImplementsAccessLog
  CallReturns
