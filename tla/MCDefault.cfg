SPECIFICATION Spec
CONSTANTS
  t1 = t1
  t2 = t2
  NULL = NULL
  JUNK = JUNK
  oldpath = oldpath
  OldLog <- MCOldLog
  NotString = NotString
  Commands <- MCDefault
  Absolute <- MCAbsolute
  ConfigFile <- MCConfigFile
  Creatable <- MCCreatable
  MaxFuseArgs = 6
  op_names <- MCOps
  Failing <- MCFailing
  Tree <- MCTree
  Paths <- MCPaths
  HasColon <- MCHasColon
  NoSlash <- MCNoSlash
  TargetThere = TRUE
  Threads <- MCThreads
  MaxRequests = 2
INVARIANT
  DefaultMakesNoPhantom
