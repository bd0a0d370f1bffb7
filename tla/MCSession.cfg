SPECIFICATION FairSpec
CONSTANTS
  t1 = t1
  t2 = t2
  NULL = NULL
  JUNK = JUNK
  oldpath = oldpath
  OldLog <- MCOldLog
  NotString = NotString
  Commands <- MCCommands
  Absolute <- MCAbsolute
  ConfigFile <- MCConfigFile
  Creatable <- MCCreatable
  MaxFuseArgs = 6
  op_names <- MCOps
  Failing <- MCFailing
  Tree <- MCTree
  Paths <- MCPaths
  HasColon <- MCHasColon
  NoSlash <- MCNoSlash
  TargetThere = FALSE
  Threads <- MCThreads
  MaxRequests = 2
INVARIANTS
  FuseGetsWhatWasAsked
  PrintedLogIsComplete
  OpenedFilesAreCopied
  
  OldLogsAreKept
  SoundRunsEndWell
  FiltersAreLoaded
  CoveredDirectoryIsServed
PROPERTIES
  UnmountEnds
