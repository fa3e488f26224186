\* The comment at line 581: paths are cleaned up if informing succeeded.
SPECIFICATION Spec
CONSTANTS
  NoPath = NoPath
  Names <- MCNames
  Paths <- Pair
  Files <- Pair
  Dirs <- NoDirs
  Ignored <- NoneExcluded
  RsyncExcluded <- NoneExcluded
  SortOrder <- PairOrder
  ConfigFile = NoPath
  MaxFiles = 4
  QueueSize = 4
  DirVsFiles = 2
  MaxVersion = 1
  SyncEach = FALSE
  DelayScan = FALSE
  CallbackErrors = FALSE
  StatHitsFolder = FALSE
  RsyncFaults = TRUE
  WatchFaults = FALSE
  EarlyChanges = FALSE
  Removals <- NoRemovals
  Delete = ""
  NewFiles <- NoFiles
PROPERTIES CleanedUpOnlyIfSynced
