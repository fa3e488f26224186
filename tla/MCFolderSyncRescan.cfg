\* The comment at line 590: a full map makes the whole folder be scanned.
SPECIFICATION Spec
CONSTANTS
  NoPath = NoPath
  Names <- MCNames
  Paths <- Pair
  Files <- Pair
  Dirs <- NoDirs
  Ignored <- NoneExcluded
  RsyncExcluded <- NoneExcluded
  SortOrder <- PairOrder
  ConfigFile = NoPath
  MaxFiles = 1
  QueueSize = 4
  DirVsFiles = 2
  MaxVersion = 1
  SyncEach = FALSE
  DelayScan = FALSE
  CallbackErrors = FALSE
  StatHitsFolder = FALSE
  RsyncFaults = FALSE
  WatchFaults = FALSE
  EarlyChanges = FALSE
  Removals <- NoRemovals
  Delete = ""
  NewFiles <- NoFiles
PROPERTIES FullMapRescansFolder
