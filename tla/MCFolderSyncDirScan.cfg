\* The comment at line 821: more than dirVsFiles changes in a directory make it be scanned.
SPECIFICATION Spec
CONSTANTS
  NoPath = NoPath
  Names <- MCNames
  Paths <- Pair
  Files <- Pair
  Dirs <- NoDirs
  Ignored <- NoneExcluded
  RsyncExcluded <- NoneExcluded
  SortOrder <- PairOrder
  ConfigFile = NoPath
  MaxFiles = 4
  QueueSize = 4
  DirVsFiles = 1
  MaxVersion = 1
  SyncEach = FALSE
  DelayScan = FALSE
  CallbackErrors = FALSE
  StatHitsFolder = TRUE
  RsyncFaults = FALSE
  WatchFaults = FALSE
  EarlyChanges = FALSE
  Removals <- NoRemovals
  Delete = ""
  NewFiles <- NoFiles
PROPERTIES DirectoryIsScanned
