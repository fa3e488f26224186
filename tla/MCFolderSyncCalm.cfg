\* "More" mode with room in channel and map and no faults: nothing is lost.
SPECIFICATION FairSpec
CONSTANTS
  NoPath = NoPath
  Names <- MCNames
  Paths <- Pair
  Files <- Pair
  Dirs <- NoDirs
  Ignored <- NoneExcluded
  RsyncExcluded <- NoneExcluded
  SortOrder <- PairOrder
  ConfigFile = NoPath
  MaxFiles = 3
  QueueSize = 4
  DirVsFiles = 2
  MaxVersion = 2
  SyncEach = FALSE
  DelayScan = FALSE
  CallbackErrors = FALSE
  StatHitsFolder = FALSE
  RsyncFaults = FALSE
  WatchFaults = FALSE
  EarlyChanges = FALSE
  Removals <- ComeAndGo
  Delete = "running"
  NewFiles <- NoFiles
INVARIANTS NothingLost
PROPERTIES EventuallyMirrored
