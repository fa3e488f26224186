\* One rsync per event; files removed and created, not always watched; full channel, full map, failing rsync and failing watch.
SPECIFICATION FairSpec
CONSTANTS
  NoPath = NoPath
  Names <- MCNames
  Paths <- LatePair
  Files <- LatePair
  Dirs <- NoDirs
  Ignored <- NoneExcluded
  RsyncExcluded <- NoneExcluded
  SortOrder <- MCSortOrder
  ConfigFile = NoPath
  MaxFiles = 1
  QueueSize = 2
  DirVsFiles = 2
  MaxVersion = 2
  SyncEach = TRUE
  DelayScan = FALSE
  CallbackErrors = FALSE
  StatHitsFolder = FALSE
  RsyncFaults = TRUE
  WatchFaults = TRUE
  EarlyChanges = TRUE
  Removals <- ComeAndGo
  Delete = "running"
  NewFiles <- LateFiles
INVARIANTS TypeOK NoSilentLoss CopyInv OneSyncAtATime
PROPERTIES TargetNeverRegresses EventuallyMirrored MirrorsSourceFairly
CHECK_DEADLOCK FALSE
