\* Batches ("more" mode) with directory events; the same faults.
SPECIFICATION Spec
CONSTANTS
  NoPath = NoPath
  Names <- MCNames
  Paths <- MorePaths
  Files <- MoreFiles
  Dirs <- MCDirs
  Ignored <- Excluded
  RsyncExcluded <- Excluded
  SortOrder <- MoreOrder
  ConfigFile = NoPath
  MaxFiles = 3
  QueueSize = 1
  DirVsFiles = 2
  MaxVersion = 2
  SyncEach = FALSE
  DelayScan = FALSE
  CallbackErrors = FALSE
  StatHitsFolder = TRUE
  RsyncFaults = TRUE
  WatchFaults = TRUE
  EarlyChanges = TRUE
  Removals <- ComeAndGo
  Delete = ""
  NewFiles <- NoFiles
INVARIANTS NoSilentLoss OneSyncAtATime ExcludedNeverCopied
PROPERTIES MirrorsSource
CHECK_DEADLOCK FALSE
