\* Two edits of the configuration file, up to three processes.
SPECIFICATION FairSpec
CONSTANTS
  Folders <- MCFolders
  ConfigFolders <- MCFolders
  Filtered <- MCFolders
  SyncEach = TRUE
  MaxProcs = 3
  MaxEdits = 2
INVARIANTS TypeOK StillServed HandedOver NewerSuccessor PatternsAccountedFor
PROPERTIES RestartCompletes
CHECK_DEADLOCK FALSE
