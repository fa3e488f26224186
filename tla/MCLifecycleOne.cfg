\* The comment at line 251: a restart starts one process.
SPECIFICATION Spec
CONSTANTS
  Folders <- MCFolders
  ConfigFolders <- MCFolders
  Filtered <- MCFolders
  SyncEach = TRUE
  MaxProcs = 3
  MaxEdits = 1
INVARIANTS OneSuccessor
CHECK_DEADLOCK FALSE
