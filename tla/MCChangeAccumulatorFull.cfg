\* The comment at line 590: no more than maxFiles changes are tracked.
SPECIFICATION AccSpec
CONSTANTS
  a = a
  b = b
  c = c
  d = d
  e = e
  Paths <- MCPaths
  MaxFiles = 3
  DelayScan = TRUE
  SyncEach = TRUE
  ConfigFile = d
  CallbackErrors = TRUE
INVARIANTS AtMostMaxFiles
