\* One rsync per event, with reminders, failing callbacks and restarts.
SPECIFICATION AccFairSpec
CONSTANTS
  a = a
  b = b
  c = c
  d = d
  e = e
  Paths <- MCPaths
  MaxFiles = 3
  DelayScan = TRUE
  SyncEach = TRUE
  ConfigFile = d
  CallbackErrors = TRUE
INVARIANTS AccTypeOK PromptFlush AccInv
PROPERTIES ForgottenOnlyWhenInformed SettledGetsReported ReminderSent
