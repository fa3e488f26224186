\* Every consistent batch of a small tree, thresholds at 2.
SPECIFICATION Spec
CONSTANTS
  SortOrder <- TreeOrder
  DirVsFiles = 2
INVARIANTS EveryChangeCovered BusyDirectoryScanned NoNeedlessScan
CHECK_DEADLOCK FALSE
