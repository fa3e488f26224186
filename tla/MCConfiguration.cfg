\* Up to two folders in the first file, three in memory; two edits, replacements or loads.
SPECIFICATION Spec
CONSTANTS
  Ids <- MCIds
  Label <- MCLabel
  Items <- MCItems
  Includes <- MCIncludes
  Names <- MCNames
  Match <- MCMatch
  Star <- MCStar
  RsyncMatch <- MCRsyncMatch
  Globals <- MCGlobals
  Drafts <- MCDrafts
  WatchFolders <- MCWatchFolders
  SkipFolders <- MCSkipFolders
  MaxFolders = 3
  MaxChanges = 2
  NoMap = NoMap
  NoCopy = NoCopy
  NoSave = NoSave
INVARIANTS TypeOK CleanOnceReplaced MapIsFresh FiltersKeepMeaning OneWatcherPerFolder
PROPERTIES UniqueIdsStay
CHECK_DEADLOCK FALSE
