SPECIFICATION MCSpec
CONSTANTS
  Histories <- MCHistories
  Sizes <- MCSizes
  Budget = 8
  HardLimit = 12
  MinKeep = 2
  MaxRounds = 2
  MaxBatch = 2
  MaxPieces = 2
  NMsg = 3
  Cap = 1
  Edits <- MCEdits
  MxFiles <- MCPaths
  MxContents <- MCLines
  MxTarget = 1
  MxBatch = 1
  MxMaxChanges = 3
  CfStartFiles <- MCStarts
  CfFiles <- MCFiles
  CfEnv = {"HAVE"}
  CfMaxEdits = 2
INVARIANTS RunningIsValid IndexSound ContextSound NothingSilent
PROPERTIES EveryMessageHandled ReloadConverges
CHECK_DEADLOCK FALSE
