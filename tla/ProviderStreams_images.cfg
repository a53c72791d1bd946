SPECIFICATION PsSpec
CONSTANTS
  PsMaxEvents = 1
  PsMaxChunk = 3
  PsMaxTorn = 0
INVARIANT ToolImagesSent
CHECK_DEADLOCK FALSE
