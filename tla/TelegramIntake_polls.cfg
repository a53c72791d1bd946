SPECIFICATION MCSpec
CONSTANTS
  N = 4
  Messages <- MCMessages
  Limit = 2
  Cap = 1
  TgMaxCrashes = 1
  MaxOutages = 1
  CiEvents <- MCEvents
  CiCap = 1
  CiBatch = 2
  CiMaxFaults = 2
INVARIANTS MessagesAccounted
PROPERTIES EveryMessageHandled EveryoneIsHeard
CHECK_DEADLOCK FALSE
