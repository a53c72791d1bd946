SPECIFICATION MCSpec
CONSTANTS
  t1 = t1
  t2 = t2
  comp = comp
  Turns <- MCTurns
  Cancellable <- MCFirst
  Interactive <- MCFirst
  MaxRounds = 1
  MaxCalls = 2
  RepeatBlock = 2
  Operators <- MCOperators
  DbFaults = TRUE
  Compactor = comp
CHECK_DEADLOCK FALSE
INVARIANTS AtMostOneLostResult TurnRowsContiguous
PROPERTIES HistoryStable TurnsEnd
