SPECIFICATION MCSpec
CONSTANTS
  c1 = c1
  c2 = c2
  Calls = {c1, c2}
  N = 2
  Serves <- MCServes
  Threshold = 2
  Recovery = 1
  Needed = 2
  Errors = {TRUE, FALSE}
  MaxRetries = 1
  PsMaxEvents = 3
  PsMaxChunk = 3
  PsMaxTorn = 1
  CpCalls = {c1, c2}
  CpLife = 4
  CpMargin = 2
  CpDefault = 9
  CpExchange = 1
  CpRequest = 3
  CpMaxTime = 7
  CgCallers = {c1, c2}
  CgLimit = 2
  CgRate = 2
  CgCosts = {0, 1}
  CgDay = 3
  CgMaxTime = 3
  CgMaxCalls = 2
  TlTurns = {c1, c2}
  TlMenu <- MCMenu
  TlAllowed <- MCAllowed
  TlOverrides <- MCOverrides
  TlPieces = 2
INVARIANTS OneAttemptShown StreamedIsAnswered CallsCarriedOver TokensAreAlive OverrunBounded
PROPERTIES CallsEnd ApprovalIsBinding
CHECK_DEADLOCK FALSE
