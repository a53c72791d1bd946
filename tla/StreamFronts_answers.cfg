SPECIFICATION SfSpec
CONSTANTS
  SfRounds = 2
  SfCap = 2
  AcpMax = 2
  AcpRate = 3
  AcpIds = 4
CHECK_DEADLOCK FALSE
INVARIANT AnswerShown
