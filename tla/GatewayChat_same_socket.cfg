SPECIFICATION MCSpec
CONSTANTS
  c1 = c1
  c2 = c2
  r1 = r1
  r2 = r2
  k1 = k1
  k2 = k2
  s1 = s1
  None = None
  Conns = {c1}
  Runs = {r1}
  Keys = {k1, k2}
  Sessions = {s1}
  RunConn <- MCSoloConn
  RunKey <- MCSoloKey
  May = {"send", "resolve"}
  Risks = {TRUE}
  QueueCap = 2
  DeltaCap = 1
  MaxDeltas = 0
  MaxCalls = 1
  MaxFrames <- MCFramesSolo
PROPERTY AnswersTakeEffect
CHECK_DEADLOCK FALSE
