SPECIFICATION MCSpec
CONSTANTS
  c1 = c1
  c2 = c2
  r1 = r1
  r2 = r2
  k1 = k1
  k2 = k2
  s1 = s1
  None = None
  Conns = {c1, c2}
  Runs = {r1, r2}
  Keys = {k1, k2}
  Sessions = {s1}
  RunConn <- MCRunConn
  RunKey <- MCRunKey
  May = {"send", "cancel", "resolve", "delete"}
  Risks = {TRUE, FALSE}
  QueueCap = 1
  DeltaCap = 1
  MaxDeltas = 1
  MaxCalls = 2
  MaxFrames <- MCFrames
INVARIANTS RegistryExact AnnouncedIsResolvable OnlyAllowedCallsRun
PROPERTY CancelledRunsEnd
CHECK_DEADLOCK FALSE
