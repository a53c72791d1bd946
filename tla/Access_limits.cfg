SPECIFICATION MCSpec
CONSTANTS
  a1 = a1
  a2 = a2
  s1 = s1
  s2 = s2
  i1 = i1
  q1 = q1
  q2 = q2
  Accounts = {a1, a2}
  Senders = {s1, s2}
  AllowFrom = {s2}
  MaxCrashes = 1
  HaReqs = {q1, q2}
  HaMenu <- MCRoutes
  HaIps = {i1}
  HaMax = 2
  HaWindow = 1
  HaLockout = 2
  HaTimes = 3
  t1 = t1
  t2 = t2
  key = key
  Tops <- MCTops
  Sessions <- MCSessions
  MaxRuns = 4
  MaxDepth = 2
  MaxChildren = 1
  BrTurns = {t1, t2}
  BrNames = {1, 2}
  BrMax = 1
  BrTargets = 3
  BrFaults = 1
  BrDrops = 1
  McpTurns = {t1, t2}
  McpIds = 3
  McpNotes = 1
  SrConvs <- MCConvs
  SrAgent = "a"
  SrMsgs = 2
  SrTimes = 2
  SrMaxAge = 0
  SrMax = 1
  SrMaxFaults = 1
  SrReplies <- MCOneReply
INVARIANTS OnlyGranted NoOrphanWork  AnswersLagByTimeouts HistoryIsKept
PROPERTY OnlyEarlierRequestsUnlock
CHECK_DEADLOCK FALSE
