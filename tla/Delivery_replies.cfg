SPECIFICATION MCSpec
CONSTANTS
  Replies <- MCReplies
  MaxAttempts = 2
  MaxPieces = 3
  StreamMin = 3
  Album = 2
  CsMessages <- MCSends
  SfRounds = 2
  SfCap = 2
  AcpMax = 2
  AcpRate = 3
  AcpIds = 4
  CvClients = {c1}
  CvTools = {turn}
  CvMaxBlocks = 2
  CvMaxChanges = 3
  WcSessions = {"a"}
  WcMaxRequests = 3
  WcMaxSockets = 2
  WcMaxTries = 1
  MfUploads = {u1, u2}
  MfReaders = {r1}
  MfMimes = {"text/plain"}
  MfScanMax = 1
  MfMax = 2
  MfThreshold = 2
  MfMaxCrashes = 1
INVARIANTS SplitSound ReportedIsShown RevisionNamesDocument SettledByItsOwn ServedAsStored
PROPERTIES KeepsPromise RepliesEnd
