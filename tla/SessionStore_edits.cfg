SPECIFICATION SrSpec
CONSTANTS
  SrConvs <- MCConvs
  SrAgent = "a"
  SrMsgs = 1
  SrTimes = 1
  SrMaxAge = 1
  SrMax = 1
  SrMaxFaults = 0
  SrReplies <- MCReplies
INVARIANT LastReplyCanBeEdited
CHECK_DEADLOCK FALSE
