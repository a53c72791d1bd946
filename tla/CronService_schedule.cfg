SPECIFICATION FairSpec
CONSTANTS
  j1 = j1
  j2 = j2
  Ids = {j1, j2}
  ConfigJobs = {j1}
  Addable = {j1, j2}
  Edits = {"add", "remove", "run"}
  Due <- MCDue
  Period = 2
  Jitter = 1
  MaxTime = 5
  MaxEdits = 1
  MaxCrashes = 1
INVARIANT ScheduledRunsAlternate
PROPERTIES RunsAreRecorded FiresOnce
CHECK_DEADLOCK FALSE
