SPECIFICATION ProgressSpec
CONSTANTS
  LastMonth = 3
  MaxRestarts = 1
  Units = {1}
  DocIds = {1, 2}
  LastDay = 2
  MaxEdits = 2
  Attempts = 2
  Reports <- OneReport
  Workers = {w1, w2}
  Dispatchers = {d1}
  JobAttempts = 2
  MaxFaults = 2
  None = None
  LastRun = 2
  Months = {1, 2}
  MaxLostReads = 1
INVARIANTS ToldWhatHappened
PROPERTIES OverdueIsClosed StatusFollowsDocuments EventuallyClosed RunsAreFollowed
CHECK_DEADLOCK FALSE
