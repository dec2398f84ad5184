SPECIFICATION RacesSpec
CONSTANTS
  Tickets = {t1}
  Workshops = {w1, w2}
  Requests = {r1, r2, r3}
  Amounts = {1, 2}
  Balances = {2}
  MaxWorkshops = 2
  MAX_ATTACHMENTS = 1
  NULL = NULL
  Reports <- TwoReports
  Workers = {w1, w2}
  Dispatchers = {d1}
  JobAttempts = 2
  MaxFaults = 2
  None = None
SYMMETRY Interchangeable
INVARIANT ReserveNotStranded
CHECK_DEADLOCK FALSE
