SPECIFICATION FieldSpec
CONSTANTS
  Keys = {k1, k2}
  Bodies <- TheBodies
  Sounds = {c1, c2}
  Requests = {r1, r2}
  MaxRequests = 3
  LastId = 3
  Blobs = {c1, c2}
  Filters = {"all", "with", "without"}
  BatchSize = 1
  MaxRecords = 3
  MaxBytes = 2
  ZipAttempts = 2
  Programas = {p1, p2}
  c1 = c1
  c2 = c2
  Photos = {c1, c2}
  ClientKeys = {k1, k2}
  Uploads <- TheUploads
  QaRequests = {r1, r2}
  MaxQaRequests = 3
  ZipLimit = 1
SYMMETRY Interchangeable
INVARIANTS AnswersAreTrue RecordingsAreKept DownloadsAgree RecordsAreKept
CHECK_DEADLOCK FALSE
