SPECIFICATION FairSpec
CONSTANTS
  Workers = {w1, w2}
  Sweepers = {s1, s2}
  ExportAttempts = 2
  MaxFaults = 2
  LateErrors = 1
  None = None
  Input = Input
CONSTRAINT FewTroubles
INVARIANTS ImportedAtMostOnce FilesAreThere
PROPERTIES OutcomeFinal Settles
CHECK_DEADLOCK FALSE
