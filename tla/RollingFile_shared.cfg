SPECIFICATION Spec
CONSTANTS
  Procs = {p1, p2}
  MaxFileSize = 3
  MaxBackupIndex = 3
  EventSize = 2
  MaxUnrenamed = 1
  MaxTruncations = 1
  MaxFailures = 1
  MaxEvents = 8
  MaxCrashes = 1
  Nobody = nobody
SYMMETRY ProcSymmetry
INVARIANTS
  TypeOK
  StaleIsTooLarge
  WritesToLogFile
  RetainedIsSuffix
PROPERTIES
  OnlyOldestExpires
CHECK_DEADLOCK FALSE
