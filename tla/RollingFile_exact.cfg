SPECIFICATION Spec
CONSTANTS
  Procs = {p1, p2}
  MaxFileSize = 2
  MaxBackupIndex = 2
  EventSize = 1
  MaxUnrenamed = 0
  MaxTruncations = 0
  MaxFailures = 0
  MaxEvents = 7
  MaxCrashes = 0
  Nobody = nobody
SYMMETRY ProcSymmetry
INVARIANTS
  WritesToLogFile
CHECK_DEADLOCK FALSE
