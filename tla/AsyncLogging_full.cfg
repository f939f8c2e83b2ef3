SPECIFICATION FairSpec
CONSTANTS
  Threads = {t1, t2}
  Workers = {w1}
  PoolLimit = 1
  SizeT = 8
  MaxLogs = 2
  MayThrow = FALSE
  Nobody = nobody
PROPERTIES
  ShutdownAlwaysReturns
CHECK_DEADLOCK FALSE
