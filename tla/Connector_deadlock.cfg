SPECIFICATION FairSpec
CONSTANTS
  Threads = {t1, t2}
  MaxLogs = 1
  MaxOutages = 1
  Closer = closer
  Nobody = nobody
PROPERTIES
  CloseAlwaysReturns
CHECK_DEADLOCK FALSE
