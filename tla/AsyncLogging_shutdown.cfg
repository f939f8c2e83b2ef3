SPECIFICATION FairSpec
CONSTANTS
  Threads = {t1}
  Workers = {w1, w2}
  PoolLimit = 1
  SizeT = 4
  MaxLogs = 3
  MayThrow = TRUE
  Nobody = nobody
INVARIANTS
  TypeOK
  InFlightExact
  LoggedBeforeIsAppended
  EarlyIsAppended
PROPERTIES
  ShutdownReturns
CHECK_DEADLOCK FALSE
