SPECIFICATION AsyncFairSpec
CONSTANTS
  Producers = {p1, p2}
  Closers = {x1}
  MaxLen = 1
  MaxPuts = 2
  Drains = {TRUE}
  MayThrow = TRUE
  Nobody = nobody
  FailPoints = {"sem", "signal"}
INVARIANTS
  AsyncTypeOK
  DeliveredInOrder
  CloseFlushes
PROPERTIES
  AppendReturns
CHECK_DEADLOCK FALSE
