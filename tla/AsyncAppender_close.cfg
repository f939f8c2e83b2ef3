SPECIFICATION AsyncSpec
CONSTANTS
  Producers = {p1}
  Closers = {x1}
  MaxLen = 1
  MaxPuts = 1
  Drains = {TRUE}
  MayThrow = FALSE
  Nobody = nobody
  FailPoints = {}
INVARIANTS
  CloseIsSafe
CHECK_DEADLOCK FALSE
