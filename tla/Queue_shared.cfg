SPECIFICATION FairSpec
CONSTANTS
  Producers = {p1, p2}
  Closers = {x1, x2}
  MaxLen = 2
  MaxPuts = 2
  Drains = {TRUE, FALSE}
  MayThrow = TRUE
INVARIANTS
  SemAccounting
  NoLostWakeup
  DrainComplete
PROPERTIES
  ImplementsChannel
  PutReturns
  ConsumerStops
CHECK_DEADLOCK FALSE
