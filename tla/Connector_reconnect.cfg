SPECIFICATION FairSpec
CONSTANTS
  Threads = {t1, t2}
  MaxLogs = 2
  MaxOutages = 2
  Closer = closer
  Nobody = nobody
INVARIANTS
  DisconnectedIsClosed
  TriggerKept
  ClosedForGood
  WriteOwnsDescriptor
PROPERTIES
  Reconnects
  CloseReturns
CHECK_DEADLOCK FALSE
