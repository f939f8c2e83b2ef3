SPECIFICATION AllSpec
CONSTANTS
  Sizes = {1, 2}
  MaxTime = 4
  MaxEdits = 4
  Loggers = {l1, l2, l3}
  Root = root
  Existing = {l1}
  Configured = {root, l1, l3}
  NAppenders = 2
  Threads = {t1, t2}
  MaxLogs = 2
  MaxReloads = 2
  Reloader = reloader
  Nobody = nobody
INVARIANTS
  CurrentOrNoticed
  LockerTypeOK
  ReloadInstalled
  NoClosedAppender
PROPERTIES
  ConfigurationFollows
  Settles
  ReloadReturns
CHECK_DEADLOCK FALSE
