SPECIFICATION Spec
CONSTANTS
  Names <- RNames
  Anc <- RAnc
  Prefixes <- RPrefixes
  Root = Root
  Null = Null
  Threads = {t1}
  Levels = {1}
  DebugLevel = 1
  Assigned <- NoneAssigned
  Toggled = {}
  Disabled = {}
INVARIANTS
  NearestParent
CHECK_DEADLOCK FALSE
