SPECIFICATION FairSpec
CONSTANTS
  Names <- TreeNames
  Anc <- TreeAnc
  Prefixes <- TreeAnc
  Root = Root
  Null = Null
  Threads = {t1}
  Levels = {1, 2}
  DebugLevel = 1
  Assigned <- SomeAssigned
  Toggled = {"a"}
  Disabled <- SomeDisabled
INVARIANTS
  NearestParent
  NoDoubleAppend
PROPERTIES
  LevelAlwaysFound
  DecisionUnaffectedByCreation
  EveryAncestorAppends
  LogReturns
CHECK_DEADLOCK FALSE
