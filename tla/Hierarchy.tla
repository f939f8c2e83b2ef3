------------------------------ MODULE Hierarchy ------------------------------
(***************************************************************************)
(* The logger tree: Hierarchy::getInstance creates loggers in any order    *)
(* and links them by parent pointers (src/hierarchy.cxx), while other      *)
(* threads log through the loggers they already hold and walk the same     *)
(* pointers without a lock (src/loggerimpl.cxx).                           *)
(*                                                                         *)
(* Creation runs under hashtable_mutex, so one creation is in progress at  *)
(* a time; it is split at every assignment to a parent pointer, because    *)
(* these are the points a concurrent walk can observe.                     *)
(***************************************************************************)
EXTENDS Integers

CONSTANTS
  Names,      \* names of loggers that may be created
  Anc,        \* Anc[n]: the name prefixes that updateParents visits for n
  Prefixes,   \* Prefixes[n]: the names that are proper string prefixes of n
  Root, Null, \* the root logger and the null pointer
  Threads,    \* threads that log
  Levels,     \* log levels
  DebugLevel, \* the level the root logger is constructed with
  Assigned,   \* Assigned[n]: the levels that clients assign to n
  Toggled,    \* the loggers whose additivity clients set
  Disabled    \* the values that clients pass to disable()

NOT_SET_LOG_LEVEL == -1
DISABLE_OFF == -1
DISABLE_OVERRIDE == -2

Nodes == Names \cup {Root}

(* The dotted prefixes of a name are linearly ordered by being prefixes    *)
(* of each other, and on them the string prefix relation is that order.    *)
ASSUME NameAssumption ==
  /\ Root \notin Names /\ Null \notin Names /\ Root # Null
  /\ Anc \in [Nodes -> SUBSET Names] /\ Anc[Root] = {}
  /\ Prefixes \in [Nodes -> SUBSET Names]
  /\ \A n \in Names : n \notin Anc[n]
  /\ \A n \in Names : \A m \in Anc[n] : Anc[m] \subseteq Anc[n]
  /\ \A n \in Names : \A a, b \in Anc[n] : a = b \/ a \in Anc[b] \/ b \in Anc[a]
  /\ \A n \in Names : \A a, b \in Anc[n] : a \in Prefixes[b] <=> a \in Anc[b]

ASSUME LevelAssumption ==
  /\ Levels \subseteq Nat
  /\ DebugLevel \in Levels
  /\ Assigned \in [Nodes -> SUBSET (Levels \cup {NOT_SET_LOG_LEVEL})]
  /\ Toggled \subseteq Nodes
  /\ Disabled \subseteq Levels \cup {DISABLE_OVERRIDE}

VARIABLES
  loggers,      \* loggerPtrs: the names in the map
  parent,       \* LoggerImpl::parent
  prov,         \* provisionNodes: the loggers waiting for each missing name
  making,       \* the logger being created under hashtable_mutex, or Null
  todo,         \* entries of its provision node that updateChildren has not done
  moving,       \* the entry between the two assignments of updateChildren
  ll,           \* LoggerImpl::ll
  additive,     \* LoggerImpl::additive
  disableValue, \* Hierarchy::disableValue
  pc,           \* where each thread is in LoggerImpl::log
  start,        \* the logger it was called on
  pos,          \* the walk's current logger, the variable c of the loops
  want,         \* the level of the event
  visited,      \* loggers whose appenders got the event
  due,          \* history: the loggers that had to get it when the call began
  expect        \* history: the chained level when the call began, or not set

treeVars == <<loggers, parent, prov, making, todo, moving>>
confVars == <<ll, additive, disableValue>>
walkVars == <<pc, start, pos, want, visited, due, expect>>
vars == <<loggers, parent, prov, making, todo, moving, ll, additive,
          disableValue, pc, start, pos, want, visited, due, expect>>

(* Loggers a client can hold: getInstance has returned them.               *)
Complete == loggers \ {making}
Handles == Complete \cup {Root}

(* p is the logger that the loop of updateParents stops at for n when the  *)
(* loggers of S are in the map, or the root when it finds none.            *)
Nearest(p, n, S) ==
  \/ p = Root /\ Anc[n] \cap S = {}
  \/ p \in Anc[n] \cap S /\ Anc[n] \cap S \subseteq Anc[p] \cup {p}

(* The level getChainedLogLevel finds from n when nothing changes.         *)
LevelSetters(n) ==
  {m \in (Anc[n] \cup {n}) \cap (loggers \cup {Root}) : ll[m] # NOT_SET_LOG_LEVEL}
Lowest(S, m) == S \subseteq Anc[m] \cup {m}
ChainedLevel(n) ==
  IF \E m \in LevelSetters(n) : Lowest(LevelSetters(n), m)
  THEN ll[CHOOSE m \in LevelSetters(n) : Lowest(LevelSetters(n), m)]
  ELSE ll[Root]

TypeOK ==
  /\ loggers \subseteq Names
  /\ parent \in [Nodes -> Nodes \cup {Null}]
  /\ prov \in [Names -> SUBSET Names]
  /\ making \in Names \cup {Null}
  /\ todo \subseteq Names
  /\ moving \in Names \cup {Null}
  /\ ll \in [Nodes -> Levels \cup {NOT_SET_LOG_LEVEL}]
  /\ additive \in [Nodes -> BOOLEAN]
  /\ disableValue \in Levels \cup {DISABLE_OFF, DISABLE_OVERRIDE}
  /\ pc \in [Threads -> {"idle", "level", "append", "threw"}]
  /\ start \in [Threads -> Nodes]
  /\ pos \in [Threads -> Nodes \cup {Null}]
  /\ \A t \in Threads : pc[t] \in {"level", "append"} => pos[t] # Null
  /\ want \in [Threads -> Levels]
  /\ visited \in [Threads -> SUBSET Nodes]
  /\ due \in [Threads -> SUBSET Nodes]
  /\ expect \in [Threads -> Levels \cup {NOT_SET_LOG_LEVEL}]

Init ==
  /\ loggers = {}
  /\ parent = [n \in Nodes |-> Null]
  /\ prov = [n \in Names |-> {}]
  /\ making = Null /\ todo = {} /\ moving = Null
  /\ ll = [n \in Nodes |-> IF n = Root THEN DebugLevel ELSE NOT_SET_LOG_LEVEL]
  /\ additive = [n \in Nodes |-> TRUE]
  /\ disableValue = DISABLE_OFF
  /\ pc = [t \in Threads |-> "idle"]
  /\ start = [t \in Threads |-> Root]
  /\ pos = [t \in Threads |-> Null]
  /\ want = [t \in Threads |-> DebugLevel]
  /\ visited = [t \in Threads |-> {}]
  /\ due = [t \in Threads |-> {}]
  /\ expect = [t \in Threads |-> NOT_SET_LOG_LEVEL]

-----------------------------------------------------------------------------
(* Creating a logger.                                                      *)

(* Faulty: no child ever counts as already linked below.                   *)
StartsWithNever(teststr, substr) == FALSE

StartsWith(teststr, substr) == substr \in Prefixes[teststr]

(* getInstanceImpl: the new LoggerImpl is inserted into the map.           *)
GetInstanceImpl(n) ==
  /\ making = Null
  /\ n \notin loggers
  /\ loggers' = loggers \cup {n}
  /\ making' = n
  /\ todo' = prov[n]
  /\ UNCHANGED <<parent, prov, moving>>
  /\ UNCHANGED confVars /\ UNCHANGED walkVars

(* updateChildren, an entry c already linked below the new logger.         *)
SkipChild(c) ==
  /\ making # Null /\ moving = Null /\ c \in todo
  /\ StartsWith(parent[c], making)
  /\ todo' = todo \ {c}
  /\ UNCHANGED <<loggers, parent, prov, making, moving>>
  /\ UNCHANGED confVars /\ UNCHANGED walkVars

(* Faulty: the child is linked to the new logger before the new logger is  *)
(* linked to anything.                                                     *)
LinkAboveChildLate(c) ==
  /\ making # Null /\ moving = Null /\ c \in todo
  /\ ~StartsWith(parent[c], making)
  /\ parent' = [parent EXCEPT ![c] = making]
  /\ moving' = c
  /\ UNCHANGED <<loggers, prov, making, todo>>
  /\ UNCHANGED confVars /\ UNCHANGED walkVars

(* Faulty: the new logger is linked to the root for the time being.        *)
LinkAboveChildRoot(c) ==
  /\ making # Null /\ moving = Null /\ c \in todo
  /\ ~StartsWith(parent[c], making)
  /\ parent' = [parent EXCEPT ![making] = Root]
  /\ moving' = c
  /\ UNCHANGED <<loggers, prov, making, todo>>
  /\ UNCHANGED confVars /\ UNCHANGED walkVars

(* updateChildren: logger.parent = c.parent ...                            *)
LinkAboveChild(c) ==
  /\ making # Null /\ moving = Null /\ c \in todo
  /\ ~StartsWith(parent[c], making)
  /\ parent' = [parent EXCEPT ![making] = parent[c]]
  /\ moving' = c
  /\ UNCHANGED <<loggers, prov, making, todo>>
  /\ UNCHANGED confVars /\ UNCHANGED walkVars

(* ... and then c.parent = logger.                                         *)
RelinkChild ==
  /\ moving # Null
  /\ parent' = [parent EXCEPT ![moving] = making]
  /\ todo' = todo \ {moving}
  /\ moving' = Null
  /\ UNCHANGED <<loggers, prov, making>>
  /\ UNCHANGED confVars /\ UNCHANGED walkVars

(* Faulty: a logger is not added to a provision node that already exists.  *)
UpdateParentsFirstOnly(p) ==
  /\ making # Null /\ moving = Null /\ todo = {}
  /\ Nearest(p, making, Complete)
  /\ parent' = [parent EXCEPT ![making] = p]
  /\ prov' = [m \in Names |->
       IF m = making THEN {}
       ELSE IF m \in Anc[making] \ (Anc[p] \cup {p}) /\ prov[m] = {} THEN {making}
       ELSE prov[m]]
  /\ making' = Null
  /\ UNCHANGED <<loggers, todo, moving>>
  /\ UNCHANGED confVars /\ UNCHANGED walkVars

(* The provision node is erased, then updateParents: the logger enters the *)
(* provision node of every prefix below its nearest existing ancestor p.   *)
UpdateParents(p) ==
  /\ making # Null /\ moving = Null /\ todo = {}
  /\ Nearest(p, making, Complete)
  /\ parent' = [parent EXCEPT ![making] = p]
  /\ prov' = [m \in Names |->
       IF m = making THEN {}
       ELSE IF m \in Anc[making] \ (Anc[p] \cup {p}) THEN prov[m] \cup {making}
       ELSE prov[m]]
  /\ making' = Null
  /\ UNCHANGED <<loggers, todo, moving>>
  /\ UNCHANGED confVars /\ UNCHANGED walkVars

-----------------------------------------------------------------------------
(* Configuring a logger.  LoggerImpl::setLogLevel is not virtual: the call *)
(* of Logger::setLogLevel stores whatever it is given, in the root too.    *)

SetLogLevel(n, l) ==
  /\ n \in Handles
  /\ ll' = [ll EXCEPT ![n] = l]
  /\ expect' = [t \in Threads |->
       IF n \in Anc[start[t]] \cup {start[t], Root} THEN NOT_SET_LOG_LEVEL
       ELSE expect[t]]
  /\ UNCHANGED <<additive, disableValue, pc, start, pos, want, visited, due>>
  /\ UNCHANGED treeVars

SetAdditivity(n, b) ==
  /\ n \in Handles
  /\ additive' = [additive EXCEPT ![n] = b]
  /\ UNCHANGED <<ll, disableValue>> /\ UNCHANGED treeVars /\ UNCHANGED walkVars

(* disable(), disableAll(), disableDebug(), disableInfo().                 *)
Disable(l) ==
  /\ disableValue # DISABLE_OVERRIDE
  /\ disableValue' = l
  /\ UNCHANGED <<ll, additive>> /\ UNCHANGED treeVars /\ UNCHANGED walkVars

EnableAll ==
  /\ disableValue' = DISABLE_OFF
  /\ UNCHANGED <<ll, additive>> /\ UNCHANGED treeVars /\ UNCHANGED walkVars

-----------------------------------------------------------------------------
(* Logging: LoggerImpl::log on logger n with an event of level l.          *)

IsEnabledFor(t, n, l) ==
  /\ pc[t] = "idle"
  /\ n \in Handles
  /\ disableValue < l
  /\ pc' = [pc EXCEPT ![t] = "level"]
  /\ start' = [start EXCEPT ![t] = n]
  /\ pos' = [pos EXCEPT ![t] = n]
  /\ want' = [want EXCEPT ![t] = l]
  /\ visited' = [visited EXCEPT ![t] = {}]
  /\ due' = [due EXCEPT ![t] = (Anc[n] \cap Complete) \cup {n, Root}]
  /\ expect' = [expect EXCEPT ![t] = ChainedLevel(n)]
  /\ UNCHANGED treeVars /\ UNCHANGED confVars

(* getChainedLogLevel found a level, or was called on the root, whose      *)
(* override returns ll as it is; log() goes on to forcedLog or returns.    *)
LevelFound(t) ==
  /\ pc[t] = "level"
  /\ ll[pos[t]] # NOT_SET_LOG_LEVEL \/ start[t] = Root
  /\ IF want[t] >= ll[pos[t]]
     THEN pc' = [pc EXCEPT ![t] = "append"] /\ pos' = [pos EXCEPT ![t] = start[t]]
     ELSE pc' = [pc EXCEPT ![t] = "idle"] /\ pos' = [pos EXCEPT ![t] = Null]
  /\ UNCHANGED <<start, want, visited, due, expect>>
  /\ UNCHANGED treeVars /\ UNCHANGED confVars

(* getChainedLogLevel goes up, and throws when the chain has ended.        *)
LevelUp(t) ==
  /\ pc[t] = "level"
  /\ ll[pos[t]] = NOT_SET_LOG_LEVEL /\ start[t] # Root
  /\ pos' = [pos EXCEPT ![t] = parent[pos[t]]]
  /\ pc' = [pc EXCEPT ![t] = IF parent[pos[t]] = Null THEN "threw" ELSE "level"]
  /\ UNCHANGED <<start, want, visited, due, expect>>
  /\ UNCHANGED treeVars /\ UNCHANGED confVars

(* The exception has left log().                                           *)
Rethrown(t) ==
  /\ pc[t] = "threw"
  /\ pc' = [pc EXCEPT ![t] = "idle"]
  /\ UNCHANGED <<start, pos, want, visited, due, expect>>
  /\ UNCHANGED treeVars /\ UNCHANGED confVars

(* callAppenders: one turn of the loop.                                    *)
CallAppenders(t) ==
  LET c == pos[t]
      next == IF additive[c] THEN parent[c] ELSE Null
  IN  /\ pc[t] = "append"
      /\ visited' = [visited EXCEPT ![t] = @ \cup {c}]
      /\ pos' = [pos EXCEPT ![t] = next]
      /\ pc' = [pc EXCEPT ![t] = IF next = Null THEN "idle" ELSE "append"]
      /\ UNCHANGED <<start, want, due, expect>>
      /\ UNCHANGED treeVars /\ UNCHANGED confVars

-----------------------------------------------------------------------------
Create ==
  \/ \E n \in Names : GetInstanceImpl(n) \/ SkipChild(n) \/ LinkAboveChild(n)
  \/ RelinkChild
  \/ \E p \in Nodes : UpdateParents(p)

Configure ==
  \/ \E n \in Nodes : \E l \in Assigned[n] : SetLogLevel(n, l)
  \/ \E n \in Toggled, b \in BOOLEAN : SetAdditivity(n, b)
  \/ \E l \in Disabled : Disable(l)
  \/ EnableAll

Log(t) ==
  \/ \E n \in Nodes, l \in Levels : IsEnabledFor(t, n, l)
  \/ LevelFound(t) \/ LevelUp(t) \/ Rethrown(t) \/ CallAppenders(t)

Next == Create \/ Configure \/ \E t \in Threads : Log(t)

Spec == Init /\ [][Next]_vars

(* A thread inside log() is not blocked by anything in this module.        *)
Fairness == \A t \in Threads :
  WF_vars(LevelFound(t) \/ LevelUp(t) \/ Rethrown(t) \/ CallAppenders(t))
FairSpec == Spec /\ Fairness

-----------------------------------------------------------------------------
(* Between creations every logger's parent is its nearest existing         *)
(* ancestor, in whatever order the loggers were created: updateParents and *)
(* updateChildren together keep the tree that the names describe.          *)
NearestParent ==
  making = Null => \A n \in loggers : Nearest(parent[n], n, loggers)

(* No thread runs off the end of a chain while it looks for its level:     *)
(* getChainedLogLevel throws only when it has reached the root and the     *)
(* root has no level, even in the middle of updateChildren's pair of       *)
(* assignments.                                                            *)
LevelAlwaysFound ==
  [][\A t \in Threads :
       pc[t] = "level" /\ pc'[t] = "threw"
       => pos[t] = Root /\ ll[Root] = NOT_SET_LOG_LEVEL]_vars

(* Creating loggers is invisible to logging decisions: log() decides as    *)
(* the tree stood when it was called, unless a level on its own chain was  *)
(* assigned meanwhile.                                                     *)
DecisionUnaffectedByCreation ==
  [][\A t \in Threads :
       /\ pc[t] = "level" /\ pc'[t] \in {"append", "idle"}
       /\ expect[t] # NOT_SET_LOG_LEVEL
       => (pc'[t] = "append" <=> want[t] >= expect[t])]_vars

(* callAppenders that ends at a null parent has offered the event to every *)
(* ancestor that existed when log() was called, the root included, however *)
(* the tree was relinked under the walk.                                   *)
EveryAncestorAppends ==
  [][\A t \in Threads :
       /\ pc[t] = "append" /\ pc'[t] = "idle" /\ additive[pos[t]]
       => due[t] \subseteq visited'[t]]_vars

(* One call of log() never offers the event to the same logger twice.      *)
NoDoubleAppend ==
  \A t \in Threads : pc[t] = "append" => pos[t] \notin visited[t]

(* Every call of log() returns: relinking cannot keep a walk going round.  *)
LogReturns == \A t \in Threads : pc[t] # "idle" ~> pc[t] = "idle"

=============================================================================
