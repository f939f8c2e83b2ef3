--------------------------- MODULE HierarchyLocker ---------------------------
(***************************************************************************)
(* Reconfiguration of a live hierarchy: HierarchyLocker                    *)
(* (src/hierarchylocker.cxx) and the part of PropertyConfigurator          *)
(* (src/configurator.cxx) that the watching thread runs under it, while    *)
(* other threads log, create loggers and add appenders to them.            *)
(*                                                                         *)
(* A logging thread visits its logger and then the root logger and holds   *)
(* the appender_list_mutex of one of them at a time.  The locker holds     *)
(* hashtable_mutex and the mutex of every logger but the root.  All of     *)
(* these mutexes are recursive.  Appenders are pairs of the configuration  *)
(* in force when they were created and a number; the last number is that   *)
(* of an appender an application adds by itself.  Levels, additivity and   *)
(* the disable value, which a reset sets as well, are Hierarchy's.         *)
(***************************************************************************)
EXTENDS Naturals, FiniteSets

CONSTANTS
  Loggers,     \* names of loggers, without the root logger
  Root,        \* the root logger
  Existing,    \* the loggers that exist at the start
  Configured,  \* the loggers every configuration names
  NAppenders,  \* number of appenders it gives each of them
  Threads,     \* threads that log
  MaxLogs,     \* bound on what each of them does
  MaxReloads,  \* bound on the reconfigurations
  Reloader,    \* the watching thread
  Nobody       \* holder of a free mutex

ASSUME HierarchyLockerAssumption ==
  /\ Root \notin Loggers /\ Existing \subseteq Loggers
  /\ Configured \subseteq Loggers \union {Root}
  /\ NAppenders \in Nat /\ MaxLogs \in Nat /\ MaxReloads \in Nat
  /\ Reloader \notin Threads /\ Nobody \notin Threads /\ Nobody # Reloader

VARIABLES
  loggerPtrs,  \* Hierarchy::loggerPtrs
  table,       \* holder of hashtable_mutex
  owner,       \* holder of each logger's appender_list_mutex
  list,        \* the appenders of each logger
  closed,      \* the closed appenders
  gen,         \* number of configurations read
  kpc,         \* where the watching thread is
  loggerList,  \* HierarchyLocker::loggerList
  held,        \* the loggers its constructor has locked
  todo, cur,   \* the loggers left to configure, and the one in hand
  next,        \* number of its next appender
  tpc, at,     \* where each thread is, and with which logger
  count        \* number of operations of each thread

lockerVars == <<closed, gen, kpc, loggerList, held, todo, cur, next>>
threadVars == <<tpc, at, count>>
lkVars == <<loggerPtrs, table, owner, list, closed, gen, kpc, loggerList, held, todo, cur, next,
          tpc, at, count>>

All == Loggers \union {Root}
Appenders == (0..MaxReloads) \X (1..(NAppenders + 1))

(* The state is well-formed; a thread inside a logger holds its mutex, and *)
(* the locker holds what it has locked unless it is adding an appender.    *)
LockerTypeOK ==
  /\ loggerPtrs \subseteq Loggers /\ table \in {Reloader, Nobody}
  /\ owner \in [All -> Threads \union {Reloader, Nobody}]
  /\ list \in [All -> SUBSET Appenders] /\ closed \subseteq Appenders
  /\ gen \in 0..MaxReloads
  /\ kpc \in {"idle", "lock", "removeRoot", "reset", "configure", "add", "adding",
              "relock", "unlock"}
  /\ held \subseteq loggerList /\ loggerList \subseteq loggerPtrs
  /\ todo \subseteq Configured /\ cur \in All /\ next \in 1..(NAppenders + 1)
  /\ tpc \in [Threads -> {"idle", "enter", "in"}] /\ at \in [Threads -> All]
  /\ count \in [Threads -> 0..MaxLogs]
  /\ \A t \in Threads : tpc[t] = "in" => owner[at[t]] = t
  /\ \A l \in held : owner[l] # Reloader => kpc \in {"adding", "relock"} /\ l = cur

(* Before the first reload every logger has an appender of the first       *)
(* configuration.                                                          *)
LockerInit ==
  /\ loggerPtrs = Existing /\ table = Nobody
  /\ owner = [l \in All |-> Nobody]
  /\ list = [l \in All |-> {<<0, 1>>}] /\ closed = {}
  /\ gen = 0 /\ kpc = "idle"
  /\ loggerList = {} /\ held = {} /\ todo = {} /\ cur = Root /\ next = 1
  /\ tpc = [t \in Threads |-> "idle"] /\ at = [t \in Threads |-> Root]
  /\ count = [t \in Threads |-> 0]

-----------------------------------------------------------------------------
(* HierarchyLocker's constructor.                                          *)

LockTable ==
  /\ kpc = "idle" /\ gen < MaxReloads /\ table = Nobody
  /\ table' = Reloader
  /\ loggerList' = loggerPtrs /\ held' = {}
  /\ kpc' = "lock"
  /\ UNCHANGED <<loggerPtrs, owner, list, closed, gen, todo, cur, next>> /\ UNCHANGED threadVars

LockLogger(l) ==
  /\ kpc = "lock" /\ l \in loggerList \ held /\ owner[l] = Nobody
  /\ owner' = [owner EXCEPT ![l] = Reloader]
  /\ held' = held \union {l}
  /\ UNCHANGED <<loggerPtrs, table, list, closed, gen, kpc, loggerList, todo, cur, next>>
  /\ UNCHANGED threadVars

-----------------------------------------------------------------------------
(* HierarchyLocker::resetConfiguration.                                    *)

(* Faulty: does not wait until every logger is locked.                     *)
CloseRootEarly ==
  /\ kpc = "lock" /\ owner[Root] = Nobody
  /\ closed' = closed \union list[Root]
  /\ kpc' = "removeRoot"
  /\ UNCHANGED <<loggerPtrs, table, owner, list, gen, loggerList, held, todo, cur, next>>
  /\ UNCHANGED threadVars

(* closeNestedAppenders of the root copies its list under the mutex and    *)
(* closes the appenders without it.                                        *)
CloseRoot ==
  /\ kpc = "lock" /\ held = loggerList /\ owner[Root] = Nobody
  /\ closed' = closed \union list[Root]
  /\ kpc' = "removeRoot"
  /\ UNCHANGED <<loggerPtrs, table, owner, list, gen, loggerList, held, todo, cur, next>>
  /\ UNCHANGED threadVars

RemoveRoot ==
  /\ kpc = "removeRoot" /\ owner[Root] = Nobody
  /\ list' = [list EXCEPT ![Root] = {}]
  /\ kpc' = "reset"
  /\ UNCHANGED <<loggerPtrs, table, owner, closed, gen, loggerList, held, todo, cur, next>>
  /\ UNCHANGED threadVars

(* The loggers in loggerList, all of them locked; then reconfigure() reads *)
(* the file and configureAppenders creates its appenders.                  *)
ResetLoggers ==
  /\ kpc = "reset"
  /\ closed' = closed \union UNION {list[l] : l \in loggerList}
  /\ list' = [l \in All |-> IF l \in loggerList THEN {} ELSE list[l]]
  /\ gen' = gen + 1 /\ todo' = Configured
  /\ kpc' = "configure"
  /\ UNCHANGED <<loggerPtrs, table, owner, loggerList, held, cur, next>> /\ UNCHANGED threadVars

-----------------------------------------------------------------------------
(* PropertyConfigurator::configureLoggers, the root logger first; the      *)
(* other loggers come from HierarchyLocker::getInstance.                   *)

ConfigureLogger(l) ==
  /\ kpc = "configure" /\ l \in todo
  /\ Root \in todo => l = Root
  /\ owner[l] \in {Nobody, Reloader}
  /\ loggerPtrs' = loggerPtrs \union ({l} \ {Root})
  /\ list' = [list EXCEPT ![l] = {}]
  /\ cur' = l /\ next' = 1
  /\ kpc' = "add"
  /\ UNCHANGED <<table, owner, closed, gen, loggerList, held, todo>> /\ UNCHANGED threadVars

(* HierarchyLocker::addAppender unlocks a logger of its list ...           *)
AddAppender ==
  /\ kpc = "add" /\ next <= NAppenders
  /\ owner' = IF cur \in loggerList THEN [owner EXCEPT ![cur] = Nobody] ELSE owner
  /\ kpc' = "adding"
  /\ UNCHANGED <<loggerPtrs, table, list, closed, gen, loggerList, held, todo, cur, next>>
  /\ UNCHANGED threadVars

(* ... adds the appender, under the mutex the thread itself takes ...      *)
Adding ==
  /\ kpc = "adding" /\ owner[cur] = Nobody
  /\ list' = [list EXCEPT ![cur] = @ \union {<<gen, next>>}]
  /\ next' = next + 1
  /\ kpc' = IF cur \in loggerList THEN "relock" ELSE "add"
  /\ UNCHANGED <<loggerPtrs, table, owner, closed, gen, loggerList, held, todo, cur>>
  /\ UNCHANGED threadVars

(* Faulty: does not lock the logger again.                                 *)
RelockNot ==
  /\ kpc = "relock" /\ owner[cur] = Nobody
  /\ kpc' = "add"
  /\ UNCHANGED <<loggerPtrs, table, owner, list, closed, gen, loggerList, held, todo, cur, next>>
  /\ UNCHANGED threadVars

(* ... and locks it again.                                                 *)
Relock ==
  /\ kpc = "relock" /\ owner[cur] = Nobody
  /\ owner' = [owner EXCEPT ![cur] = Reloader]
  /\ kpc' = "add"
  /\ UNCHANGED <<loggerPtrs, table, list, closed, gen, loggerList, held, todo, cur, next>>
  /\ UNCHANGED threadVars

LoggerDone ==
  /\ kpc = "add" /\ next > NAppenders
  /\ todo' = todo \ {cur}
  /\ kpc' = "configure"
  /\ UNCHANGED <<loggerPtrs, table, owner, list, closed, gen, loggerList, held, cur, next>>
  /\ UNCHANGED threadVars

-----------------------------------------------------------------------------
(* HierarchyLocker's destructor.                                           *)

UnlockLoggers ==
  /\ kpc = "configure" /\ todo = {}
  /\ owner' = [l \in All |-> IF l \in held THEN Nobody ELSE owner[l]]
  /\ held' = {}
  /\ kpc' = "unlock"
  /\ UNCHANGED <<loggerPtrs, table, list, closed, gen, loggerList, todo, cur, next>>
  /\ UNCHANGED threadVars

UnlockTable ==
  /\ kpc = "unlock"
  /\ table' = Nobody /\ loggerList' = {}
  /\ kpc' = "idle"
  /\ UNCHANGED <<loggerPtrs, owner, list, closed, gen, held, todo, cur, next>> /\ UNCHANGED threadVars

-----------------------------------------------------------------------------
(* The other threads: LoggerImpl::callAppenders, Hierarchy::getInstance    *)
(* and Logger::addAppender.                                                *)

Log(t, l) ==
  /\ tpc[t] = "idle" /\ count[t] < MaxLogs /\ l \in loggerPtrs \union {Root}
  /\ tpc' = [tpc EXCEPT ![t] = "enter"]
  /\ at' = [at EXCEPT ![t] = l]
  /\ count' = [count EXCEPT ![t] = @ + 1]
  /\ UNCHANGED <<loggerPtrs, table, owner, list>> /\ UNCHANGED lockerVars

Enter(t) ==
  /\ tpc[t] = "enter" /\ owner[at[t]] = Nobody
  /\ owner' = [owner EXCEPT ![at[t]] = t]
  /\ tpc' = [tpc EXCEPT ![t] = "in"]
  /\ UNCHANGED <<loggerPtrs, table, list, at, count>> /\ UNCHANGED lockerVars

(* Faulty: keeps the logger's mutex on the way to its parent.              *)
LeaveLocked(t) ==
  /\ tpc[t] = "in"
  /\ UNCHANGED owner
  /\ tpc' = [tpc EXCEPT ![t] = IF at[t] = Root THEN "idle" ELSE "enter"]
  /\ at' = [at EXCEPT ![t] = Root]
  /\ UNCHANGED <<loggerPtrs, table, list, count>> /\ UNCHANGED lockerVars

(* The appenders in the list have been called; on to the parent.           *)
Leave(t) ==
  /\ tpc[t] = "in"
  /\ owner' = [owner EXCEPT ![at[t]] = Nobody]
  /\ tpc' = [tpc EXCEPT ![t] = IF at[t] = Root THEN "idle" ELSE "enter"]
  /\ at' = [at EXCEPT ![t] = Root]
  /\ UNCHANGED <<loggerPtrs, table, list, count>> /\ UNCHANGED lockerVars

(* Faulty: creates a logger without hashtable_mutex.                       *)
GetInstanceUnlocked(t, l) ==
  /\ tpc[t] = "idle" /\ count[t] < MaxLogs /\ l \in Loggers \ loggerPtrs
  /\ loggerPtrs' = loggerPtrs \union {l}
  /\ list' = [list EXCEPT ![l] = {}]
  /\ count' = [count EXCEPT ![t] = @ + 1]
  /\ UNCHANGED <<table, owner, tpc, at>> /\ UNCHANGED lockerVars

(* A logger that is created has no appenders.                              *)
GetInstance(t, l) ==
  /\ tpc[t] = "idle" /\ count[t] < MaxLogs /\ l \in Loggers \ loggerPtrs /\ table = Nobody
  /\ loggerPtrs' = loggerPtrs \union {l}
  /\ list' = [list EXCEPT ![l] = {}]
  /\ count' = [count EXCEPT ![t] = @ + 1]
  /\ UNCHANGED <<table, owner, tpc, at>> /\ UNCHANGED lockerVars

(* The appender an application adds to a logger while configuration g is   *)
(* in force.                                                               *)
OwnAppender(g) == <<g, NAppenders + 1>>

AddOwnAppender(t, l) ==
  /\ tpc[t] = "idle" /\ count[t] < MaxLogs
  /\ l \in loggerPtrs \union {Root} /\ owner[l] = Nobody
  /\ list' = [list EXCEPT ![l] = @ \union {OwnAppender(gen)}]
  /\ count' = [count EXCEPT ![t] = @ + 1]
  /\ UNCHANGED <<loggerPtrs, table, owner, tpc, at>> /\ UNCHANGED lockerVars

-----------------------------------------------------------------------------
Reload ==
  \/ \E l \in Loggers : LockLogger(l)
  \/ CloseRoot \/ RemoveRoot \/ ResetLoggers
  \/ \E l \in All : ConfigureLogger(l)
  \/ AddAppender \/ Adding \/ Relock \/ LoggerDone
  \/ UnlockLoggers \/ UnlockTable
Logging(t) == Enter(t) \/ Leave(t)

LockerNext ==
  \/ LockTable \/ Reload
  \/ \E t \in Threads :
       Logging(t) \/ \E l \in All : Log(t, l) \/ GetInstance(t, l) \/ AddOwnAppender(t, l)

LockerSpec == LockerInit /\ [][LockerNext]_lkVars

(* A reconfiguration under way and a thread inside log() go on.            *)
LockerFairSpec == LockerSpec /\ WF_lkVars(Reload) /\ \A t \in Threads : WF_lkVars(Logging(t))

-----------------------------------------------------------------------------
(* After a reconfiguration every logger has the appenders the new          *)
(* configuration gives it, and none that an earlier configuration gave it  *)
(* or an application added before: no logger escapes the reset, also not   *)
(* one that another thread created just before (hierarchylocker.cxx:41,    *)
(* :75, configurator.cxx:310).                                             *)
ReloadInstalled ==
  kpc = "idle" /\ gen > 0 =>
    \A l \in loggerPtrs \union {Root} :
      list[l] \ {OwnAppender(gen)} =
        IF l \in Configured THEN {gen} \X (1..NAppenders) ELSE {}

(* A thread that gets at the list of a logger below the root finds no      *)
(* appender there that the reconfiguration has closed                      *)
(* (hierarchylocker.cxx:48, :86).                                          *)
NoClosedAppender ==
  \A t \in Threads : tpc[t] = "in" /\ at[t] # Root => list[at[t]] \cap closed = {}

(* A reconfiguration that has begun ends (configurator.cxx:552).           *)
ReloadReturns == kpc # "idle" ~> kpc = "idle"

=============================================================================
