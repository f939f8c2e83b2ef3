# TLA+ verification of log4cplus

log4cplus is a logging library. A program asks a *hierarchy* for named
*loggers*; an event logged through a logger is offered to the *appenders* of the
logger and of its ancestors, which write it to files, sockets, syslog, another
thread or a thread pool. Loggers, appenders and configuration are shared by all
threads of the program, some appenders have threads of their own, and rolling
log files may be shared by several processes. That concurrency is what this
project is about.

The modules are translated from the sources under `src/`; paths below are
relative to the repository unless they start with `src/`. `PROJECT.json` maps
every definition to the lines it models.

## Parts of the system

| Part | Sources | Module | State |
|---|---|---|---|
| Logger tree | `hierarchy.cxx`, `loggerimpl.cxx` | `Hierarchy` | partly modelled, proved |
| Locking and reconfiguring the tree | `hierarchylocker.cxx`, `configurator.cxx`, `appenderattachableimpl.cxx` | `HierarchyLocker` | partly modelled |
| Watching the properties file | `configurator.cxx`, `fileinfo.cxx` | `ConfigWatch` | modelled, proved |
| Event queue | `queue.cxx`, `syncprims-pub-impl.h` | `Queue`, `EventChannel` | modelled, proved |
| AsyncAppender | `asyncappender.cxx`, `threads.cxx` | `AsyncAppender` (over `Queue`) | modelled |
| Asynchronous appending on the thread pool, shutdown | `appender.cxx`, `global-init.cxx`, `hierarchy.cxx` | `AsyncLogging` | modelled |
| Connector thread, socket and syslog appenders | `connectorthread.cxx`, `socketappender.cxx`, `syslogappender.cxx`, `socket.cxx` | `Connector` | partly modelled, proved |
| Rolling file appender, lock file | `fileappender.cxx`, `lockfile.cxx` | `RollingFile` | partly modelled |
| Daily and time-based rolling | `fileappender.cxx` | | planned |
| Initialisation and termination | `global-init.cxx` | | planned |
| Per-thread data, NDC, MDC | `global-init.cxx`, `ndc.cxx`, `mdc.cxx` | | planned |
| Server sockets, sample server | `socket-unix.cxx`, `simpleserver/` | | planned |
| Event encoding, property substitution, filters, log levels, pattern parser | `socketbuffer.cxx`, `property.cxx`, `filter.cxx`, `loglevel.cxx`, `patternlayout.cxx` | | planned, as pure algorithms |
| Internal logging, error handlers, clock gate | `loglog.cxx`, `appender.cxx`, `eventcounter.cxx` | | planned |
| Console, callback, null, UDP, Windows and Qt appenders, C interface, string and time helpers | | | not modelled: output or conversion without state of its own |

How they interact: `Hierarchy` gives the walk over loggers that `callAppenders`
makes; `HierarchyLocker` has the appender lists that walk meets and the locks
around them, and is what `ConfigWatch` runs in its step `ResetConfiguration`
to `Configure`; `AsyncAppender` extends `Queue`; `AsyncLogging` is the path of an
event through `doAppend` when `AsyncAppend=true`, together with
`Hierarchy::shutdown`; `Connector` and `RollingFile` are the inside of `append()`
for two families of appenders.

## The modules

**Hierarchy.** `getInstanceImpl` runs under `hashtable_mutex`, but threads that
log walk the parent pointers without it. Creation is therefore one action per
assignment to a parent pointer (`GetInstanceImpl`, `SkipChild`, `LinkAboveChild`,
`RelinkChild`, `UpdateParents`) and the walks are one action per logger visited
(`LevelUp`, `LevelFound`, `CallAppenders`). Names are model values with two
relations: `Anc`, the dotted prefixes `updateParents` visits, and `Prefixes`, the
string prefixes `startsWith` tests, which are not the same thing.
Provision nodes are the function `prov`. `SetLogLevel` stores what it is given, in
the root as well, because `LoggerImpl::setLogLevel` is not virtual. `due` and
`expect` are history variables: what a call of `log()` owed when it began.

**HierarchyLocker.** A reload takes `hashtable_mutex` and the mutex of every logger
but the root, closes and removes the appenders, and gives each configured logger
its new ones, while threads log, create loggers and add appenders of their own to them
(`AddOwnAppender`). `AddAppender`, `Adding` and `Relock` are the three steps of
`HierarchyLocker::addAppender`, which lets go of the logger's mutex in the middle. The
levels, the additivity and the disable value that a reset also sets are not in this
module.

**ConfigWatch.** The constructor and the loop of `ConfigurationWatchDogThread`, step
by step, beside an environment that writes the file, moves it away and back while a
clock ticks. A write gives the file any size and any time up to the present one, so it may
come a second time within a second, or carry an older time. A configuration is its
number. `missed` is a history variable: the last change fell after the file was read and
before its time and size were recorded, or it left the recorded size and a time that is
not later than the recorded one (`Hidden`). The code cannot see either.

**Queue, EventChannel.** Each section under `Queue::mutex` is one action; what lies
outside it (the semaphore, signalling, resetting and waiting on `ev_consumer`) are
actions of their own. `EventChannel` is what queue and consumer promise together;
`ImplementsChannel` instantiates it with the queue and the batch in delivery as
pending events.

**AsyncAppender.** `append()` under `access_mutex` with its three outcomes (queued,
delivered directly, the error path that stops the thread and falls back), `close()`
without a lock, and the end of the queue thread. `put_event` may fail before or after
it stored the event (`FailPoints`), an attached appender may throw (`MayThrow`).
`close()` may run beside `append()` and release the queue and the thread that `append()`
is about to use. What happens then is undefined, so the modelled behaviour ends in such a
state (`Undefined`); `AsyncAppender_close` shows that it is reached, and the other
properties are about all behaviour up to it.

**AsyncLogging.** `doAppend` counts an event in `in_flight` and enqueues it; the pool
(`progschj::ThreadPool`, not in the repository) is a bounded queue of tasks with
workers and futures. `in_flight` is a `size_t` of `SizeT` values, so that it wraps.
`blockOnFull` is fixed at the start to either value of `threadPoolBlockOnFull`.
`Shutdown` to `RemoveAllAppenders` are `Hierarchy::shutdown`. `appended`, `threw`,
`refused`, `dropped` and `twice` record what became of each event.

**Connector.** `ConnectorThread::run` (`Woken` to `Install`), the two appenders'
`append()`, and both forms of `close()`: `closeLocks`, fixed at the start, tells
SysLogAppender's, which holds `access_mutex` throughout, from SocketAppender's, which
takes no lock. The server fails and returns; a write is split into taking the
descriptor and using it. `families` are the address families in which the host can be
reached: the constructor asks for the one its `IPv6` property names, `ctcConnect` always
for IPv4.

**RollingFile.** Several processes with `UseLockFile=true`. Files are inodes with
names; a stream stays with its inode when the name is moved. `append()` and
`rollover(true)` are one action per system call, so a process can die between any
two of them. Opening and renaming may fail. A process that starts may have `Append=false`
and empty the file; with the `LockFile` property it does so without the lock, possibly in
the middle of a rollover of another process, which `midway` records.

**MCReconfigure** puts `ConfigWatch` and `HierarchyLocker` into one instance. They share no
variable, so `part` chooses at the start which of the two takes the steps. The other MC
modules add a symmetry set, or nothing.

## Runs

Each component's module is in one run that must pass, with its safety and liveness
properties (`RollingFile`: safety only; `EventChannel` is checked through `Queue`). Five
more runs show a disagreement between code and documentation.

| Run | Instance | Shows |
|---|---|---|
| `Hierarchy_tree` | names a, a.b, a.b.c, a.d; one thread; two levels | `NearestParent`, `NoDoubleAppend`, `LevelAlwaysFound`, `EveryAncestorAppends`, `DecisionUnaffectedByCreation`, `LogReturns` |
| `Queue_shared` | 2 producers with 2 events each, 2 closers, limit 2 | `SemAccounting`, `NoLostWakeup`, `DrainComplete`, `ImplementsChannel`, `PutReturns`, `ConsumerStops` |
| `AsyncAppender_calls` | 2 threads with 2 events each, `close()`, limit 1, failures of `put_event` and of the thread | `DeliveredInOrder`, `AsyncTypeOK`, `CloseFlushes`, `AppendReturns` |
| `AsyncLogging_shutdown` | 1 thread, 3 events, 2 workers, pool of 1 | `TypeOK`, `InFlightExact`, `LoggedBeforeIsAppended`, `EarlyIsAppended`, `ShutdownReturns` |
| `Connector_reconnect` | 2 threads, 2 outages, both forms of `close()` | `DisconnectedIsClosed`, `TriggerKept`, `ClosedForGood`, `WriteOwnsDescriptor`, `Reconnects`, `CloseReturns` |
| `RollingFile_shared` | 2 processes, 3 backups, 8 events, a crash, a failed open, a failed rename, a start with `Append=false` | `TypeOK`, `StaleIsTooLarge`, `WritesToLogFile`, `RetainedIsSuffix`, `OnlyOldestExpires` |
| `Reconfigure_live` | 4 seconds, 4 changes, 2 sizes; 3 loggers, 2 threads, 2 reloads, 2 appenders per logger | `CurrentOrNoticed`, `ConfigurationFollows`, `Settles`; `LockerTypeOK`, `ReloadInstalled`, `NoClosedAppender`, `ReloadReturns` |
| `Hierarchy_rname` | names r, r.x, r.x.y | `NearestParent` fails |
| `AsyncAppender_close` | 1 thread, `close()` | `CloseIsSafe` fails |
| `AsyncLogging_full` | 2 threads, 1 worker | `ShutdownAlwaysReturns` fails |
| `Connector_deadlock` | 2 threads, 1 outage | `CloseAlwaysReturns` fails |
| `RollingFile_exact` | files that reach exactly the limit | `WritesToLogFile` fails |

Where a lock is held over several steps (`access_mutex` in `AsyncAppender` and `Connector`,
the list mutexes in `AsyncLogging` and `HierarchyLocker`, the lock file in `RollingFile`) the
type invariant also says who holds it. The type invariants of `Hierarchy`, `Queue`,
`Connector` and `ConfigWatch` are proved and not checked again by a run; so are
`FlagMatchesQueue` and `Fifo` of `Queue`.

**Bounds.** In `Hierarchy` four names contain every shape `updateChildren` tells
apart: a child already linked below the new logger, a grandchild linked above it, and
a sibling; threads that log do not affect each other, so one is enough. In `Queue` a
limit of two with two producers lets the queue be empty, partly filled and full with
both producers waiting. In `AsyncAppender` a limit of one makes one thread wait for room
and the other for `access_mutex`, and the second event of a thread can be appended directly
after the first was queued; two closing threads beside one logging thread give no other
result. `AsyncLogging` has one thread because `appender_list_mutex`
lets one thread at a time into `doAppend`; three events are enough for one being
appended, one in the pool and one dropped or waiting. In `Connector` two threads are
needed for one to hold the mutex while another waits; two outages for a reconnection to
fail again. In `RollingFile` eight events roll the file over four times, so that the
oldest of three backups expires; with two processes either can hold a stale stream while
the other rolls the file over again. Three processes and nine events give no other result,
in ten minutes and 14 million states. In `ConfigWatch` and `HierarchyLocker` the bounds
allow a change, or a reload, after one that was noticed; one of the three loggers exists
at the start, one is created by a reload, and one only by a thread. `RollingFile` has only safety
properties, so that its processes may be taken as symmetric; no other run uses
symmetry.

**Fairness.** Only weak fairness, of steps a running thread takes by itself: a thread
inside a call goes on when it is not blocked, a timed wait ends, the server that is up
accepts a connection. Nobody has to log, create a logger, close, call `signal_exit`, crash
or edit a file, and `put_event` does not have to fail: only a `signal_exit` or `close()` that
has begun goes on.
Where a mutex is contended weak fairness suffices, because no thread can take it for
ever in a bounded instance.

**Deadlock** is not checked by itself: each system may stop when its clients do. The
blocking that matters is covered by the liveness properties.

## What the failing runs show

* `Hierarchy_rname`: a logger named `r`, `ro` or `roo` created after its children does
  not become their parent, because `updateChildren` tests the name of the *root*
  logger, "root", for being below it (`hierarchy.cxx:375`).
* `AsyncAppender_close`: `AsyncAppender::close` takes no lock and clears `queue_thread` and
  `queue` between `append()`'s test of the one and its use of the other
  (`asyncappender.cxx:170`, `:180`), although `Hierarchy::shutdown` promises to close
  appenders safely.
* `AsyncLogging_full`: an event dropped by a full pool stays in `in_flight`;
  `Hierarchy::shutdown` then waits for ever (`global-init.cxx:392`).
* `Connector_deadlock`: `SysLogAppender::close` joins the connector thread while it
  holds the mutex that thread needs (`syslogappender.cxx:353`).
* `RollingFile_exact`: rolling over asks for `size > maxFileSize`, the recheck for
  `size < maxFileSize`; a file of exactly that size is renamed under a process that
  goes on writing to it (`fileappender.cxx:562`).

Other differences met while modelling. The properties of the passing runs state the
condition under which the code is right, and leave these out:

* `Logger::setLogLevel` can unset the root's level, although `RootLogger::setLogLevel`
  refuses to; `LevelAlwaysFound` allows the exception that follows.
* `put_event` is released only by the consumer, not by `signal_exit` as `queue.h` says;
  with a limit of zero, or a queue thread that dies while `append()` waits, it hangs.
  `PutReturns` is about a positive limit and a consumer that lives; `AppendReturns` excepts
  a thread that dies while a call waits for room.
* `SocketAppender::close` takes no lock and closes the descriptor a concurrent `append()`
  writes to. `WriteOwnsDescriptor` is about `SysLogAppender::close`, which locks.
* `ctcConnect` of both appenders drops the `ipv6` flag: a host that is reachable over IPv6
  only is never reconnected. `Reconnects` is about a host with an IPv4 address.
* An exception of `append()` that `enqueueAsyncDoAppend` sees in the future is
  subtracted from `in_flight` twice, with `threadPoolBlockOnFull=false`.
  `InFlightExact` says that the count is off by these events and the dropped ones only.
* A failed rename of the log file is followed by truncating it, and a failed rename of a
  backup by replacing that backup. `RetainedIsSuffix` says that the events left are still in
  order; that none is missing, it says of the time before.
* With the `LockFile` property, a process that starts with `Append=false` empties the file
  without the lock. If it does so in a rollover, its own file is renamed under it and it
  writes into a backup; the three invariants of `RollingFile` except that (`midway`).
* The watch compares the time with `>` and the size: a change with the same size and a
  time not later is not seen, and neither is one that falls between reading the file and
  recording its time and size. `CurrentOrNoticed` and `ConfigurationFollows` except exactly
  these two.
* `HierarchyLocker::addAppender` lets waiting threads through a half-configured logger;
  `NoClosedAppender` says they meet no closed appender there. The root logger is not
  locked, and there they may.

## What is proved

TLAPS proves the following for every value of the constants, from the named
assumptions of the modules.

**HierarchyProofs** (from `NameAssumption`, `LevelAssumption` and `RootNotPrefixed`: no
logger name is a string prefix of the root's). `TypeCorrect`; `ParentsAreNearest`,
`AppendersCalledOnce`, `NoAncestorMissed`, `LevelSearchSucceeds`. `NearestParent` speaks
of the tree between creations; the invariant `TreeInv` says what it is during one.
`ProvComplete` says that every logger is in the provision node of each missing name
between it and its parent, `ProvSound` that nothing else is; `ParentInv` that each
logger's parent is nearest among the loggers as they were before the creation, or,
once relinked, among those including the new one. The three `Nearest...` lemmas
move between the two. `WalkInv` then says of a thread inside `log()` that everything it
owes is visited or still above it and that nothing visited is above it; the lemma
`UpLink` gives the one fact it needs, that a parent pointer never leads anywhere but to
the nearest complete ancestor or the logger being created.

**QueueProofs** (from `QueueAssumption`). `SemaphoreAccounted`, `FlagCorrect`,
`WakeupsKept`, `OrderKept`, `DrainDelivers` and the refinement `QueueIsChannel`. The
inductive invariant is `TypeOK /\ Control /\ SemAccounting /\ Fifo /\ NoLostWakeup`,
where `Control` ties the flags to the consumer's place in its loop. The set of
producers is any finite set and the limit any number: `SemAccounting` counts units by
cardinality.

**ConnectorProofs** (from `ConnectorAssumption`). `ConnectorTypeCorrect`,
`DisconnectedRecovers`, `TriggerNeverLost`, `CloseIsFinal`,
`LockedCloseProtectsWrites`. The inductive invariant adds `Control`, which relates the
connector thread, the closing thread and the mutex, and `Signals`, which says at each
place of the loop why a pending request is not lost.

**ConfigWatchProofs** (from `ConfigWatchAssumption`). `WatchTypeCorrect` and
`ChangesNoticed`. `CurrentOrNoticed` is about the waiting thread and a file that is
there. `Noticed` extends it to every place of the constructor and the loop and to a file
that is away: what was recorded differs from the file from the moment a change is seen
until it is recorded anew, and then the configuration in force is the file's. Both except
the two kinds of change in `missed`; the theorem says that every other change, whatever
size and time it leaves, is noticed.

Only model-checked: all liveness properties, which are beyond the prover, the
properties of `AsyncAppender`, `AsyncLogging`, `RollingFile` and `HierarchyLocker`, and
`DecisionUnaffectedByCreation`.

## Plan

Next, in this order:

1. `Lifecycle`: initialisation, termination, the default context and per-thread data,
   composed with the thread pool of `AsyncLogging`.
2. Daily and time-based rolling, over the file system operators of `RollingFile`.
3. Pure algorithms against reference definitions: property substitution, the event
   codec, filters, log levels, pattern parsing, schedules; one instance module for all.
4. NDC and MDC, `ServerSocket::accept` and the sample server, the clock gate, LogLog.
5. Proofs of `StaleIsTooLarge` and `WritesToLogFile` for `RollingFile` (from the
   assumption that no file has exactly the limit), of `InFlightExact`, and of
   `ReloadInstalled`.
