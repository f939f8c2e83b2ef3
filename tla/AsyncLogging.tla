---------------------------- MODULE AsyncLogging -----------------------------
(***************************************************************************)
(* Appenders with AsyncAppend=true: Appender::doAppend counts the event in *)
(* in_flight and hands it to the thread pool (enqueueAsyncDoAppend in      *)
(* src/global-init.cxx), a worker appends it, and Hierarchy::shutdown      *)
(* waits for the pool and for the count before it closes the appender.     *)
(*                                                                         *)
(* The pool (progschj::ThreadPool) is not part of src/; it is modelled by  *)
(* what the library relies on: a bounded queue of tasks, workers, futures. *)
(***************************************************************************)
EXTENDS Naturals, Sequences, FiniteSets

CONSTANTS
  Threads,      \* threads that log through the logger of the appender
  Workers,      \* threads of the pool
  PoolLimit,    \* the pool's queue size limit
  SizeT,        \* number of values of std::size_t
  MaxLogs,      \* bound on the events one thread logs
  MayThrow,     \* whether append() may throw
  Nobody        \* owner of the free appender_list_mutex, task of an idle worker

ASSUME AsyncLoggingAssumption ==
  /\ PoolLimit \in Nat \ {0} /\ MaxLogs \in Nat
  /\ IsFiniteSet(Threads) /\ IsFiniteSet(Workers)
  /\ SizeT \in Nat /\ SizeT > MaxLogs * Cardinality(Threads)
  /\ MayThrow \in BOOLEAN
  /\ Nobody \notin Threads \union (Threads \X Nat)

VARIABLES
  blockOnFull, \* DefaultContext::block_on_full, set when log4cplus is configured
  inFlight,   \* Appender::in_flight
  listOwner,  \* holder of the logger's appender_list_mutex
  attached,   \* the appender is in the logger's list
  closed,     \* Appender::closed
  lpc, logs,  \* where each thread is in doAppend, and its number of events
  tasks,      \* the pool's queue
  wpc, task,  \* where each worker is in a task, and which
  last,       \* the worker's fetch_sub found a count of one
  spc,        \* where the thread calling Hierarchy::shutdown is
  woken,      \* in_flight_condition was notified since that thread blocked
  appended,   \* events that append() has written
  threw,      \* events whose append() threw
  refused,    \* events that found the appender closed
  dropped,    \* events that a full pool did not take
  twice,      \* events that the worker and doAppend's handler have both subtracted
  early,      \* history: events whose log call had returned when shutdown began
  before      \* history: events logged before waitToFinishAsyncLogging returned

poolVars == <<blockOnFull, tasks, wpc, task, last>>
fates == <<appended, threw, refused, dropped, twice>>
vars == <<blockOnFull, inFlight, listOwner, attached, closed, lpc, logs, tasks, wpc,
          task, last, spc, woken, appended, threw, refused, dropped, twice, early, before>>

Events == Threads \X (1..MaxLogs)
Event(t) == <<t, logs[t]>>
Logged == {e \in Events : e[2] <= logs[e[1]]}

TypeOK ==
  /\ blockOnFull \in BOOLEAN
  /\ inFlight \in 0..(SizeT - 1)
  /\ listOwner \in Threads \union {Nobody}
  /\ attached \in BOOLEAN /\ closed \in BOOLEAN /\ woken \in BOOLEAN
  /\ lpc \in [Threads -> {"idle", "enqueue", "poll", "subtract", "notify"}]
  /\ logs \in [Threads -> 0..MaxLogs]
  /\ tasks \in Seq(Events) /\ Len(tasks) <= PoolLimit
  /\ wpc \in [Workers -> {"idle", "append", "subtract", "notify", "finish"}]
  /\ task \in [Workers -> Events \union {Nobody}]
  /\ last \in [Workers -> BOOLEAN]
  /\ spc \in {"idle", "pool", "quiet", "wait", "blocked", "close", "remove", "done"}
  /\ {appended, threw, refused, dropped, twice, early, before} \subseteq SUBSET Events
  /\ \A t \in Threads : lpc[t] # "idle" <=> listOwner = t

Init ==
  /\ blockOnFull \in BOOLEAN
  /\ inFlight = 0 /\ listOwner = Nobody
  /\ attached = TRUE /\ closed = FALSE
  /\ lpc = [t \in Threads |-> "idle"] /\ logs = [t \in Threads |-> 0]
  /\ tasks = <<>>
  /\ wpc = [w \in Workers |-> "idle"] /\ task = [w \in Workers |-> Nobody]
  /\ last = [w \in Workers |-> FALSE]
  /\ spc = "idle" /\ woken = FALSE
  /\ appended = {} /\ threw = {} /\ refused = {} /\ dropped = {} /\ twice = {}
  /\ early = {} /\ before = {}

-----------------------------------------------------------------------------
(* appendLoopOnAppenders, doAppend and enqueueAsyncDoAppend.  The logger's *)
(* list stays locked until doAppend returns.                               *)

DoAppend(t) ==
  /\ lpc[t] = "idle" /\ logs[t] < MaxLogs
  /\ attached /\ listOwner = Nobody
  /\ listOwner' = t
  /\ logs' = [logs EXCEPT ![t] = @ + 1]
  /\ inFlight' = (inFlight + 1) % SizeT
  /\ lpc' = [lpc EXCEPT ![t] = "enqueue"]
  /\ UNCHANGED poolVars
  /\ UNCHANGED <<attached, closed, spc, woken, fates, early, before>>

Return(t) ==
  /\ lpc' = [lpc EXCEPT ![t] = "idle"]
  /\ listOwner' = Nobody

(* Faulty: does not wait for room.                                         *)
EnqueueBlockFull(t) ==
  /\ lpc[t] = "enqueue" /\ blockOnFull
  /\ tasks' = Append(tasks, Event(t))
  /\ Return(t)
  /\ UNCHANGED <<inFlight, attached, closed, logs, wpc, task, last>>
  /\ UNCHANGED <<blockOnFull, spc, woken, fates, early, before>>

(* ThreadPool::enqueue_block waits for room.                               *)
EnqueueBlock(t) ==
  /\ lpc[t] = "enqueue" /\ blockOnFull /\ Len(tasks) < PoolLimit
  /\ tasks' = Append(tasks, Event(t))
  /\ Return(t)
  /\ UNCHANGED <<inFlight, attached, closed, logs, wpc, task, last>>
  /\ UNCHANGED <<blockOnFull, spc, woken, fates, early, before>>

Enqueue(t) ==
  /\ lpc[t] = "enqueue" /\ ~blockOnFull /\ Len(tasks) < PoolLimit
  /\ tasks' = Append(tasks, Event(t))
  /\ lpc' = [lpc EXCEPT ![t] = "poll"]
  /\ UNCHANGED <<inFlight, listOwner, attached, closed, logs, wpc, task, last>>
  /\ UNCHANGED <<blockOnFull, spc, woken, fates, early, before>>

(* The pool is full: the future holds would_block, which is caught and     *)
(* reported; the event is dropped and doAppend returns.                    *)
WouldBlock(t) ==
  /\ lpc[t] = "enqueue" /\ ~blockOnFull /\ Len(tasks) >= PoolLimit
  /\ dropped' = dropped \union {Event(t)}
  /\ Return(t)
  /\ UNCHANGED poolVars
  /\ UNCHANGED <<inFlight, attached, closed, logs, spc, woken>>
  /\ UNCHANGED <<appended, threw, refused, twice, early, before>>

Ready(e) ==
  /\ \A i \in 1..Len(tasks) : tasks[i] # e
  /\ \A w \in Workers : task[w] # e

(* future.wait_for (0): a ready future is asked for its result, and an     *)
(* exception other than would_block leaves enqueueAsyncDoAppend.           *)
Poll(t) ==
  /\ lpc[t] = "poll"
  /\ IF Ready(Event(t)) /\ Event(t) \in threw
     THEN /\ lpc' = [lpc EXCEPT ![t] = "subtract"]
          /\ UNCHANGED listOwner
     ELSE Return(t)
  /\ UNCHANGED poolVars
  /\ UNCHANGED <<inFlight, attached, closed, logs, spc, woken, fates, early, before>>

(* subtract_in_flight in doAppend's exception handler, which rethrows.     *)
Subtracted == inFlight' = (inFlight + SizeT - 1) % SizeT

HandlerSubtract(t) ==
  /\ lpc[t] = "subtract"
  /\ Subtracted
  /\ twice' = twice \union {Event(t)}
  /\ lpc' = [lpc EXCEPT ![t] = IF inFlight = 1 THEN "notify" ELSE "idle"]
  /\ listOwner' = IF inFlight = 1 THEN listOwner ELSE Nobody
  /\ UNCHANGED poolVars
  /\ UNCHANGED <<attached, closed, logs, spc, woken>>
  /\ UNCHANGED <<appended, threw, refused, dropped, early, before>>

HandlerNotify(t) ==
  /\ lpc[t] = "notify"
  /\ woken' = TRUE
  /\ Return(t)
  /\ UNCHANGED poolVars
  /\ UNCHANGED <<inFlight, attached, closed, logs, spc, fates, early, before>>

-----------------------------------------------------------------------------
(* A worker of the pool runs asyncDoAppend.                                *)

Take(w) ==
  /\ wpc[w] = "idle" /\ tasks # <<>>
  /\ task' = [task EXCEPT ![w] = Head(tasks)]
  /\ tasks' = Tail(tasks)
  /\ wpc' = [wpc EXCEPT ![w] = "append"]
  /\ UNCHANGED <<inFlight, listOwner, attached, closed, lpc, logs, last>>
  /\ UNCHANGED <<blockOnFull, spc, woken, fates, early, before>>

(* What becomes of the event e: it is appended, refused by a closed        *)
(* appender, or append() throws.                                           *)
Fate(e) ==
  \/ ~closed /\ appended' = appended \union {e} /\ UNCHANGED <<threw, refused>>
  \/ closed /\ refused' = refused \union {e} /\ UNCHANGED <<appended, threw>>
  \/ MayThrow /\ ~closed /\ threw' = threw \union {e} /\ UNCHANGED <<appended, refused>>

(* Faulty: an exception skips the decrement.                               *)
SyncDoAppendUnguarded(w) ==
  /\ wpc[w] = "append"
  /\ Fate(task[w])
  /\ wpc' = [wpc EXCEPT ![w] = IF threw' = threw THEN "subtract" ELSE "finish"]
  /\ UNCHANGED <<inFlight, listOwner, attached, closed, lpc, logs, tasks, task, last>>
  /\ UNCHANGED <<blockOnFull, spc, woken, dropped, twice, early, before>>

(* syncDoAppend under access_mutex.                                        *)
SyncDoAppend(w) ==
  /\ wpc[w] = "append"
  /\ Fate(task[w])
  /\ wpc' = [wpc EXCEPT ![w] = "subtract"]
  /\ UNCHANGED <<inFlight, listOwner, attached, closed, lpc, logs, tasks, task, last>>
  /\ UNCHANGED <<blockOnFull, spc, woken, dropped, twice, early, before>>

(* Faulty: compares the new count instead of the previous one with 1.      *)
SubtractInFlightNew(w) ==
  /\ wpc[w] = "subtract"
  /\ Subtracted
  /\ last' = [last EXCEPT ![w] = inFlight = 2]
  /\ wpc' = [wpc EXCEPT ![w] = "notify"]
  /\ UNCHANGED <<listOwner, attached, closed, lpc, logs, tasks, task>>
  /\ UNCHANGED <<blockOnFull, spc, woken, fates, early, before>>

(* The destructor of handle_in_flight.                                     *)
SubtractInFlight(w) ==
  /\ wpc[w] = "subtract"
  /\ Subtracted
  /\ last' = [last EXCEPT ![w] = inFlight = 1]
  /\ wpc' = [wpc EXCEPT ![w] = "notify"]
  /\ UNCHANGED <<listOwner, attached, closed, lpc, logs, tasks, task>>
  /\ UNCHANGED <<blockOnFull, spc, woken, fates, early, before>>

NotifyInFlight(w) ==
  /\ wpc[w] = "notify"
  /\ woken' = (woken \/ last[w])
  /\ wpc' = [wpc EXCEPT ![w] = "finish"]
  /\ UNCHANGED <<inFlight, listOwner, attached, closed, lpc, logs, tasks, task, last>>
  /\ UNCHANGED <<blockOnFull, spc, fates, early, before>>

(* The pool makes the future ready and forgets the task.                   *)
Finish(w) ==
  /\ wpc[w] = "finish"
  /\ task' = [task EXCEPT ![w] = Nobody]
  /\ wpc' = [wpc EXCEPT ![w] = "idle"]
  /\ UNCHANGED <<inFlight, listOwner, attached, closed, lpc, logs, tasks, last>>
  /\ UNCHANGED <<blockOnFull, spc, woken, fates, early, before>>

-----------------------------------------------------------------------------
(* Hierarchy::shutdown                                                     *)

Shutdown ==
  /\ spc = "idle"
  /\ spc' = "pool"
  /\ early' = {e \in Logged : lpc[e[1]] = "idle" \/ e # Event(e[1])}
  /\ UNCHANGED poolVars
  /\ UNCHANGED <<inFlight, listOwner, attached, closed, lpc, logs, woken>>
  /\ UNCHANGED <<fates, before>>

(* waitUntilEmptyThreadPoolQueue: wait_until_empty, then                   *)
(* wait_until_nothing_in_flight.                                           *)
WaitUntilEmpty ==
  /\ spc = "pool" /\ tasks = <<>>
  /\ spc' = "quiet"
  /\ UNCHANGED poolVars
  /\ UNCHANGED <<inFlight, listOwner, attached, closed, lpc, logs, woken>>
  /\ UNCHANGED <<fates, early, before>>

(* Faulty: waits for the pool's queue and not for its workers.             *)
WaitUntilQuietNot ==
  /\ spc = "quiet"
  /\ spc' = "wait"
  /\ UNCHANGED poolVars
  /\ UNCHANGED <<inFlight, listOwner, attached, closed, lpc, logs, woken>>
  /\ UNCHANGED <<fates, early, before>>

WaitUntilQuiet ==
  /\ spc = "quiet" /\ \A w \in Workers : wpc[w] = "idle"
  /\ spc' = "wait"
  /\ UNCHANGED poolVars
  /\ UNCHANGED <<inFlight, listOwner, attached, closed, lpc, logs, woken>>
  /\ UNCHANGED <<fates, early, before>>

(* Faulty: trusts the notification without testing the count again.        *)
WaitToFinishOnce ==
  /\ spc = "wait" \/ (spc = "blocked" /\ woken)
  /\ IF inFlight = 0 \/ spc = "blocked"
     THEN spc' = "close" /\ before' = Logged
     ELSE spc' = "blocked" /\ UNCHANGED before
  /\ woken' = FALSE
  /\ UNCHANGED poolVars
  /\ UNCHANGED <<inFlight, listOwner, attached, closed, lpc, logs, fates, early>>

(* waitToFinishAsyncLogging: the condition is tested with the mutex held,  *)
(* once at the start and again after every notification.                   *)
WaitToFinish ==
  /\ spc = "wait" \/ (spc = "blocked" /\ woken)
  /\ IF inFlight = 0
     THEN spc' = "close" /\ before' = Logged
     ELSE spc' = "blocked" /\ UNCHANGED before
  /\ woken' = FALSE
  /\ UNCHANGED poolVars
  /\ UNCHANGED <<inFlight, listOwner, attached, closed, lpc, logs, fates, early>>

(* closeNestedAppenders copies the list with getAllAppenders, which locks  *)
(* it, and closes the appenders after that.                                *)
CloseNestedAppenders ==
  /\ spc = "close" /\ listOwner = Nobody
  /\ closed' = TRUE
  /\ spc' = "remove"
  /\ UNCHANGED poolVars
  /\ UNCHANGED <<inFlight, listOwner, attached, lpc, logs, woken>>
  /\ UNCHANGED <<fates, early, before>>

RemoveAllAppenders ==
  /\ spc = "remove" /\ listOwner = Nobody
  /\ attached' = FALSE
  /\ spc' = "done"
  /\ UNCHANGED poolVars
  /\ UNCHANGED <<inFlight, listOwner, closed, lpc, logs, woken>>
  /\ UNCHANGED <<fates, early, before>>

-----------------------------------------------------------------------------
Enqueuing(t) ==
  \/ EnqueueBlock(t) \/ Enqueue(t) \/ WouldBlock(t) \/ Poll(t)
  \/ HandlerSubtract(t) \/ HandlerNotify(t)

Working(w) ==
  Take(w) \/ SyncDoAppend(w) \/ SubtractInFlight(w) \/ NotifyInFlight(w) \/ Finish(w)

Stopping ==
  \/ WaitUntilEmpty \/ WaitUntilQuiet \/ WaitToFinish
  \/ CloseNestedAppenders \/ RemoveAllAppenders

Next ==
  \/ \E t \in Threads : DoAppend(t) \/ Enqueuing(t)
  \/ \E w \in Workers : Working(w)
  \/ Shutdown \/ Stopping

Spec == Init /\ [][Next]_vars

(* Every thread inside a call and every worker is scheduled; nothing       *)
(* obliges the application to log or to shut down.                         *)
FairSpec ==
  /\ Spec
  /\ \A t \in Threads : WF_vars(Enqueuing(t))
  /\ \A w \in Workers : WF_vars(Working(w))
  /\ WF_vars(Stopping)

-----------------------------------------------------------------------------
(* Events between doAppend's increment and their decrement.                *)
Counted ==
  {Event(t) : t \in {u \in Threads : lpc[u] = "enqueue"}}
    \union {tasks[i] : i \in 1..Len(tasks)}
    \union {task[w] : w \in {v \in Workers : wpc[v] \in {"append", "subtract"}}}

(* in_flight is, modulo the width of std::size_t, the number of events     *)
(* that doAppend has handed over and no worker has subtracted, plus those  *)
(* a full pool dropped, which nobody subtracts (global-init.cxx:392),      *)
(* less those whose exception came back to doAppend, which subtracts them  *)
(* a second time (appender.cxx:280).                                       *)
InFlightExact ==
  inFlight = (Cardinality(Counted) + Cardinality(dropped) + SizeT - Cardinality(twice)) % SizeT

(* An event logged before waitToFinishAsyncLogging returned is appended:   *)
(* shutdown does not close the appender under it, while a full pool makes  *)
(* doAppend wait.                                                          *)
LoggedBeforeIsAppended == blockOnFull => refused \intersect before = {}

(* When shutdown closes the appender, every event whose log call had       *)
(* returned when shutdown was called has been appended, whatever happened  *)
(* to the count: the pool is waited for, too (hierarchy.cxx:241).  The     *)
(* exceptions are an event whose append() threw and one that a full pool   *)
(* dropped because it was not to make the caller wait.                     *)
EarlyIsAppended == closed => early \subseteq appended \union threw \union dropped

(* shutdown returns, also while other threads keep logging, when a full    *)
(* pool makes them wait.                                                   *)
ShutdownReturns == spc = "pool" /\ blockOnFull ~> spc = "done"

(* shutdown returns in both modes: every event it waits for is in flight.  *)
ShutdownAlwaysReturns == spc = "pool" ~> spc = "done"
=============================================================================
