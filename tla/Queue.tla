-------------------------------- MODULE Queue --------------------------------
(***************************************************************************)
(* thread::Queue (src/queue.cxx), the bounded queue between the threads    *)
(* that append to an AsyncAppender and its QueueThread.  Producers call    *)
(* put_event, closers call signal_exit, and one consumer runs the loop of  *)
(* QueueThread::run over get_events.                                       *)
(*                                                                         *)
(* A section under Queue::mutex is one action; the operations on the       *)
(* semaphore and on ev_consumer that lie outside it are actions of their   *)
(* own.  Flags EXIT, DRAIN and QUEUE are Boolean variables.                *)
(***************************************************************************)
EXTENDS Naturals, Sequences, FiniteSets

CONSTANTS
  Producers,  \* threads that call put_event
  Closers,    \* threads that call signal_exit
  MaxLen,     \* the limit given to the constructor
  MaxPuts,    \* bound on the calls of put_event by one producer
  Drains,     \* arguments that closers pass to signal_exit
  MayThrow    \* whether an attached appender may throw

ASSUME QueueAssumption ==
  /\ MaxLen \in Nat /\ MaxPuts \in Nat
  /\ IsFiniteSet(Producers) /\ IsFiniteSet(Closers)
  /\ Drains \subseteq BOOLEAN /\ MayThrow \in BOOLEAN

VARIABLES
  queue,      \* the stored events
  queueFlag,  \* flag QUEUE
  exitFlag,   \* flag EXIT
  drainFlag,  \* flag DRAIN
  sem,        \* value of the semaphore
  signaled,   \* ev_consumer's state
  woken,      \* ev_consumer.signal() was called since the consumer blocked
  ppc,        \* where each producer is in put_event
  puts,       \* calls of put_event that each producer has begun
  xpc,        \* where each closer is in signal_exit
  cpc,        \* where the consumer is in QueueThread::run
  buf,        \* the consumer's buffer ev_buf
  accepted,   \* history: the events stored so far, in order
  delivered,  \* history: the events handed to the appenders, in order
  discarded   \* history: the consumer cleared a queue that was not drained

flagVars == <<queueFlag, exitFlag, drainFlag>>
prodVars == <<ppc, puts>>
consVars == <<cpc, buf>>
histVars == <<accepted, delivered, discarded>>
vars == <<queue, queueFlag, exitFlag, drainFlag, sem, signaled, woken, ppc, puts,
          xpc, cpc, buf, accepted, delivered, discarded>>

Events == Producers \X (1..MaxPuts)

TypeOK ==
  /\ queue \in Seq(Events) /\ buf \in Seq(Events)
  /\ queueFlag \in BOOLEAN /\ exitFlag \in BOOLEAN /\ drainFlag \in BOOLEAN
  /\ sem \in 0..MaxLen
  /\ signaled \in BOOLEAN /\ woken \in BOOLEAN
  /\ ppc \in [Producers -> {"idle", "sem", "mutex", "release", "signal"}]
  /\ puts \in [Producers -> 0..MaxPuts]
  /\ \A p \in Producers : ppc[p] # "idle" => puts[p] # 0
  /\ xpc \in [Closers -> {"idle", "signal", "done"}]
  /\ cpc \in {"get", "wait", "blocked", "deliver", "done", "dead"}
  /\ accepted \in Seq(Events) /\ delivered \in Seq(Events)
  /\ discarded \in BOOLEAN

Init ==
  /\ queue = <<>> /\ buf = <<>>
  /\ queueFlag = FALSE /\ exitFlag = FALSE /\ drainFlag = TRUE
  /\ sem = MaxLen
  /\ signaled = FALSE /\ woken = FALSE
  /\ ppc = [p \in Producers |-> "idle"]
  /\ puts = [p \in Producers |-> 0]
  /\ xpc = [x \in Closers |-> "idle"]
  /\ cpc = "get"
  /\ accepted = <<>> /\ delivered = <<>> /\ discarded = FALSE

(* ManualResetEvent::signal on ev_consumer.                                *)
Signal == signaled' = TRUE /\ woken' = TRUE

-----------------------------------------------------------------------------
(* put_event                                                               *)

CurrentEvent(p) == <<p, puts[p]>>

PutEvent(p) ==
  /\ ppc[p] = "idle" /\ puts[p] < MaxPuts
  /\ ppc' = [ppc EXCEPT ![p] = "sem"]
  /\ puts' = [puts EXCEPT ![p] = @ + 1]
  /\ UNCHANGED <<queue, sem, signaled, woken, xpc>>
  /\ UNCHANGED flagVars /\ UNCHANGED consVars /\ UNCHANGED histVars

(* SemaphoreGuard semguard (sem): blocks at zero.                          *)
SemLock(p) ==
  /\ ppc[p] = "sem" /\ sem > 0
  /\ sem' = sem - 1
  /\ ppc' = [ppc EXCEPT ![p] = "mutex"]
  /\ UNCHANGED <<queue, signaled, woken, puts, xpc>>
  /\ UNCHANGED flagVars /\ UNCHANGED consVars /\ UNCHANGED histVars

(* Under the mutex, EXIT set: the event is not stored.                     *)
PutRefused(p) ==
  /\ ppc[p] = "mutex" /\ exitFlag
  /\ ppc' = [ppc EXCEPT ![p] = "release"]
  /\ UNCHANGED <<queue, sem, signaled, woken, puts, xpc>>
  /\ UNCHANGED flagVars /\ UNCHANGED consVars /\ UNCHANGED histVars

(* Faulty: returns without giving the unit back.                           *)
SemUnlockNot(p) ==
  /\ ppc[p] = "release"
  /\ ppc' = [ppc EXCEPT ![p] = "idle"]
  /\ UNCHANGED <<queue, sem, signaled, woken, puts, xpc>>
  /\ UNCHANGED flagVars /\ UNCHANGED consVars /\ UNCHANGED histVars

(* The destructor of semguard.                                             *)
SemUnlock(p) ==
  /\ ppc[p] = "release"
  /\ sem' = sem + 1
  /\ ppc' = [ppc EXCEPT ![p] = "idle"]
  /\ UNCHANGED <<queue, signaled, woken, puts, xpc>>
  /\ UNCHANGED flagVars /\ UNCHANGED consVars /\ UNCHANGED histVars

(* Faulty: leaves the stored event's unit with semguard, which returns it. *)
PutStoredAttached(p) ==
  /\ ppc[p] = "mutex" /\ ~exitFlag
  /\ queue' = Append(queue, CurrentEvent(p))
  /\ accepted' = Append(accepted, CurrentEvent(p))
  /\ queueFlag' = TRUE
  /\ sem' = sem + 1
  /\ ppc' = [ppc EXCEPT ![p] = "signal"]
  /\ UNCHANGED <<exitFlag, drainFlag, signaled, woken, puts, xpc>>
  /\ UNCHANGED <<delivered, discarded>> /\ UNCHANGED consVars

(* Faulty: stores the event without looking at EXIT.                       *)
PutStoredAlways(p) ==
  /\ ppc[p] = "mutex"
  /\ queue' = Append(queue, CurrentEvent(p))
  /\ accepted' = Append(accepted, CurrentEvent(p))
  /\ queueFlag' = TRUE
  /\ ppc' = [ppc EXCEPT ![p] = "signal"]
  /\ UNCHANGED <<exitFlag, drainFlag, sem, signaled, woken, puts, xpc>>
  /\ UNCHANGED <<delivered, discarded>> /\ UNCHANGED consVars

(* Under the mutex, EXIT not set: semguard is detached.                    *)
PutStored(p) ==
  /\ ppc[p] = "mutex" /\ ~exitFlag
  /\ queue' = Append(queue, CurrentEvent(p))
  /\ accepted' = Append(accepted, CurrentEvent(p))
  /\ queueFlag' = TRUE
  /\ ppc' = [ppc EXCEPT ![p] = "signal"]
  /\ UNCHANGED <<exitFlag, drainFlag, sem, signaled, woken, puts, xpc>>
  /\ UNCHANGED <<delivered, discarded>> /\ UNCHANGED consVars

PutSignal(p) ==
  /\ ppc[p] = "signal"
  /\ Signal
  /\ ppc' = [ppc EXCEPT ![p] = "idle"]
  /\ UNCHANGED <<queue, sem, puts, xpc>>
  /\ UNCHANGED flagVars /\ UNCHANGED consVars /\ UNCHANGED histVars

-----------------------------------------------------------------------------
(* signal_exit: only the first call has an effect.                         *)

SetExit(drain) ==
  /\ exitFlag' = TRUE
  /\ drainFlag' = IF exitFlag THEN drainFlag ELSE drain

SignalExit(x, drain) ==
  /\ xpc[x] = "idle"
  /\ SetExit(drain)
  /\ xpc' = [xpc EXCEPT ![x] = IF exitFlag THEN "done" ELSE "signal"]
  /\ UNCHANGED <<queue, queueFlag, sem, signaled, woken>>
  /\ UNCHANGED prodVars /\ UNCHANGED consVars /\ UNCHANGED histVars

(* Faulty: sets EXIT and does not signal ev_consumer.                      *)
ExitSignalNone(x) ==
  /\ xpc[x] = "signal"
  /\ xpc' = [xpc EXCEPT ![x] = "done"]
  /\ UNCHANGED <<queue, sem, signaled, woken>>
  /\ UNCHANGED flagVars /\ UNCHANGED prodVars /\ UNCHANGED consVars
  /\ UNCHANGED histVars

ExitSignal(x) ==
  /\ xpc[x] = "signal"
  /\ Signal
  /\ xpc' = [xpc EXCEPT ![x] = "done"]
  /\ UNCHANGED <<queue, sem>>
  /\ UNCHANGED flagVars /\ UNCHANGED prodVars /\ UNCHANGED consVars
  /\ UNCHANGED histVars

-----------------------------------------------------------------------------
(* get_events, and the loop of QueueThread::run around it.                 *)

(* Faulty: returns one unit for the whole batch.                           *)
GetTakenOneUnit ==
  /\ cpc = "get" /\ queueFlag
  /\ exitFlag => drainFlag
  /\ buf' = queue /\ queue' = <<>>
  /\ queueFlag' = FALSE
  /\ sem' = sem + 1
  /\ cpc' = "deliver"
  /\ UNCHANGED <<exitFlag, drainFlag, signaled, woken, xpc>>
  /\ UNCHANGED prodVars /\ UNCHANGED histVars

(* The queue is taken whole; a unit of the semaphore returns for each      *)
(* event.  run() goes round again whether or not EXIT is set, for without  *)
(* it nothing says stop and with it DRAIN and EVENT are set as well.       *)
GetTaken ==
  /\ cpc = "get" /\ queueFlag
  /\ exitFlag => drainFlag
  /\ buf' = queue /\ queue' = <<>>
  /\ queueFlag' = FALSE
  /\ sem' = sem + Len(queue)
  /\ cpc' = "deliver"
  /\ UNCHANGED <<exitFlag, drainFlag, signaled, woken, xpc>>
  /\ UNCHANGED prodVars /\ UNCHANGED histVars

(* EXIT without DRAIN: the events are dropped and one unit returned.       *)
GetDiscarded ==
  /\ cpc = "get" /\ queueFlag /\ exitFlag /\ ~drainFlag
  /\ queue' = <<>> /\ queueFlag' = FALSE
  /\ signaled' = FALSE
  /\ sem' = sem + 1
  /\ discarded' = TRUE
  /\ cpc' = "done"
  /\ UNCHANGED <<exitFlag, drainFlag, woken, xpc, buf, accepted, delivered>>
  /\ UNCHANGED prodVars

(* Faulty: leaves on EXIT even though there are events to drain.           *)
GetExitEarly ==
  /\ cpc = "get" /\ exitFlag
  /\ cpc' = "done"
  /\ UNCHANGED <<queue, sem, signaled, woken, xpc, buf>>
  /\ UNCHANGED flagVars /\ UNCHANGED prodVars /\ UNCHANGED histVars

GetExit ==
  /\ cpc = "get" /\ ~queueFlag /\ exitFlag
  /\ cpc' = "done"
  /\ UNCHANGED <<queue, sem, signaled, woken, xpc, buf>>
  /\ UNCHANGED flagVars /\ UNCHANGED prodVars /\ UNCHANGED histVars

(* Nothing to do: ev_consumer is reset while the mutex is still held.      *)
GetReset ==
  /\ cpc = "get" /\ ~queueFlag /\ ~exitFlag
  /\ signaled' = FALSE
  /\ cpc' = "wait"
  /\ UNCHANGED <<queue, sem, woken, xpc, buf>>
  /\ UNCHANGED flagVars /\ UNCHANGED prodVars /\ UNCHANGED histVars

(* Faulty: resets ev_consumer after the mutex is released, before it waits. *)
EventWaitReset ==
  /\ cpc = "wait"
  /\ cpc' = "blocked"
  /\ woken' = FALSE /\ signaled' = FALSE
  /\ UNCHANGED <<queue, sem, xpc, buf>>
  /\ UNCHANGED flagVars /\ UNCHANGED prodVars /\ UNCHANGED histVars

(* ManualResetEvent::wait.                                                 *)
EventWait ==
  /\ cpc = "wait"
  /\ cpc' = IF signaled THEN "get" ELSE "blocked"
  /\ woken' = FALSE
  /\ UNCHANGED <<queue, sem, signaled, xpc, buf>>
  /\ UNCHANGED flagVars /\ UNCHANGED prodVars /\ UNCHANGED histVars

EventWoken ==
  /\ cpc = "blocked" /\ woken
  /\ cpc' = "get"
  /\ UNCHANGED <<queue, sem, signaled, woken, xpc, buf>>
  /\ UNCHANGED flagVars /\ UNCHANGED prodVars /\ UNCHANGED histVars

(* appendLoopOnAppenders for the next event of the buffer.                 *)
Deliver ==
  /\ cpc = "deliver" /\ buf # <<>>
  /\ delivered' = Append(delivered, Head(buf))
  /\ buf' = Tail(buf)
  /\ UNCHANGED <<queue, sem, signaled, woken, xpc, cpc, accepted, discarded>>
  /\ UNCHANGED flagVars /\ UNCHANGED prodVars

Delivered ==
  /\ cpc = "deliver" /\ buf = <<>>
  /\ cpc' = "get"
  /\ UNCHANGED <<queue, sem, signaled, woken, xpc, buf>>
  /\ UNCHANGED flagVars /\ UNCHANGED prodVars /\ UNCHANGED histVars

(* An appender throws: the exception ends the thread.                      *)
AppenderThrows ==
  /\ MayThrow /\ cpc = "deliver" /\ buf # <<>>
  /\ cpc' = "dead"
  /\ UNCHANGED <<queue, sem, signaled, woken, xpc, buf>>
  /\ UNCHANGED flagVars /\ UNCHANGED prodVars /\ UNCHANGED histVars

-----------------------------------------------------------------------------
PutContinues(p) ==
  SemLock(p) \/ PutRefused(p) \/ SemUnlock(p) \/ PutStored(p) \/ PutSignal(p)

Producer(p) == PutEvent(p) \/ PutContinues(p)

Closer(x) == (\E d \in Drains : SignalExit(x, d)) \/ ExitSignal(x)

Consumer ==
  GetTaken \/ GetDiscarded \/ GetExit \/ GetReset \/ EventWait \/ EventWoken
    \/ Deliver \/ Delivered \/ AppenderThrows

Next ==
  \/ \E p \in Producers : Producer(p)
  \/ \E x \in Closers : Closer(x)
  \/ Consumer

Spec == Init /\ [][Next]_vars

(* A thread inside a call is scheduled as long as it can take a step;      *)
(* nothing obliges a thread to begin a call of put_event or signal_exit.   *)
FairSpec ==
  /\ Spec
  /\ WF_vars(Consumer)
  /\ \A p \in Producers : WF_vars(PutContinues(p))
  /\ \A x \in Closers : WF_vars(ExitSignal(x))

-----------------------------------------------------------------------------
(* Safety                                                                  *)

(* Producers between the semaphore and the point where they detach from it *)
(* or give it back.                                                        *)
Holding == {p \in Producers : ppc[p] \in {"mutex", "release"}}

(* Every unit of the semaphore is free, held by a producer or stands for a *)
(* stored event, so Semaphore::unlock never throws and the queue never     *)
(* exceeds its limit.  A discard returns one unit for all the events; from *)
(* then on units may be missing but none is ever made up.                  *)
SemAccounting ==
  /\ sem + Len(queue) + Cardinality(Holding) <= MaxLen
  /\ ~discarded => sem + Len(queue) + Cardinality(Holding) = MaxLen

(* Flag QUEUE says whether events are stored: the assertions of get_events *)
(* hold and no stored event is overlooked.                                 *)
FlagMatchesQueue == queueFlag <=> queue # <<>>

(* A consumer that sleeps, or is about to, while there is something for it *)
(* to do has a signal on its way: no wakeup is lost between the mutex      *)
(* section of get_events and ev_consumer.wait().                           *)
NoLostWakeup ==
  (/\ \/ cpc = "wait" /\ ~signaled
      \/ cpc = "blocked" /\ ~woken
   /\ queueFlag \/ exitFlag)
  => \/ \E p \in Producers : ppc[p] = "signal"
     \/ \E x \in Closers : xpc[x] = "signal"

(* What was delivered, what the consumer holds and what is stored make up, *)
(* in this order, what put_event accepted: no event is lost, repeated or   *)
(* overtaken unless the queue was told not to drain.                       *)
Fifo == ~discarded => (delivered \o buf) \o queue = accepted

(* A consumer that has left its loop after signal_exit(true) has delivered *)
(* every event that put_event stored, those stored during the drain        *)
(* included.                                                               *)
DrainComplete == cpc = "done" /\ drainFlag => delivered = accepted

(* The queue with its consumer implements the abstract channel.            *)
Channel == INSTANCE EventChannel WITH
  Event <- Events, pending <- buf \o queue, delivered <- delivered,
  open <- ~exitFlag, drain <- drainFlag

ImplementsChannel == Channel!Spec

-----------------------------------------------------------------------------
(* Liveness                                                                *)

(* A call of put_event returns, whether it finds room, waits for room or   *)
(* waits while signal_exit is called, and also when nobody ever calls it,  *)
(* as long as the consumer has not died and the limit is not zero: a       *)
(* semaphore made with zero can never be locked (queue.cxx:40).            *)
PutReturns ==
  MaxLen > 0 =>
    \A p \in Producers : ppc[p] # "idle" ~> ppc[p] = "idle" \/ cpc = "dead"

(* signal_exit ends the consumer, however many events are left and whoever *)
(* is blocked in put_event at that moment.                                 *)
ConsumerStops == exitFlag ~> cpc \in {"done", "dead"}

=============================================================================
