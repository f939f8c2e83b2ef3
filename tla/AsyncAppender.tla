---------------------------- MODULE AsyncAppender ----------------------------
(***************************************************************************)
(* AsyncAppender (src/asyncappender.cxx) around thread::Queue: the threads *)
(* that log call append() under the appender's access mutex, the threads   *)
(* that shut down call close(), which takes no lock, and the QueueThread   *)
(* hands the events to the attached appenders.                             *)
(*                                                                         *)
(* close() may run beside append() and beside another close(), and may     *)
(* release the queue and its thread under them.  What a use of a released  *)
(* object does is undefined: the modelled behaviour ends there (Undefined).*)
(***************************************************************************)
EXTENDS Queue

CONSTANTS
  Nobody,      \* owner of the free access mutex
  FailPoints   \* points of put_event at which a runtime_error may be thrown

ASSUME AsyncAssumption ==
  /\ Nobody \notin Producers
  /\ FailPoints \subseteq {"sem", "signal"}

VARIABLES
  owner,      \* who holds access_mutex
  apc,        \* where each logging thread is in doAppend
  kpc,        \* where each closing thread is in close()
  threadPtr,  \* queue_thread is not null
  queuePtr,   \* queue is not null
  attached,   \* appenders are attached
  running,    \* flag fRUNNING of the queue thread
  joined      \* flag fJOINED of the queue thread

queueVars == vars
ownVars == <<owner, apc, kpc, threadPtr, queuePtr, attached, running, joined>>
asyncVars == <<vars, ownVars>>

AsyncTypeOK ==
  /\ TypeOK
  /\ owner \in Producers \union {Nobody}
  /\ apc \in [Producers -> {"idle", "lock", "check", "use", "put", "error",
                            "errorSignal", "errorJoin", "sync", "unlock"}]
  /\ \A p \in Producers : apc[p] \notin {"idle", "lock"} <=> owner = p
  /\ kpc \in [Closers -> {"idle", "exit", "check", "join", "remove", "null", "closed"}]
  /\ {threadPtr, queuePtr, attached, running, joined} \subseteq BOOLEAN

(* The constructors: one appender attached, the queue thread started.      *)
AsyncInit ==
  /\ Init
  /\ owner = Nobody
  /\ apc = [p \in Producers |-> "idle"]
  /\ kpc = [x \in Closers |-> "idle"]
  /\ threadPtr = TRUE /\ queuePtr = TRUE /\ attached = TRUE
  /\ running = TRUE /\ joined = FALSE

-----------------------------------------------------------------------------
(* Undefined behaviour                                                     *)

(* Threads that use the queue or its thread: inside append() from the test *)
(* of queue_thread on, inside signal_exit and inside join.                 *)
Using ==
  {p \in Producers : apc[p] \in {"use", "put", "error", "errorSignal", "errorJoin"}}
    \union {x \in Closers : xpc[x] = "signal" \/ kpc[x] = "join"}

(* Threads inside std::thread::join, which only one may call.              *)
Joining ==
  {p \in Producers : apc[p] = "errorJoin"} \union {x \in Closers : kpc[x] = "join"}

Undefined ==
  \/ Using # {} /\ ~queuePtr
  \/ Cardinality(Joining) > 1 /\ ~joined

-----------------------------------------------------------------------------
(* The calls that the application makes                                    *)

Call(p) ==
  /\ apc[p] = "idle" /\ puts[p] < MaxPuts
  /\ apc' = [apc EXCEPT ![p] = "lock"]
  /\ UNCHANGED queueVars
  /\ UNCHANGED <<owner, kpc, threadPtr, queuePtr, attached, running, joined>>

CallClose(x) ==
  /\ kpc[x] = "idle"
  /\ kpc' = [kpc EXCEPT ![x] = "exit"]
  /\ UNCHANGED queueVars
  /\ UNCHANGED <<owner, apc, threadPtr, queuePtr, attached, running, joined>>

-----------------------------------------------------------------------------
(* Appender::syncDoAppend and AsyncAppender::append                        *)

Lock(p) ==
  /\ apc[p] = "lock" /\ owner = Nobody
  /\ owner' = p
  /\ apc' = [apc EXCEPT ![p] = "check"]
  /\ UNCHANGED queueVars
  /\ UNCHANGED <<kpc, threadPtr, queuePtr, attached, running, joined>>

(* The branch on queue_thread && queue_thread->isRunning (), before the    *)
(* use of queue.                                                           *)
AppendQueued(p) ==
  /\ apc[p] = "check" /\ threadPtr /\ running
  /\ apc' = [apc EXCEPT ![p] = "use"]
  /\ UNCHANGED queueVars
  /\ UNCHANGED <<owner, kpc, threadPtr, queuePtr, attached, running, joined>>

BeginPut(p) ==
  /\ apc[p] = "use"
  /\ PutEvent(p)
  /\ apc' = [apc EXCEPT ![p] = "put"]
  /\ UNCHANGED <<owner, kpc, threadPtr, queuePtr, attached, running, joined>>

AppendDirect(p) ==
  /\ apc[p] = "check" /\ ~(threadPtr /\ running)
  /\ puts' = [puts EXCEPT ![p] = @ + 1]
  /\ apc' = [apc EXCEPT ![p] = "sync"]
  /\ UNCHANGED <<queue, sem, signaled, woken, ppc, xpc>>
  /\ UNCHANGED flagVars /\ UNCHANGED consVars /\ UNCHANGED histVars
  /\ UNCHANGED <<owner, kpc, threadPtr, queuePtr, attached, running, joined>>

(* put_event on the queue, and its return without an error flag.           *)
Put(p) ==
  /\ apc[p] = "put"
  /\ PutContinues(p)
  /\ apc' = [apc EXCEPT ![p] = IF ppc'[p] = "idle" THEN "unlock" ELSE "put"]
  /\ UNCHANGED <<owner, kpc, threadPtr, queuePtr, attached, running, joined>>

(* put_event returns ERROR_BIT or ERROR_AFTER.                             *)
PutFails(p) ==
  /\ apc[p] = "put" /\ ppc[p] \in FailPoints
  /\ ppc' = [ppc EXCEPT ![p] = "idle"]
  /\ apc' = [apc EXCEPT ![p] = "error"]
  /\ UNCHANGED <<queue, sem, signaled, woken, puts, xpc>>
  /\ UNCHANGED flagVars /\ UNCHANGED consVars /\ UNCHANGED histVars
  /\ UNCHANGED <<owner, kpc, threadPtr, queuePtr, attached, running, joined>>

(* queue->signal_exit (false)                                              *)
ErrorExit(p) ==
  /\ apc[p] = "error"
  /\ SetExit(FALSE)
  /\ apc' = [apc EXCEPT ![p] = IF exitFlag THEN "errorJoin" ELSE "errorSignal"]
  /\ UNCHANGED <<queue, queueFlag, sem, signaled, woken, xpc>>
  /\ UNCHANGED prodVars /\ UNCHANGED consVars /\ UNCHANGED histVars
  /\ UNCHANGED <<owner, kpc, threadPtr, queuePtr, attached, running, joined>>

(* Faulty: does not wake the queue thread before joining it.               *)
ErrorSignalNone(p) ==
  /\ apc[p] = "errorSignal"
  /\ apc' = [apc EXCEPT ![p] = "errorJoin"]
  /\ UNCHANGED queueVars
  /\ UNCHANGED <<owner, kpc, threadPtr, queuePtr, attached, running, joined>>

ErrorSignal(p) ==
  /\ apc[p] = "errorSignal"
  /\ Signal
  /\ apc' = [apc EXCEPT ![p] = "errorJoin"]
  /\ UNCHANGED <<queue, sem, xpc>>
  /\ UNCHANGED flagVars /\ UNCHANGED prodVars /\ UNCHANGED consVars
  /\ UNCHANGED histVars
  /\ UNCHANGED <<owner, kpc, threadPtr, queuePtr, attached, running, joined>>

(* Faulty: falls back without waiting for the queue thread.                *)
ErrorJoinNot(p) ==
  /\ apc[p] = "errorJoin"
  /\ threadPtr' = FALSE /\ queuePtr' = FALSE
  /\ apc' = [apc EXCEPT ![p] = "sync"]
  /\ UNCHANGED queueVars
  /\ UNCHANGED <<owner, kpc, attached, running, joined>>

ErrorJoin(p) ==
  /\ apc[p] = "errorJoin" /\ ~running /\ ~joined
  /\ threadPtr' = FALSE /\ queuePtr' = FALSE
  /\ apc' = [apc EXCEPT ![p] = "sync"]
  /\ UNCHANGED queueVars
  /\ UNCHANGED <<owner, kpc, attached, running, joined>>

(* close() has joined the thread: join() throws a logic_error, which       *)
(* leaves append().                                                        *)
ErrorJoinThrows(p) ==
  /\ apc[p] = "errorJoin" /\ joined
  /\ apc' = [apc EXCEPT ![p] = "unlock"]
  /\ UNCHANGED queueVars
  /\ UNCHANGED <<owner, kpc, threadPtr, queuePtr, attached, running, joined>>

(* appendLoopOnAppenders                                                   *)
AppendLoop(e) == delivered' = IF attached THEN Append(delivered, e) ELSE delivered

AppendSync(p) ==
  /\ apc[p] = "sync"
  /\ AppendLoop(CurrentEvent(p))
  /\ apc' = [apc EXCEPT ![p] = "unlock"]
  /\ UNCHANGED <<queue, sem, signaled, woken, xpc, accepted, discarded>>
  /\ UNCHANGED flagVars /\ UNCHANGED prodVars /\ UNCHANGED consVars
  /\ UNCHANGED <<owner, kpc, threadPtr, queuePtr, attached, running, joined>>

Unlock(p) ==
  /\ apc[p] = "unlock"
  /\ owner' = Nobody
  /\ apc' = [apc EXCEPT ![p] = "idle"]
  /\ UNCHANGED queueVars
  /\ UNCHANGED <<kpc, threadPtr, queuePtr, attached, running, joined>>

-----------------------------------------------------------------------------
(* AsyncAppender::close                                                    *)

CloseExit(x) ==
  /\ kpc[x] = "exit"
  /\ \/ queuePtr /\ (SignalExit(x, TRUE) \/ ExitSignal(x))
     \/ ~queuePtr /\ UNCHANGED queueVars
  /\ kpc' = [kpc EXCEPT ![x] =
              IF queuePtr /\ xpc'[x] = "signal" THEN "exit" ELSE "check"]
  /\ UNCHANGED <<owner, apc, threadPtr, queuePtr, attached, running, joined>>

(* queue_thread && queue_thread->isRunning ()                              *)
CloseCheck(x) ==
  /\ kpc[x] = "check"
  /\ kpc' = [kpc EXCEPT ![x] = IF threadPtr /\ running THEN "join" ELSE "remove"]
  /\ UNCHANGED queueVars
  /\ UNCHANGED <<owner, apc, threadPtr, queuePtr, attached, running, joined>>

(* Faulty: removes the appenders without waiting for the queue thread.     *)
CloseJoinNot(x) ==
  /\ kpc[x] = "join"
  /\ kpc' = [kpc EXCEPT ![x] = "remove"]
  /\ UNCHANGED queueVars
  /\ UNCHANGED <<owner, apc, threadPtr, queuePtr, attached, running, joined>>

CloseJoin(x) ==
  /\ kpc[x] = "join" /\ ~running
  /\ joined' = TRUE
  /\ kpc' = [kpc EXCEPT ![x] = "remove"]
  /\ UNCHANGED queueVars
  /\ UNCHANGED <<owner, apc, threadPtr, queuePtr, attached, running>>

(* removeAllAppenders                                                      *)
CloseRemove(x) ==
  /\ kpc[x] = "remove"
  /\ attached' = FALSE
  /\ kpc' = [kpc EXCEPT ![x] = "null"]
  /\ UNCHANGED queueVars
  /\ UNCHANGED <<owner, apc, threadPtr, queuePtr, running, joined>>

CloseNull(x) ==
  /\ kpc[x] = "null"
  /\ threadPtr' = FALSE /\ queuePtr' = FALSE
  /\ kpc' = [kpc EXCEPT ![x] = "closed"]
  /\ UNCHANGED queueVars
  /\ UNCHANGED <<owner, apc, attached, running, joined>>

-----------------------------------------------------------------------------
(* The queue thread: QueueThread::run under AbstractThread::start          *)

RunGet ==
  /\ \/ GetTaken \/ GetDiscarded \/ GetExit \/ GetReset \/ EventWait \/ EventWoken
     \/ Delivered \/ AppenderThrows
  /\ UNCHANGED ownVars

RunAppend ==
  /\ cpc = "deliver" /\ buf # <<>>
  /\ AppendLoop(Head(buf))
  /\ buf' = Tail(buf)
  /\ UNCHANGED <<queue, sem, signaled, woken, xpc, cpc, accepted, discarded>>
  /\ UNCHANGED flagVars /\ UNCHANGED prodVars /\ UNCHANGED ownVars

RunEnds ==
  /\ running /\ cpc \in {"done", "dead"}
  /\ running' = FALSE
  /\ UNCHANGED queueVars
  /\ UNCHANGED <<owner, apc, kpc, threadPtr, queuePtr, attached, joined>>

-----------------------------------------------------------------------------
Appending(p) ==
  \/ Lock(p) \/ AppendQueued(p) \/ AppendDirect(p) \/ BeginPut(p) \/ Put(p)
  \/ ErrorExit(p) \/ ErrorSignal(p) \/ ErrorJoin(p) \/ ErrorJoinThrows(p)
  \/ AppendSync(p) \/ Unlock(p)

Closing(x) ==
  CloseExit(x) \/ CloseCheck(x) \/ CloseJoin(x) \/ CloseRemove(x) \/ CloseNull(x)

QueueThread == RunGet \/ RunAppend \/ RunEnds

AsyncNext ==
  /\ ~Undefined
  /\ \/ \E p \in Producers : Call(p) \/ Appending(p) \/ PutFails(p)
     \/ \E x \in Closers : CallClose(x) \/ Closing(x)
     \/ QueueThread

AsyncSpec == AsyncInit /\ [][AsyncNext]_asyncVars

(* Threads inside a call and the queue thread are scheduled; the           *)
(* application need not make another call, and put_event need not fail.    *)
AsyncFairSpec ==
  /\ AsyncSpec
  /\ WF_asyncVars(~Undefined /\ QueueThread)
  /\ \A p \in Producers : WF_asyncVars(~Undefined /\ Appending(p))
  /\ \A x \in Closers : WF_asyncVars(~Undefined /\ Closing(x))

-----------------------------------------------------------------------------
(* Closing the appender is safe while other threads log: nobody uses a     *)
(* queue or a thread that close() has released, and no thread is joined    *)
(* twice at once.  "Shutting down a hierarchy will safely close and remove *)
(* all appenders" (hierarchy.h:224) by calling close(), which takes no     *)
(* lock (asyncappender.cxx:155).                                           *)
CloseIsSafe == ~Undefined

(* The events of one thread reach the attached appenders in the order it   *)
(* logged them, also across the fall back from the queue to synchronous    *)
(* operation after an error or after the queue thread died, and while      *)
(* close() runs beside append().                                           *)
DeliveredInOrder ==
  \A i, j \in 1..Len(delivered) :
    i < j /\ delivered[i][1] = delivered[j][1] => delivered[i][2] <= delivered[j][2]

(* close() removes the attached appenders only after everything that was   *)
(* queued has reached them, what other threads queue while it runs         *)
(* included, unless the queue thread died or an error made append() give   *)
(* the queue up.                                                           *)
CloseFlushes ==
  ~attached /\ cpc = "done" /\ drainFlag =>
    \A i \in 1..Len(accepted) : \E j \in 1..Len(delivered) : delivered[j] = accepted[i]

(* Every call of append returns, whether it stores the event, waits for    *)
(* room, fails, falls back or meets a close(), also after the queue thread *)
(* has died, and without put_event having to fail.  The exceptions are a   *)
(* thread that dies while a call waits for room, a call that then hangs    *)
(* with access_mutex and lets no other go on, and a close() that has       *)
(* released what a call uses.                                              *)
AppendReturns ==
  \A p \in Producers :
    apc[p] = "lock" ~> \/ apc[p] = "idle"
                       \/ cpc = "dead" /\ \E q \in Producers : ppc[q] = "sem"
                       \/ Undefined

=============================================================================
