----------------------------- MODULE QueueProofs -----------------------------
(***************************************************************************)
(* Proofs about the queue for any number of producers and closers, any     *)
(* limit and any number of calls.                                          *)
(***************************************************************************)
EXTENDS Queue, FiniteSetTheorems, SequenceTheorems, TLAPS

(* Storing an event behind a concatenation appends it to the whole.        *)
LEMMA ConcatAppend ==
  ASSUME NEW S, NEW s \in Seq(S), NEW t \in Seq(S), NEW e \in S
  PROVE  s \o Append(t, e) = Append(s \o t, e)
  OBVIOUS

(* Moving the head of a buffer to the end of what was delivered leaves the *)
(* concatenation as it was.                                                *)
LEMMA ConcatMove ==
  ASSUME NEW S, NEW s \in Seq(S), NEW t \in Seq(S), t # <<>>
  PROVE  Append(s, Head(t)) \o Tail(t) = s \o t
  OBVIOUS

LEMMA ConcatEmpty ==
  ASSUME NEW S, NEW s \in Seq(S)
  PROVE  s \o <<>> = s /\ <<>> \o s = s
  OBVIOUS

LEMMA ConcatTail ==
  ASSUME NEW S, NEW s \in Seq(S), NEW t \in Seq(S), s # <<>>
  PROVE  /\ s \o t # <<>>
         /\ Head(s \o t) = Head(s)
         /\ Tail(s \o t) = Tail(s) \o t
  OBVIOUS

-----------------------------------------------------------------------------
(* Control: where the consumer is tells what its buffer and the flags say. *)
Control ==
  /\ FlagMatchesQueue
  /\ cpc \notin {"deliver", "dead"} => buf = <<>>
  /\ discarded => exitFlag /\ ~drainFlag /\ cpc = "done"
  /\ cpc = "done" => exitFlag /\ ~queueFlag

(* The set of producers that hold a unit of the semaphore is finite.       *)
LEMMA HoldingFinite ==
  IsFiniteSet(Holding) /\ Cardinality(Holding) \in Nat
<1>1. IsFiniteSet(Holding)
  BY QueueAssumption, FS_Subset DEF Holding
<1> QED
  BY <1>1, FS_CardinalityType

(* The terms of SemAccounting are natural numbers.                         *)
LEMMA Counters ==
  ASSUME TypeOK
  PROVE  /\ sem \in Nat /\ Len(queue) \in Nat /\ MaxLen \in Nat
         /\ Cardinality(Holding) \in Nat
<1>1. MaxLen \in Nat
  BY QueueAssumption
<1>2. sem \in Nat /\ Len(queue) \in Nat
  BY <1>1 DEF TypeOK
<1> QED
  BY <1>1, <1>2, HoldingFinite

(* The event that a call of put_event carries.                             *)
LEMMA EventTyped ==
  ASSUME TypeOK, NEW p \in Producers, ppc[p] # "idle"
  PROVE  CurrentEvent(p) \in Events
  BY QueueAssumption DEF TypeOK, CurrentEvent, Events

(* Every step keeps the units of the semaphore accounted for.              *)
LEMMA SemStep ==
  ASSUME TypeOK, Control, SemAccounting, [Next]_vars
  PROVE  SemAccounting'
<1>1. ASSUME NEW p \in Producers, PutEvent(p) PROVE SemAccounting'
  <2>1. Holding' = Holding
    BY <1>1 DEF TypeOK, PutEvent, Holding, prodVars
  <2> QED
    BY <1>1, <2>1 DEF SemAccounting, PutEvent, histVars
<1>2. ASSUME NEW p \in Producers, SemLock(p) PROVE SemAccounting'
  <2>1. Holding' = Holding \union {p} /\ p \notin Holding
    BY <1>2 DEF TypeOK, SemLock, Holding
  <2>2. Cardinality(Holding') = Cardinality(Holding) + 1
    BY <2>1, HoldingFinite, FS_AddElement
  <2> QED
    BY SMTT(40), <1>2, <2>2, Counters DEF SemAccounting, SemLock, histVars
<1>3. ASSUME NEW p \in Producers, PutRefused(p) PROVE SemAccounting'
  <2>1. Holding' = Holding
    BY <1>3 DEF TypeOK, PutRefused, Holding, prodVars
  <2> QED
    BY <1>3, <2>1 DEF SemAccounting, PutRefused, histVars
<1>4. ASSUME NEW p \in Producers, SemUnlock(p) PROVE SemAccounting'
  <2>1. Holding' = Holding \ {p} /\ p \in Holding
    BY <1>4 DEF TypeOK, SemUnlock, Holding
  <2>2. Cardinality(Holding') = Cardinality(Holding) - 1
    BY <2>1, HoldingFinite, FS_RemoveElement
  <2> QED
    BY SMTT(40), <1>4, <2>2, Counters DEF SemAccounting, SemUnlock, histVars
<1>5. ASSUME NEW p \in Producers, PutStored(p) PROVE SemAccounting'
  <2>1. Holding' = Holding \ {p} /\ p \in Holding
    BY <1>5 DEF TypeOK, PutStored, Holding
  <2>2. Cardinality(Holding') = Cardinality(Holding) - 1
    BY <2>1, HoldingFinite, FS_RemoveElement
  <2>3. Len(queue') = Len(queue) + 1
    BY <1>5, EventTyped DEF TypeOK, PutStored
  <2> QED
    BY <1>5, <2>2, <2>3, Counters DEF SemAccounting, PutStored
<1>6. ASSUME NEW p \in Producers, PutSignal(p) PROVE SemAccounting'
  <2>1. Holding' = Holding
    BY <1>6 DEF TypeOK, PutSignal, Holding, prodVars
  <2> QED
    BY <1>6, <2>1 DEF SemAccounting, PutSignal, histVars
<1>7. ASSUME NEW x \in Closers, NEW d \in Drains, SignalExit(x, d) PROVE SemAccounting'
  <2>1. Holding' = Holding
    BY <1>7 DEF TypeOK, SignalExit, Holding, prodVars
  <2> QED
    BY <1>7, <2>1 DEF SemAccounting, SignalExit, histVars
<1>8. ASSUME NEW x \in Closers, ExitSignal(x) PROVE SemAccounting'
  <2>1. Holding' = Holding
    BY <1>8 DEF TypeOK, ExitSignal, Holding, prodVars
  <2> QED
    BY <1>8, <2>1 DEF SemAccounting, ExitSignal, histVars
<1>9. CASE GetTaken
  <2>1. Holding' = Holding
    BY <1>9 DEF GetTaken, Holding, prodVars
  <2>2. Len(queue') = 0 /\ Len(queue) \in Nat
    BY <1>9 DEF GetTaken, TypeOK
  <2> QED
    BY <1>9, <2>1, <2>2, Counters DEF SemAccounting, GetTaken, histVars
<1>10. CASE GetDiscarded
  <2>1. Holding' = Holding
    BY <1>10 DEF GetDiscarded, Holding, prodVars
  <2>2. Len(queue') = 0 /\ Len(queue) >= 1
    BY <1>10 DEF GetDiscarded, TypeOK, Control, FlagMatchesQueue
  <2> QED
    BY <1>10, <2>1, <2>2, Counters DEF SemAccounting, GetDiscarded
<1>11. CASE GetExit
  <2>1. Holding' = Holding
    BY <1>11 DEF TypeOK, GetExit, Holding, prodVars
  <2> QED
    BY <1>11, <2>1 DEF SemAccounting, GetExit, histVars
<1>12. CASE GetReset
  <2>1. Holding' = Holding
    BY <1>12 DEF TypeOK, GetReset, Holding, prodVars
  <2> QED
    BY <1>12, <2>1 DEF SemAccounting, GetReset, histVars
<1>13. CASE EventWait
  <2>1. Holding' = Holding
    BY <1>13 DEF TypeOK, EventWait, Holding, prodVars
  <2> QED
    BY <1>13, <2>1 DEF SemAccounting, EventWait, histVars
<1>14. CASE EventWoken
  <2>1. Holding' = Holding
    BY <1>14 DEF TypeOK, EventWoken, Holding, prodVars
  <2> QED
    BY <1>14, <2>1 DEF SemAccounting, EventWoken, histVars
<1>15. CASE Deliver
  <2>1. Holding' = Holding
    BY <1>15 DEF TypeOK, Deliver, Holding, prodVars
  <2> QED
    BY <1>15, <2>1 DEF SemAccounting, Deliver, histVars
<1>16. CASE Delivered
  <2>1. Holding' = Holding
    BY <1>16 DEF TypeOK, Delivered, Holding, prodVars
  <2> QED
    BY <1>16, <2>1 DEF SemAccounting, Delivered, histVars
<1>17. CASE AppenderThrows
  <2>1. Holding' = Holding
    BY <1>17 DEF TypeOK, AppenderThrows, Holding, prodVars
  <2> QED
    BY <1>17, <2>1 DEF SemAccounting, AppenderThrows, histVars
<1>18. CASE UNCHANGED vars
  <2>1. Holding' = Holding
    BY <1>18 DEF TypeOK, vars, Holding
  <2> QED
    BY <1>18, <2>1 DEF SemAccounting, vars
<1> QED
  BY SMTT(40), <1>1, <1>2, <1>3, <1>4, <1>5, <1>6, <1>7, <1>8, <1>9, <1>10, <1>11, <1>12, <1>13, <1>14, <1>15, <1>16, <1>17, <1>18
  DEF Next, Producer, PutContinues, Closer, Consumer

(* Every step keeps the variables in their types, the semaphore within its *)
(* limits in particular.                                                   *)
LEMMA TypeStep ==
  ASSUME TypeOK, Control, SemAccounting, [Next]_vars
  PROVE  TypeOK'
<1> USE QueueAssumption
<1>1. ASSUME NEW p \in Producers, PutEvent(p) PROVE TypeOK'
  BY <1>1
  DEF TypeOK, PutEvent, flagVars, consVars, histVars
<1>2. ASSUME NEW p \in Producers, SemLock(p) PROVE TypeOK'
  BY <1>2
  DEF TypeOK, SemLock, flagVars, consVars, histVars
<1>3. ASSUME NEW p \in Producers, PutRefused(p) PROVE TypeOK'
  BY <1>3
  DEF TypeOK, PutRefused, flagVars, consVars, histVars
<1>4. ASSUME NEW p \in Producers, SemUnlock(p) PROVE TypeOK'
  <2>1. p \in Holding
    BY <1>4 DEF SemUnlock, Holding
  <2>2. Cardinality(Holding) # 0
    BY <2>1, HoldingFinite, FS_EmptySet
  <2>3. sem' \in 0..MaxLen
    BY <1>4, <2>2, Counters DEF SemAccounting, SemUnlock
  <2> QED
    BY <1>4, <2>3 DEF TypeOK, SemUnlock, flagVars, consVars, histVars
<1>5. ASSUME NEW p \in Producers, PutStored(p) PROVE TypeOK'
  <2>1. CurrentEvent(p) \in Events
    BY <1>5, EventTyped DEF PutStored
  <2> QED
    BY <1>5, <2>1 DEF TypeOK, PutStored, consVars
<1>6. ASSUME NEW p \in Producers, PutSignal(p) PROVE TypeOK'
  BY <1>6
  DEF TypeOK, PutSignal, Signal, flagVars, consVars, histVars
<1>7. ASSUME NEW x \in Closers, NEW d \in Drains, SignalExit(x, d)
      PROVE  TypeOK'
  BY <1>7
  DEF TypeOK, SignalExit, SetExit, prodVars, consVars, histVars
<1>8. ASSUME NEW x \in Closers, ExitSignal(x) PROVE TypeOK'
  BY <1>8
  DEF TypeOK, ExitSignal, Signal, flagVars, prodVars, consVars, histVars
<1>9. CASE GetTaken
  <2>1. sem' \in 0..MaxLen
    BY <1>9, Counters DEF SemAccounting, GetTaken
  <2>2. queue' \in Seq(Events) /\ buf' \in Seq(Events)
    BY <1>9 DEF TypeOK, GetTaken
  <2>3. cpc' \in {"get", "wait", "blocked", "deliver", "done", "dead"}
    BY <1>9 DEF GetTaken
  <2>4. queueFlag' \in BOOLEAN
    BY ZenonT(40), <1>9 DEF GetTaken
  <2>5. UNCHANGED <<exitFlag, drainFlag, signaled, woken, xpc, ppc, puts, accepted,
                    delivered, discarded>>
    BY <1>9 DEF GetTaken, prodVars, histVars
  <2> QED
    BY <2>1, <2>2, <2>3, <2>4, <2>5 DEF TypeOK
<1>10. CASE GetDiscarded
  <2>1. Len(queue) # 0
    BY <1>10 DEF GetDiscarded, TypeOK, Control, FlagMatchesQueue
  <2>2. sem' \in 0..MaxLen
    BY <1>10, <2>1, Counters DEF SemAccounting, GetDiscarded
  <2>3. queue' \in Seq(Events)
    BY <1>10 DEF GetDiscarded
  <2>4. cpc' = "done" /\ ~queueFlag' /\ ~signaled' /\ discarded'
    BY <1>10 DEF GetDiscarded
  <2>5. UNCHANGED <<exitFlag, drainFlag, woken, xpc, buf, ppc, puts, accepted,
                    delivered>>
    BY <1>10 DEF GetDiscarded, prodVars
  <2>6. queueFlag' \in BOOLEAN /\ signaled' \in BOOLEAN /\ discarded' \in BOOLEAN
    BY ZenonT(40), <1>10 DEF GetDiscarded
  <2> QED
    BY <2>2, <2>3, <2>4, <2>5, <2>6 DEF TypeOK
<1>11. CASE GetExit
  BY <1>11
  DEF TypeOK, GetExit, flagVars, prodVars, histVars
<1>12. CASE GetReset
  BY ZenonT(40), <1>12
  DEF TypeOK, GetReset, flagVars, prodVars, histVars
<1>13. CASE EventWait
  BY ZenonT(40), <1>13
  DEF TypeOK, EventWait, flagVars, prodVars, histVars
<1>14. CASE EventWoken
  BY <1>14
  DEF TypeOK, EventWoken, flagVars, prodVars, histVars
<1>15. CASE Deliver
  BY <1>15
  DEF TypeOK, Deliver, flagVars, prodVars
<1>16. CASE Delivered
  BY <1>16
  DEF TypeOK, Delivered, flagVars, prodVars, histVars
<1>17. CASE AppenderThrows
  BY SMTT(40), <1>17
  DEF TypeOK, AppenderThrows, flagVars, prodVars, histVars
<1>18. CASE UNCHANGED vars
  BY <1>18 DEF TypeOK, vars
<1> QED
  BY SMTT(40), <1>1, <1>2, <1>3, <1>4, <1>5, <1>6, <1>7, <1>8, <1>9, <1>10, <1>11, <1>12, <1>13, <1>14, <1>15, <1>16, <1>17, <1>18
  DEF Next, Producer, PutContinues, Closer, Consumer

(* Every step keeps the control invariant.                                 *)
LEMMA ControlStep ==
  ASSUME TypeOK, Control, [Next]_vars
  PROVE  Control'
<1>1. ASSUME NEW p \in Producers, PutEvent(p) PROVE Control'
  BY <1>1
  DEF TypeOK, Control, FlagMatchesQueue, PutEvent, flagVars, consVars, histVars
<1>2. ASSUME NEW p \in Producers, SemLock(p) PROVE Control'
  BY <1>2
  DEF TypeOK, Control, FlagMatchesQueue, SemLock, flagVars, consVars, histVars
<1>3. ASSUME NEW p \in Producers, PutRefused(p) PROVE Control'
  BY <1>3
  DEF TypeOK, Control, FlagMatchesQueue, PutRefused, flagVars, consVars, histVars
<1>4. ASSUME NEW p \in Producers, SemUnlock(p) PROVE Control'
  BY <1>4
  DEF TypeOK, Control, FlagMatchesQueue, SemUnlock, flagVars, consVars, histVars
<1>5. ASSUME NEW p \in Producers, PutStored(p) PROVE Control'
  <2>1. CurrentEvent(p) \in Events
    BY <1>5, EventTyped DEF PutStored
  <2>2. queue' # <<>>
    BY <1>5, <2>1 DEF TypeOK, PutStored
  <2> QED
    BY <1>5, <2>2 DEF TypeOK, Control, FlagMatchesQueue, PutStored, consVars
<1>6. ASSUME NEW p \in Producers, PutSignal(p) PROVE Control'
  BY <1>6
  DEF TypeOK, Control, FlagMatchesQueue, PutSignal, Signal, flagVars, consVars, histVars
<1>7. ASSUME NEW x \in Closers, NEW d \in Drains, SignalExit(x, d)
      PROVE  Control'
  BY <1>7
  DEF TypeOK, Control, FlagMatchesQueue, SignalExit, SetExit, prodVars, consVars, histVars
<1>8. ASSUME NEW x \in Closers, ExitSignal(x) PROVE Control'
  BY <1>8
  DEF TypeOK, Control, FlagMatchesQueue, ExitSignal, Signal, flagVars, prodVars, consVars, histVars
<1>9. CASE GetTaken
  BY <1>9
  DEF TypeOK, Control, FlagMatchesQueue, GetTaken, prodVars, histVars
<1>10. CASE GetDiscarded
  BY <1>10
  DEF TypeOK, Control, FlagMatchesQueue, GetDiscarded, prodVars
<1>11. CASE GetExit
  BY <1>11
  DEF TypeOK, Control, FlagMatchesQueue, GetExit, flagVars, prodVars, histVars
<1>12. CASE GetReset
  BY <1>12
  DEF TypeOK, Control, FlagMatchesQueue, GetReset, flagVars, prodVars, histVars
<1>13. CASE EventWait
  BY <1>13
  DEF TypeOK, Control, FlagMatchesQueue, EventWait, flagVars, prodVars, histVars
<1>14. CASE EventWoken
  BY <1>14
  DEF TypeOK, Control, FlagMatchesQueue, EventWoken, flagVars, prodVars, histVars
<1>15. CASE Deliver
  BY <1>15
  DEF TypeOK, Control, FlagMatchesQueue, Deliver, flagVars, prodVars
<1>16. CASE Delivered
  BY <1>16
  DEF TypeOK, Control, FlagMatchesQueue, Delivered, flagVars, prodVars, histVars
<1>17. CASE AppenderThrows
  BY <1>17
  DEF TypeOK, Control, FlagMatchesQueue, AppenderThrows, flagVars, prodVars, histVars
<1>18. CASE UNCHANGED vars
  BY SMTT(40), <1>18 DEF TypeOK, Control, FlagMatchesQueue, vars
<1> QED
  BY SMTT(40), <1>1, <1>2, <1>3, <1>4, <1>5, <1>6, <1>7, <1>8, <1>9, <1>10, <1>11, <1>12, <1>13, <1>14, <1>15, <1>16, <1>17, <1>18
  DEF Next, Producer, PutContinues, Closer, Consumer

(* Every step keeps the events in order.                                   *)
LEMMA FifoStep ==
  ASSUME TypeOK, Control, Fifo, [Next]_vars
  PROVE  Fifo'
<1>1. ASSUME NEW p \in Producers, PutEvent(p) PROVE Fifo'
  BY <1>1 DEF Fifo, PutEvent, flagVars, consVars, histVars
<1>2. ASSUME NEW p \in Producers, SemLock(p) PROVE Fifo'
  BY <1>2 DEF Fifo, SemLock, flagVars, consVars, histVars
<1>3. ASSUME NEW p \in Producers, PutRefused(p) PROVE Fifo'
  BY <1>3 DEF Fifo, PutRefused, flagVars, consVars, histVars
<1>4. ASSUME NEW p \in Producers, SemUnlock(p) PROVE Fifo'
  BY <1>4 DEF Fifo, SemUnlock, flagVars, consVars, histVars
<1>5. ASSUME NEW p \in Producers, PutStored(p) PROVE Fifo'
  <2>1. CurrentEvent(p) \in Events
    BY <1>5, EventTyped DEF PutStored
  <2>2. delivered \o buf \in Seq(Events) /\ queue \in Seq(Events)
    BY DEF TypeOK
  <2>3. (delivered \o buf) \o Append(queue, CurrentEvent(p))
          = Append((delivered \o buf) \o queue, CurrentEvent(p))
    BY <2>1, <2>2, ConcatAppend
  <2> QED
    BY <1>5, <2>3 DEF Fifo, PutStored, consVars
<1>6. ASSUME NEW p \in Producers, PutSignal(p) PROVE Fifo'
  BY <1>6 DEF Fifo, PutSignal, Signal, flagVars, consVars, histVars
<1>7. ASSUME NEW x \in Closers, NEW d \in Drains, SignalExit(x, d)
      PROVE  Fifo'
  BY <1>7 DEF Fifo, SignalExit, SetExit, prodVars, consVars, histVars
<1>8. ASSUME NEW x \in Closers, ExitSignal(x) PROVE Fifo'
  BY <1>8 DEF Fifo, ExitSignal, Signal, flagVars, prodVars, consVars, histVars
<1>9. CASE GetTaken
  <2>1. buf = <<>> /\ queue \in Seq(Events) /\ delivered \in Seq(Events)
    BY <1>9 DEF TypeOK, Control, GetTaken
  <2>2. (delivered \o buf) \o queue = delivered \o queue
    BY <2>1, ConcatEmpty
  <2>3. (delivered \o queue) \o <<>> = delivered \o queue
    BY <2>1, ConcatEmpty
  <2> QED
    BY <1>9, <2>2, <2>3 DEF Fifo, GetTaken, histVars
<1>10. CASE GetDiscarded
  BY <1>10 DEF Fifo, GetDiscarded, prodVars
<1>11. CASE GetExit
  BY <1>11 DEF Fifo, GetExit, flagVars, prodVars, histVars
<1>12. CASE GetReset
  BY <1>12 DEF Fifo, GetReset, flagVars, prodVars, histVars
<1>13. CASE EventWait
  BY <1>13 DEF Fifo, EventWait, flagVars, prodVars, histVars
<1>14. CASE EventWoken
  BY <1>14 DEF Fifo, EventWoken, flagVars, prodVars, histVars
<1>15. CASE Deliver
  <2>1. Append(delivered, Head(buf)) \o Tail(buf) = delivered \o buf
    BY ZenonT(40), <1>15, ConcatMove DEF TypeOK, Deliver
  <2> QED
    BY SMTT(40), <1>15, <2>1 DEF Fifo, Deliver
<1>16. CASE Delivered
  BY <1>16 DEF Fifo, Delivered, flagVars, prodVars, histVars
<1>17. CASE AppenderThrows
  BY <1>17 DEF Fifo, AppenderThrows, flagVars, prodVars, histVars
<1>18. CASE UNCHANGED vars
  BY <1>18 DEF Fifo, vars
<1> QED
  BY <1>1, <1>2, <1>3, <1>4, <1>5, <1>6, <1>7, <1>8, <1>9, <1>10, <1>11, <1>12, <1>13, <1>14, <1>15, <1>16, <1>17, <1>18
  DEF Next, Producer, PutContinues, Closer, Consumer

(* Every step keeps the promise of a signal to a sleeping consumer.        *)
LEMMA WakeupStep ==
  ASSUME TypeOK, NoLostWakeup, [Next]_vars
  PROVE  NoLostWakeup'
<1>1. ASSUME NEW p \in Producers, PutEvent(p) PROVE NoLostWakeup'
  BY <1>1
  DEF TypeOK, NoLostWakeup, PutEvent, flagVars, consVars, histVars
<1>2. ASSUME NEW p \in Producers, SemLock(p) PROVE NoLostWakeup'
  BY <1>2
  DEF TypeOK, NoLostWakeup, SemLock, flagVars, consVars, histVars
<1>3. ASSUME NEW p \in Producers, PutRefused(p) PROVE NoLostWakeup'
  BY <1>3
  DEF TypeOK, NoLostWakeup, PutRefused, flagVars, consVars, histVars
<1>4. ASSUME NEW p \in Producers, SemUnlock(p) PROVE NoLostWakeup'
  BY <1>4
  DEF TypeOK, NoLostWakeup, SemUnlock, flagVars, consVars, histVars
<1>5. ASSUME NEW p \in Producers, PutStored(p) PROVE NoLostWakeup'
  BY <1>5
  DEF TypeOK, NoLostWakeup, PutStored, consVars
<1>6. ASSUME NEW p \in Producers, PutSignal(p) PROVE NoLostWakeup'
  BY <1>6
  DEF TypeOK, NoLostWakeup, PutSignal, Signal, flagVars, consVars, histVars
<1>7. ASSUME NEW x \in Closers, NEW d \in Drains, SignalExit(x, d)
      PROVE  NoLostWakeup'
  BY <1>7
  DEF TypeOK, NoLostWakeup, SignalExit, SetExit, prodVars, consVars, histVars
<1>8. ASSUME NEW x \in Closers, ExitSignal(x) PROVE NoLostWakeup'
  BY <1>8
  DEF TypeOK, NoLostWakeup, ExitSignal, Signal, flagVars, prodVars, consVars, histVars
<1>9. CASE GetTaken
  BY <1>9
  DEF TypeOK, NoLostWakeup, GetTaken, prodVars, histVars
<1>10. CASE GetDiscarded
  BY <1>10
  DEF TypeOK, NoLostWakeup, GetDiscarded, prodVars
<1>11. CASE GetExit
  BY <1>11
  DEF TypeOK, NoLostWakeup, GetExit, flagVars, prodVars, histVars
<1>12. CASE GetReset
  BY <1>12
  DEF TypeOK, NoLostWakeup, GetReset, flagVars, prodVars, histVars
<1>13. CASE EventWait
  BY <1>13
  DEF TypeOK, NoLostWakeup, EventWait, flagVars, prodVars, histVars
<1>14. CASE EventWoken
  BY <1>14
  DEF TypeOK, NoLostWakeup, EventWoken, flagVars, prodVars, histVars
<1>15. CASE Deliver
  BY <1>15
  DEF TypeOK, NoLostWakeup, Deliver, flagVars, prodVars
<1>16. CASE Delivered
  BY <1>16
  DEF TypeOK, NoLostWakeup, Delivered, flagVars, prodVars, histVars
<1>17. CASE AppenderThrows
  BY <1>17
  DEF TypeOK, NoLostWakeup, AppenderThrows, flagVars, prodVars, histVars
<1>18. CASE UNCHANGED vars
  BY <1>18 DEF TypeOK, NoLostWakeup, vars
<1> QED
  BY <1>1, <1>2, <1>3, <1>4, <1>5, <1>6, <1>7, <1>8, <1>9, <1>10, <1>11, <1>12, <1>13, <1>14, <1>15, <1>16, <1>17, <1>18
  DEF Next, Producer, PutContinues, Closer, Consumer

-----------------------------------------------------------------------------
(* The inductive invariant: Fifo needs to know that the buffer is empty    *)
(* when get_events fills it, SemAccounting that a discard frees at least   *)
(* one event.                                                              *)
Invariant == TypeOK /\ Control /\ SemAccounting /\ Fifo /\ NoLostWakeup

LEMMA InitInvariant == Init => Invariant
<1> SUFFICES ASSUME Init PROVE Invariant
  OBVIOUS
<1>1. Holding = {} /\ Cardinality(Holding) = 0
  BY ZenonT(40), FS_EmptySet DEF Init, Holding
<1>2. SemAccounting
  BY <1>1, QueueAssumption DEF Init, SemAccounting
<1>3. TypeOK
  <2>1. sem \in 0..MaxLen /\ puts \in [Producers -> 0..MaxPuts]
    BY QueueAssumption DEF Init
  <2>2. queue \in Seq(Events) /\ buf \in Seq(Events)
        /\ accepted \in Seq(Events) /\ delivered \in Seq(Events)
    BY DEF Init
  <2>3. \A p \in Producers : ppc[p] = "idle"
    BY DEF Init
  <2>4. /\ queueFlag \in BOOLEAN /\ exitFlag \in BOOLEAN /\ drainFlag \in BOOLEAN
        /\ signaled \in BOOLEAN /\ woken \in BOOLEAN /\ discarded \in BOOLEAN
    BY ZenonT(40) DEF Init
  <2>5. /\ ppc \in [Producers -> {"idle", "sem", "mutex", "release", "signal"}]
        /\ xpc \in [Closers -> {"idle", "signal", "done"}]
        /\ cpc \in {"get", "wait", "blocked", "deliver", "done", "dead"}
    BY DEF Init
  <2> QED
    BY <2>1, <2>2, <2>3, <2>4, <2>5 DEF TypeOK
<1>4. Control /\ NoLostWakeup
  BY DEF Init, Control, FlagMatchesQueue, NoLostWakeup
<1>5. Fifo
  BY DEF Init, Fifo
<1> QED
  BY <1>2, <1>3, <1>4, <1>5 DEF Invariant

LEMMA InvariantHolds == Spec => []Invariant
<1>1. Invariant /\ [Next]_vars => Invariant'
  BY TypeStep, ControlStep, SemStep, FifoStep, WakeupStep DEF Invariant
<1> QED
  BY <1>1, InitInvariant, PTL DEF Spec

(* The variables of the queue keep their types; the value of the semaphore *)
(* stays between zero and the limit given to the constructor.              *)
THEOREM TypeCorrect == Spec => []TypeOK
  BY InvariantHolds, PTL DEF Invariant

(* put_event, get_events and signal_exit never lose or make up a unit of   *)
(* the semaphore while the queue is drained: the queue respects its limit  *)
(* and Semaphore::unlock never throws.                                     *)
THEOREM SemaphoreAccounted == Spec => []SemAccounting
  BY InvariantHolds, PTL DEF Invariant

(* The assertions in get_events hold: QUEUE is set exactly when events are *)
(* stored.                                                                 *)
THEOREM FlagCorrect == Spec => []FlagMatchesQueue
  BY InvariantHolds, PTL DEF Invariant, Control

(* No wakeup of the consumer is lost between get_events' mutex section and *)
(* ev_consumer.wait().                                                     *)
THEOREM WakeupsKept == Spec => []NoLostWakeup
  BY InvariantHolds, PTL DEF Invariant

(* Events come out in the order they went in, none lost and none twice.    *)
THEOREM OrderKept == Spec => []Fifo
  BY InvariantHolds, PTL DEF Invariant

(* After signal_exit(true) QueueThread::run leaves nothing behind.         *)
THEOREM DrainDelivers == Spec => []DrainComplete
<1>1. Invariant => DrainComplete
  <2> SUFFICES ASSUME Invariant, cpc = "done", drainFlag
               PROVE  delivered = accepted
    BY DEF DrainComplete
  <2>1. ~discarded /\ buf = <<>> /\ queue = <<>>
    BY DEF Invariant, Control, FlagMatchesQueue, TypeOK
  <2>2. (delivered \o buf) \o queue = delivered
    BY <2>1, ConcatEmpty DEF Invariant, TypeOK
  <2> QED
    BY <2>1, <2>2 DEF Invariant, Fifo
<1> QED
  BY <1>1, InvariantHolds, PTL

-----------------------------------------------------------------------------
(* The queue with its consumer is a channel: storing is Accept, setting    *)
(* EXIT is Close, handing an event to the appenders is Deliver, clearing   *)
(* an undrained queue is Forget, and every other step changes nothing that *)
(* the channel shows.                                                      *)
LEMMA ChannelInit == Init => Channel!Init
  BY DEF Init, Channel!Init

LEMMA ChannelStep ==
  ASSUME Invariant, [Next]_vars
  PROVE  [Channel!Next]_(Channel!vars)
<1>1. ASSUME NEW p \in Producers, PutEvent(p) PROVE [Channel!Next]_(Channel!vars)
  BY <1>1 DEF Channel!vars, PutEvent, flagVars, consVars, histVars
<1>2. ASSUME NEW p \in Producers, SemLock(p) PROVE [Channel!Next]_(Channel!vars)
  BY <1>2 DEF Channel!vars, SemLock, flagVars, consVars, histVars
<1>3. ASSUME NEW p \in Producers, PutRefused(p) PROVE [Channel!Next]_(Channel!vars)
  BY <1>3 DEF Channel!vars, PutRefused, flagVars, consVars, histVars
<1>4. ASSUME NEW p \in Producers, SemUnlock(p) PROVE [Channel!Next]_(Channel!vars)
  BY <1>4 DEF Channel!vars, SemUnlock, flagVars, consVars, histVars
<1>5. ASSUME NEW p \in Producers, PutStored(p) PROVE [Channel!Next]_(Channel!vars)
  <2>1. CurrentEvent(p) \in Events
    BY <1>5, EventTyped DEF Invariant, PutStored
  <2>2. buf \o Append(queue, CurrentEvent(p)) = Append(buf \o queue, CurrentEvent(p))
    BY SMTT(40), <2>1, ConcatAppend DEF Invariant, TypeOK
  <2>3. Channel!Accept(CurrentEvent(p))
    BY <1>5, <2>2 DEF Channel!Accept, PutStored, consVars
  <2> QED
    BY <2>1, <2>3 DEF Channel!Next
<1>6. ASSUME NEW p \in Producers, PutSignal(p) PROVE [Channel!Next]_(Channel!vars)
  BY <1>6 DEF Channel!vars, PutSignal, Signal, flagVars, consVars, histVars
<1>7. ASSUME NEW x \in Closers, NEW d \in Drains, SignalExit(x, d)
      PROVE  [Channel!Next]_(Channel!vars)
  <2>1. CASE exitFlag
    BY <1>7, <2>1 DEF Invariant, TypeOK, Channel!vars, SignalExit, SetExit, consVars,
      histVars
  <2>2. CASE ~exitFlag
    <3>1. Channel!Close(d)
      BY <1>7, <2>2 DEF Channel!Close, SignalExit, SetExit, consVars, histVars
    <3>2. d \in BOOLEAN
      BY QueueAssumption
    <3> QED
      BY <3>1, <3>2 DEF Channel!Next
  <2> QED
    BY <2>1, <2>2
<1>8. ASSUME NEW x \in Closers, ExitSignal(x) PROVE [Channel!Next]_(Channel!vars)
  BY <1>8 DEF Channel!vars, ExitSignal, Signal, flagVars, prodVars, consVars, histVars
<1>9. CASE GetTaken
  <2>1. buf = <<>> /\ queue \in Seq(Events)
    BY <1>9 DEF Invariant, TypeOK, Control, GetTaken
  <2>2. queue \o <<>> = buf \o queue
    BY <2>1, ConcatEmpty
  <2> QED
    BY <1>9, <2>2 DEF Channel!vars, GetTaken, histVars
<1>10. CASE GetDiscarded
  <2>1. buf' = <<>> /\ queue' = <<>>
    BY <1>10 DEF Invariant, Control, GetDiscarded
  <2>2. buf' \o queue' = <<>>
    BY <2>1
  <2>3. Channel!Forget
    BY <1>10, <2>2 DEF Channel!Forget, GetDiscarded
  <2> QED
    BY <2>3 DEF Channel!Next
<1>11. CASE GetExit
  BY <1>11 DEF Channel!vars, GetExit, flagVars, prodVars, histVars
<1>12. CASE GetReset
  BY <1>12 DEF Channel!vars, GetReset, flagVars, prodVars, histVars
<1>13. CASE EventWait
  BY <1>13 DEF Channel!vars, EventWait, flagVars, prodVars, histVars
<1>14. CASE EventWoken
  BY <1>14 DEF Channel!vars, EventWoken, flagVars, prodVars, histVars
<1>15. CASE Deliver
  <2>1. /\ buf \o queue # <<>>
        /\ Head(buf \o queue) = Head(buf)
        /\ Tail(buf \o queue) = Tail(buf) \o queue
    BY SMTT(40), <1>15, ConcatTail DEF Invariant, TypeOK, Deliver
  <2>2. Channel!Deliver
    BY <1>15, <2>1 DEF Channel!Deliver, Deliver, flagVars
  <2> QED
    BY <2>2 DEF Channel!Next
<1>16. CASE Delivered
  BY <1>16 DEF Channel!vars, Delivered, flagVars, prodVars, histVars
<1>17. CASE AppenderThrows
  BY <1>17 DEF Channel!vars, AppenderThrows, flagVars, prodVars, histVars
<1>18. CASE UNCHANGED vars
  BY <1>18 DEF Channel!vars, vars
<1> QED
  BY SMTT(40), <1>1, <1>2, <1>3, <1>4, <1>5, <1>6, <1>7, <1>8, <1>9, <1>10, <1>11, <1>12, <1>13, <1>14, <1>15, <1>16, <1>17, <1>18
  DEF Next, Producer, PutContinues, Closer, Consumer

(* Queue with QueueThread::run implements the abstract channel.            *)
THEOREM QueueIsChannel == Spec => ImplementsChannel
<1>1. Spec => Channel!Spec
  BY ChannelInit, ChannelStep, InvariantHolds, PTL DEF Spec, Channel!Spec
<1> QED
  BY <1>1 DEF ImplementsChannel

=============================================================================
