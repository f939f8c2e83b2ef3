--------------------------- MODULE ConnectorProofs ---------------------------
(***************************************************************************)
(* Proofs about Connector: the connector thread, its appender and close(), *)
(* for any number of threads, events and failures of the server.           *)
(***************************************************************************)
EXTENDS Connector, TLAPS

(* What is known of the three program counters: the new socket lives only  *)
(* between connecting and installing it, the connector thread ends only    *)
(* when told to, close() is past join() only when the thread has ended,    *)
(* and while SysLogAppender::close is inside it holds access_mutex over a  *)
(* closed socket.                                                          *)
Control ==
  /\ newSocket # "none" <=> cpc = "install"
  /\ cpc = "done" => exitFlag
  /\ kpc \in {"socket", "flag", "done"} => cpc = "done"
  /\ kpc \in {"flag", "done"} => socket = "none"
  /\ kpc = "done" => closed
  /\ kpc = "idle" => ~exitFlag
  /\ closeLocks /\ kpc \in {"terminate", "join"} => mutex = Closer /\ socket = "none"
  /\ closeLocks => kpc \notin {"socket", "flag"}
  /\ mutex = Closer => closeLocks /\ kpc \in {"terminate", "join"}

(* TriggerKept at every place of the loop: the event may be unsignalled    *)
(* under a pending request only between its reset and the test of the      *)
(* socket, and never under exit_flag.                                      *)
Signals ==
  /\ exitFlag /\ cpc # "done" => triggered
  /\ asked /\ cpc \notin {"test", "done"} => triggered

Invariant == TypeOK /\ Control /\ Signals /\ DisconnectedIsClosed /\ WriteOwnsDescriptor

-----------------------------------------------------------------------------
(* The type invariant is inductive.                                        *)
LEMMA TypeStep ==
  ASSUME TypeOK, Control, [Next]_vars
  PROVE  TypeOK'
<1> USE ConnectorAssumption DEF TypeOK
<1>1. CASE ServerFails
  <2>0. outages \in 0..MaxOutages /\ outages < MaxOutages /\ outages' = outages + 1
    BY <1>1 DEF ServerFails
  <2>1. outages' \in 0..MaxOutages
    BY <2>0
  <2>2. socket' \in {"none", "good", "broken"} /\ newSocket' \in {"none", "good", "broken"}
    BY <1>1 DEF ServerFails, Broken
  <2>3. server' \in BOOLEAN /\ UNCHANGED <<closeLocks, families, connected, closed, mutex, triggered, exitFlag, cpc,
                                             kpc, asked, apc, logs, fd>>
    BY <1>1, Zenon DEF ServerFails, appendVars
  <2>4. apc' \in [Threads -> {"idle", "append", "write"}] /\ logs' \in [Threads -> 0..MaxLogs]
        /\ fd' \in [Threads -> BOOLEAN] /\ (\A t \in Threads : apc'[t] # "idle" <=> mutex' = t)
    BY <2>3
  <2> QED BY <2>1, <2>2, <2>3, <2>4
<1>2. CASE ServerReturns
  BY <1>2 DEF ServerReturns, vars, envVars, connectorVars, appendVars
<1>3. CASE Woken
  BY <1>3 DEF Woken, vars, envVars, connectorVars, appendVars
<1>4. CASE CheckExit
  <2>1. triggered' \in BOOLEAN /\ cpc' \in {"done", "test"}
    BY <1>4, Zenon DEF CheckExit
  <2> QED BY <1>4, <2>1 DEF CheckExit, envVars, appendVars
<1>5. CASE TestSocket
  <2>1. cpc' \in {"wait", "connect"} /\ asked' \in BOOLEAN
    BY <1>5, Zenon DEF TestSocket
  <2>2. UNCHANGED <<closeLocks, families, server, outages, socket, newSocket, connected, closed, mutex,
                    triggered, exitFlag, kpc, apc, logs, fd>>
    BY <1>5 DEF TestSocket, envVars, appendVars
  <2> QED BY <2>1, <2>2
<1>6. CASE Connect
  BY <1>6 DEF Connect, vars, envVars, connectorVars, appendVars
<1>7. CASE Slept
  BY <1>7 DEF Slept, vars, envVars, connectorVars, appendVars
<1>8. CASE Install
  BY <1>8 DEF Install, vars, envVars, connectorVars, appendVars
<1>9. CASE Close
  BY <1>9 DEF Close, vars, envVars, connectorVars, appendVars
<1>10. CASE Terminate
  BY <1>10 DEF Terminate, vars, envVars, connectorVars, appendVars
<1>11. CASE Join
  <2>1. (mutex' = Nobody /\ mutex = Closer) \/ mutex' = mutex
    BY <1>11 DEF Join, Control
  <2>2. closed' \in BOOLEAN /\ kpc' \in {"done", "socket"}
    BY <1>11, Zenon DEF Join
  <2> QED BY <1>11, <2>1, <2>2 DEF Join, envVars, connectorVars, appendVars
<1>12. CASE CloseSocket
  BY <1>12 DEF CloseSocket, vars, envVars, connectorVars, appendVars
<1>13. CASE SetClosed
  BY <1>13 DEF SetClosed, vars, envVars, connectorVars, appendVars
<1>14. ASSUME NEW t \in Threads, SyncDoAppend(t) \/ Appending(t) PROVE TypeOK'
  <2>1. CASE SyncDoAppend(t)
    BY <2>1 DEF SyncDoAppend, vars, envVars, connectorVars, appendVars
  <2>2. CASE AppendNothing(t)
    BY <2>2 DEF AppendNothing, Leave, vars, envVars, connectorVars, appendVars
  <2>3. CASE AppendDisconnected(t)
    BY <2>3 DEF AppendDisconnected, Leave, Trigger, vars, envVars, connectorVars, appendVars
  <2>4. CASE AppendWrite(t)
    BY <2>4 DEF AppendWrite, vars, envVars, connectorVars, appendVars
  <2>5. CASE Written(t)
    BY <2>5 DEF Written, Leave, vars, envVars, connectorVars, appendVars
  <2>6. CASE WriteFails(t)
    <3>1. socket' = "none" /\ connected' = FALSE /\ triggered' = TRUE /\ asked' = TRUE
          /\ UNCHANGED <<closeLocks, families, server, outages, newSocket, closed, exitFlag, cpc, logs, kpc>>
      BY <2>6 DEF WriteFails, Trigger, envVars, connectorVars
    <3>2. mutex = t /\ mutex' = Nobody
          /\ apc' = [apc EXCEPT ![t] = "idle"] /\ fd' = [fd EXCEPT ![t] = FALSE]
      BY <2>6 DEF WriteFails, Leave
    <3>3. apc' \in [Threads -> {"idle", "append", "write"}] /\ fd' \in [Threads -> BOOLEAN]
          /\ (\A u \in Threads : apc'[u] # "idle" <=> mutex' = u)
      BY <3>2
    <3>4. socket' \in {"none", "good", "broken"} /\ connected' \in BOOLEAN
          /\ triggered' \in BOOLEAN /\ asked' \in BOOLEAN
          /\ mutex' \in Threads \union {Closer, Nobody}
      BY <3>1, <3>2, Zenon
    <3>5. closeLocks' \in BOOLEAN /\ families' \in SUBSET Families /\ server' \in BOOLEAN
          /\ closed' \in BOOLEAN /\ exitFlag' \in BOOLEAN
      BY <3>1
    <3>6. UNCHANGED <<outages, newSocket, cpc, logs, kpc>>
      BY <3>1
    <3> QED BY <3>3, <3>4, <3>5, <3>6
  <2> QED BY <1>14, <2>1, <2>2, <2>3, <2>4, <2>5, <2>6 DEF Appending
<1>15. CASE UNCHANGED vars
  BY <1>15, SMTT(30) DEF vars
<1> QED BY <1>1, <1>2, <1>3, <1>4, <1>5, <1>6, <1>7, <1>8, <1>9, <1>10, <1>11, <1>12, <1>13, <1>14, <1>15 DEF Next, Run, Closing

(* So is Control.                                                          *)
LEMMA ControlStep ==
  ASSUME TypeOK, Control, [Next]_vars
  PROVE  Control'
<1> USE ConnectorAssumption DEF TypeOK, Control
<1>1. CASE ServerFails
  BY <1>1 DEF ServerFails, Broken, vars, envVars, connectorVars, appendVars
<1>2. CASE ServerReturns
  BY <1>2 DEF ServerReturns, vars, envVars, connectorVars, appendVars
<1>3. CASE Woken
  BY <1>3 DEF Woken, vars, envVars, connectorVars, appendVars
<1>4. CASE CheckExit
  BY <1>4 DEF CheckExit, vars, envVars, connectorVars, appendVars
<1>5. CASE TestSocket
  BY <1>5 DEF TestSocket, vars, envVars, connectorVars, appendVars
<1>6. CASE Connect
  BY <1>6 DEF Connect, vars, envVars, connectorVars, appendVars
<1>7. CASE Slept
  BY <1>7 DEF Slept, vars, envVars, connectorVars, appendVars
<1>8. CASE Install
  BY <1>8 DEF Install, vars, envVars, connectorVars, appendVars
<1>9. CASE Close
  BY <1>9 DEF Close, vars, envVars, connectorVars, appendVars
<1>10. CASE Terminate
  BY <1>10 DEF Terminate, vars, envVars, connectorVars, appendVars
<1>11. CASE Join
  BY <1>11 DEF Join, vars, envVars, connectorVars, appendVars
<1>12. CASE CloseSocket
  BY <1>12 DEF CloseSocket, vars, envVars, connectorVars, appendVars
<1>13. CASE SetClosed
  BY <1>13 DEF SetClosed, vars, envVars, connectorVars, appendVars
<1>14. ASSUME NEW t \in Threads, SyncDoAppend(t) \/ Appending(t) PROVE Control'
  <2>1. CASE SyncDoAppend(t)
    BY <2>1 DEF SyncDoAppend, vars, envVars, connectorVars, appendVars
  <2>2. CASE AppendNothing(t)
    BY <2>2 DEF AppendNothing, Leave, vars, envVars, connectorVars, appendVars
  <2>3. CASE AppendDisconnected(t)
    BY <2>3 DEF AppendDisconnected, Leave, Trigger, vars, envVars, connectorVars, appendVars
  <2>4. CASE AppendWrite(t)
    BY <2>4 DEF AppendWrite, vars, envVars, connectorVars, appendVars
  <2>5. CASE Written(t)
    BY <2>5 DEF Written, Leave, vars, envVars, connectorVars, appendVars
  <2>6. CASE WriteFails(t)
    BY <2>6 DEF WriteFails, Leave, Trigger, vars, envVars, connectorVars, appendVars
  <2> QED BY <1>14, <2>1, <2>2, <2>3, <2>4, <2>5, <2>6 DEF Appending
<1>15. CASE UNCHANGED vars
  BY <1>15 DEF vars
<1> QED BY <1>1, <1>2, <1>3, <1>4, <1>5, <1>6, <1>7, <1>8, <1>9, <1>10, <1>11, <1>12, <1>13, <1>14, <1>15 DEF Next, Run, Closing

(* No step loses a request or the exit flag.                               *)
LEMMA SignalStep ==
  ASSUME TypeOK, Control, Signals, [Next]_vars
  PROVE  Signals'
<1> USE ConnectorAssumption DEF Signals, Control
<1>1. CASE ServerFails
  BY <1>1 DEF ServerFails, Broken, vars, envVars, connectorVars, appendVars
<1>2. CASE ServerReturns
  BY <1>2 DEF ServerReturns, vars, envVars, connectorVars, appendVars
<1>3. CASE Woken
  BY <1>3 DEF Woken, vars, envVars, connectorVars, appendVars
<1>4. CASE CheckExit
  BY <1>4 DEF CheckExit, vars, envVars, connectorVars, appendVars
<1>5. CASE TestSocket
  BY <1>5 DEF TestSocket, vars, envVars, connectorVars, appendVars
<1>6. CASE Connect
  BY <1>6 DEF Connect, vars, envVars, connectorVars, appendVars
<1>7. CASE Slept
  BY <1>7 DEF Slept, vars, envVars, connectorVars, appendVars
<1>8. CASE Install
  BY <1>8 DEF Install, vars, envVars, connectorVars, appendVars
<1>9. CASE Close
  BY <1>9 DEF Close, vars, envVars, connectorVars, appendVars
<1>10. CASE Terminate
  BY <1>10 DEF Terminate, vars, envVars, connectorVars, appendVars
<1>11. CASE Join
  BY <1>11 DEF Join, vars, envVars, connectorVars, appendVars
<1>12. CASE CloseSocket
  BY <1>12 DEF CloseSocket, vars, envVars, connectorVars, appendVars
<1>13. CASE SetClosed
  BY <1>13 DEF SetClosed, vars, envVars, connectorVars, appendVars
<1>14. ASSUME NEW t \in Threads, SyncDoAppend(t) \/ Appending(t) PROVE Signals'
  <2>1. CASE SyncDoAppend(t)
    BY <2>1 DEF SyncDoAppend, vars, envVars, connectorVars, appendVars
  <2>2. CASE AppendNothing(t)
    BY <2>2 DEF AppendNothing, Leave, vars, envVars, connectorVars, appendVars
  <2>3. CASE AppendDisconnected(t)
    BY <2>3 DEF AppendDisconnected, Leave, Trigger, vars, envVars, connectorVars, appendVars
  <2>4. CASE AppendWrite(t)
    BY <2>4 DEF AppendWrite, vars, envVars, connectorVars, appendVars
  <2>5. CASE Written(t)
    BY <2>5 DEF Written, Leave, vars, envVars, connectorVars, appendVars
  <2>6. CASE WriteFails(t)
    BY <2>6 DEF WriteFails, Leave, Trigger, vars, envVars, connectorVars, appendVars
  <2> QED BY <1>14, <2>1, <2>2, <2>3, <2>4, <2>5, <2>6 DEF Appending
<1>15. CASE UNCHANGED vars
  BY <1>15 DEF vars
<1> QED BY <1>1, <1>2, <1>3, <1>4, <1>5, <1>6, <1>7, <1>8, <1>9, <1>10, <1>11, <1>12, <1>13, <1>14, <1>15 DEF Next, Run, Closing

(* Only a failed write clears connected, and it closes the socket first.   *)
LEMMA DisconnectedStep ==
  ASSUME TypeOK, Control, DisconnectedIsClosed, [Next]_vars
  PROVE  DisconnectedIsClosed'
<1> USE ConnectorAssumption DEF Control, DisconnectedIsClosed
<1>1. CASE ServerFails
  BY <1>1 DEF ServerFails, Broken, vars, envVars, connectorVars, appendVars
<1>2. CASE ServerReturns
  BY <1>2 DEF ServerReturns, vars, envVars, connectorVars, appendVars
<1>3. CASE Woken
  BY <1>3 DEF Woken, vars, envVars, connectorVars, appendVars
<1>4. CASE CheckExit
  BY <1>4 DEF CheckExit, vars, envVars, connectorVars, appendVars
<1>5. CASE TestSocket
  BY <1>5 DEF TestSocket, vars, envVars, connectorVars, appendVars
<1>6. CASE Connect
  BY <1>6 DEF Connect, vars, envVars, connectorVars, appendVars
<1>7. CASE Slept
  BY <1>7 DEF Slept, vars, envVars, connectorVars, appendVars
<1>8. CASE Install
  BY <1>8 DEF Install, vars, envVars, connectorVars, appendVars
<1>9. CASE Close
  BY <1>9 DEF Close, vars, envVars, connectorVars, appendVars
<1>10. CASE Terminate
  BY <1>10 DEF Terminate, vars, envVars, connectorVars, appendVars
<1>11. CASE Join
  BY <1>11 DEF Join, vars, envVars, connectorVars, appendVars
<1>12. CASE CloseSocket
  BY <1>12 DEF CloseSocket, vars, envVars, connectorVars, appendVars
<1>13. CASE SetClosed
  BY <1>13 DEF SetClosed, vars, envVars, connectorVars, appendVars
<1>14. ASSUME NEW t \in Threads, SyncDoAppend(t) \/ Appending(t) PROVE DisconnectedIsClosed'
  <2>1. CASE SyncDoAppend(t)
    BY <2>1 DEF SyncDoAppend, vars, envVars, connectorVars, appendVars
  <2>2. CASE AppendNothing(t)
    BY <2>2 DEF AppendNothing, Leave, vars, envVars, connectorVars, appendVars
  <2>3. CASE AppendDisconnected(t)
    BY <2>3 DEF AppendDisconnected, Leave, Trigger, vars, envVars, connectorVars, appendVars
  <2>4. CASE AppendWrite(t)
    BY <2>4 DEF AppendWrite, vars, envVars, connectorVars, appendVars
  <2>5. CASE Written(t)
    BY <2>5 DEF Written, Leave, vars, envVars, connectorVars, appendVars
  <2>6. CASE WriteFails(t)
    BY <2>6 DEF WriteFails, Leave, Trigger, vars, envVars, connectorVars, appendVars
  <2> QED BY <1>14, <2>1, <2>2, <2>3, <2>4, <2>5, <2>6 DEF Appending
<1>15. CASE UNCHANGED vars
  BY <1>15, SMTT(30) DEF vars
<1> QED BY <1>1, <1>2, <1>3, <1>4, <1>5, <1>6, <1>7, <1>8, <1>9, <1>10, <1>11, <1>12, <1>13, <1>14, <1>15 DEF Next, Run, Closing

(* Whoever closes the socket holds access_mutex.                           *)
LEMMA DescriptorStep ==
  ASSUME TypeOK, Control, WriteOwnsDescriptor, [Next]_vars
  PROVE  WriteOwnsDescriptor'
<1> USE ConnectorAssumption DEF TypeOK, Control, WriteOwnsDescriptor
<1>1. CASE ServerFails
  BY <1>1 DEF ServerFails, Broken, vars, envVars, connectorVars, appendVars
<1>2. CASE ServerReturns
  BY <1>2 DEF ServerReturns, vars, envVars, connectorVars, appendVars
<1>3. CASE Woken
  BY <1>3 DEF Woken, vars, envVars, connectorVars, appendVars
<1>4. CASE CheckExit
  BY <1>4 DEF CheckExit, vars, envVars, connectorVars, appendVars
<1>5. CASE TestSocket
  BY <1>5 DEF TestSocket, vars, envVars, connectorVars, appendVars
<1>6. CASE Connect
  BY <1>6 DEF Connect, vars, envVars, connectorVars, appendVars
<1>7. CASE Slept
  BY <1>7 DEF Slept, vars, envVars, connectorVars, appendVars
<1>8. CASE Install
  BY <1>8 DEF Install, vars, envVars, connectorVars, appendVars
<1>9. CASE Close
  BY <1>9 DEF Close, vars, envVars, connectorVars, appendVars
<1>10. CASE Terminate
  BY <1>10 DEF Terminate, vars, envVars, connectorVars, appendVars
<1>11. CASE Join
  BY <1>11 DEF Join, vars, envVars, connectorVars, appendVars
<1>12. CASE CloseSocket
  BY <1>12 DEF CloseSocket, vars, envVars, connectorVars, appendVars
<1>13. CASE SetClosed
  BY <1>13, SMTT(30) DEF SetClosed, vars, envVars, connectorVars, appendVars
<1>14. ASSUME NEW t \in Threads, SyncDoAppend(t) \/ Appending(t) PROVE WriteOwnsDescriptor'
  <2>1. CASE SyncDoAppend(t)
    BY <2>1 DEF SyncDoAppend, vars, envVars, connectorVars, appendVars
  <2>2. CASE AppendNothing(t)
    BY <2>2 DEF AppendNothing, Leave, vars, envVars, connectorVars, appendVars
  <2>3. CASE AppendDisconnected(t)
    BY <2>3 DEF AppendDisconnected, Leave, Trigger, vars, envVars, connectorVars, appendVars
  <2>4. CASE AppendWrite(t)
    BY <2>4 DEF AppendWrite, vars, envVars, connectorVars, appendVars
  <2>5. CASE Written(t)
    BY <2>5 DEF Written, Leave, vars, envVars, connectorVars, appendVars
  <2>6. CASE WriteFails(t)
    <3>1. socket' = "none" /\ connected' = FALSE /\ triggered' = TRUE /\ asked' = TRUE
          /\ UNCHANGED <<closeLocks, families, server, outages, newSocket, closed, exitFlag, cpc, logs, kpc>>
      BY <2>6 DEF WriteFails, Trigger, envVars, connectorVars
    <3>2. mutex = t /\ mutex' = Nobody
          /\ apc' = [apc EXCEPT ![t] = "idle"] /\ fd' = [fd EXCEPT ![t] = FALSE]
      BY <2>6 DEF WriteFails, Leave
    <3>3. apc' \in [Threads -> {"idle", "append", "write"}] /\ fd' \in [Threads -> BOOLEAN]
          /\ (\A u \in Threads : apc'[u] # "idle" <=> mutex' = u)
      BY <3>2
    <3> QED BY <3>1, <3>2, <3>3
  <2> QED BY <1>14, <2>1, <2>2, <2>3, <2>4, <2>5, <2>6 DEF Appending
<1>15. CASE UNCHANGED vars
  BY <1>15 DEF vars
<1> QED BY <1>1, <1>2, <1>3, <1>4, <1>5, <1>6, <1>7, <1>8, <1>9, <1>10, <1>11, <1>12, <1>13, <1>14, <1>15 DEF Next, Run, Closing

(* The initial states satisfy the invariant.                               *)
LEMMA InitInvariant == Init => Invariant
<1> SUFFICES ASSUME Init PROVE Invariant
  OBVIOUS
<1> USE ConnectorAssumption DEF Init
<1>1. TypeOK
  <2>1. apc \in [Threads -> {"idle", "append", "write"}] /\ logs \in [Threads -> 0..MaxLogs]
        /\ fd \in [Threads -> BOOLEAN]
    OBVIOUS
  <2>2. \A t \in Threads : apc[t] # "idle" <=> mutex = t
    BY Zenon
  <2>3. socket \in {"none", "good", "broken"} /\ outages \in 0..MaxOutages
    OBVIOUS
  <2>4. closeLocks \in BOOLEAN /\ families \in SUBSET Families /\ server \in BOOLEAN
        /\ newSocket \in {"none", "good", "broken"}
        /\ connected \in BOOLEAN /\ closed \in BOOLEAN
        /\ mutex \in Threads \union {Closer, Nobody}
        /\ triggered \in BOOLEAN /\ exitFlag \in BOOLEAN /\ asked \in BOOLEAN
    BY Zenon
  <2>5. cpc = "wait" /\ kpc = "idle"
    OBVIOUS
  <2> HIDE DEF Init
  <2> QED BY <2>1, <2>2, <2>3, <2>4, <2>5 DEF TypeOK
<1>2. Control
  BY DEF Control
<1>3. Signals /\ DisconnectedIsClosed /\ WriteOwnsDescriptor
  BY DEF Signals, DisconnectedIsClosed, WriteOwnsDescriptor
<1> QED BY <1>1, <1>2, <1>3 DEF Invariant

(* The invariant is inductive.                                             *)
LEMMA StepInvariant == Invariant /\ [Next]_vars => Invariant'
BY TypeStep, ControlStep, SignalStep, DisconnectedStep, DescriptorStep DEF Invariant

(* Every reachable state satisfies the invariant.                          *)
THEOREM ConnectorInvariant == Spec => []Invariant
<1>1. Init => Invariant BY InitInvariant
<1>2. Invariant /\ [Next]_vars => Invariant' BY StepInvariant
<1> QED BY <1>1, <1>2, PTL DEF Spec

-----------------------------------------------------------------------------
(* The state is always well-formed, and access_mutex is held exactly by    *)
(* the thread that is inside syncDoAppend.                                 *)
THEOREM ConnectorTypeCorrect == Spec => []TypeOK
<1>1. Invariant => TypeOK BY DEF Invariant
<1> QED BY <1>1, ConnectorInvariant, PTL

(* However often the server fails, an appender that drops events because   *)
(* it is disconnected has a closed socket, which the connector thread      *)
(* replaces (ConnectorThread::run, Socket::write).                         *)
THEOREM DisconnectedRecovers == Spec => []DisconnectedIsClosed
<1>1. Invariant => DisconnectedIsClosed BY DEF Invariant
<1> QED BY <1>1, ConnectorInvariant, PTL

(* The connector thread never goes to sleep on a request to reconnect or   *)
(* to exit (ConnectorThread::run, trigger and terminate).                  *)
THEOREM TriggerNeverLost == Spec => []TriggerKept
<1>1. Invariant => TriggerKept BY DEF Invariant, Signals, TriggerKept
<1> QED BY <1>1, ConnectorInvariant, PTL

(* After close() of either appender the thread has ended and no socket is  *)
(* open, whatever connection attempt was under way.                        *)
THEOREM CloseIsFinal == Spec => []ClosedForGood
<1>1. Invariant => ClosedForGood BY DEF Invariant, Control, ClosedForGood
<1> QED BY <1>1, ConnectorInvariant, PTL

(* With a close() that locks, as SysLogAppender's, no thread writes to a   *)
(* descriptor that has been given back.                                    *)
THEOREM LockedCloseProtectsWrites == Spec => []WriteOwnsDescriptor
<1>1. Invariant => WriteOwnsDescriptor BY DEF Invariant
<1> QED BY <1>1, ConnectorInvariant, PTL

=============================================================================
