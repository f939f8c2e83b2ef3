------------------------------ MODULE Connector ------------------------------
(***************************************************************************)
(* The connector thread (src/connectorthread.cxx) and the two appenders    *)
(* that use it to reconnect: SocketAppender (src/socketappender.cxx) and   *)
(* the remote SysLogAppender (src/syslogappender.cxx).                     *)
(*                                                                         *)
(* The two appenders differ in close(): SysLogAppender holds access_mutex  *)
(* throughout and closes the socket first; SocketAppender takes no lock    *)
(* and closes the socket after the thread has been joined.                 *)
(***************************************************************************)
EXTENDS Naturals

CONSTANTS
  Threads,     \* threads that append
  MaxLogs,     \* bound on the events of one thread
  MaxOutages,  \* bound on the failures of the server
  Closer,      \* the thread that calls close()
  Nobody       \* holder of a free access_mutex

ASSUME ConnectorAssumption ==
  /\ MaxLogs \in Nat /\ MaxOutages \in Nat
  /\ Closer \notin Threads /\ Nobody \notin Threads /\ Nobody # Closer

VARIABLES
  closeLocks, \* whether close() is SysLogAppender's or SocketAppender's
  families,   \* the address families under which the host can be reached
  server,     \* the remote server accepts connections
  outages,    \* how often it has failed
  socket,     \* the appender's socket: "none", "good" or "broken" (peer gone)
  newSocket,  \* ConnectorThread::run's new_socket
  connected,  \* the appender's connected flag
  closed,     \* Appender::closed
  mutex,      \* holder of the appender's access_mutex
  triggered,  \* trigger_ev is signalled
  exitFlag,   \* ConnectorThread::exit_flag
  cpc,        \* where the connector thread is in run()
  apc, logs,  \* where each thread is in syncDoAppend, and its number of events
  fd,         \* each thread holds the descriptor it read for a write
  kpc,        \* where the closing thread is
  asked       \* history: trigger() was called since the socket was last tested

connectorVars == <<newSocket, cpc>>
appendVars == <<apc, logs, fd>>
envVars == <<closeLocks, families, server, outages>>
vars == <<closeLocks, families, server, outages, socket, newSocket, connected, closed,
          mutex, triggered, exitFlag, cpc, apc, logs, fd, kpc, asked>>

Families == {"AF_INET", "AF_INET6"}

(* connectSocket finds an address of the family the caller names.          *)
Answers(family) == server /\ family \in families

(* The state is well-formed, and the threads inside syncDoAppend are the   *)
(* holders of access_mutex (appender.cxx:356).                             *)
TypeOK ==
  /\ closeLocks \in BOOLEAN /\ families \in SUBSET Families
  /\ server \in BOOLEAN /\ outages \in 0..MaxOutages
  /\ socket \in {"none", "good", "broken"}
  /\ newSocket \in {"none", "good", "broken"}
  /\ connected \in BOOLEAN /\ closed \in BOOLEAN
  /\ mutex \in Threads \union {Closer, Nobody}
  /\ triggered \in BOOLEAN /\ exitFlag \in BOOLEAN /\ asked \in BOOLEAN
  /\ cpc \in {"wait", "check", "test", "connect", "sleep", "install", "done"}
  /\ apc \in [Threads -> {"idle", "append", "write"}]
  /\ \A t \in Threads : apc[t] # "idle" <=> mutex = t
  /\ logs \in [Threads -> 0..MaxLogs]
  /\ fd \in [Threads -> BOOLEAN]
  /\ kpc \in {"idle", "terminate", "join", "socket", "flag", "done"}

(* The constructor opens the socket in the family the IPv6 property asks   *)
(* for, or fails to, and initConnector sets connected in either case.      *)
Init ==
  /\ closeLocks \in BOOLEAN
  /\ families \in SUBSET Families /\ families # {}
  /\ server \in BOOLEAN /\ outages = 0
  /\ \E family \in Families : socket = IF Answers(family) THEN "good" ELSE "none"
  /\ newSocket = "none"
  /\ connected = TRUE /\ closed = FALSE
  /\ mutex = Nobody
  /\ triggered = FALSE /\ exitFlag = FALSE /\ asked = FALSE
  /\ cpc = "wait"
  /\ apc = [t \in Threads |-> "idle"]
  /\ logs = [t \in Threads |-> 0]
  /\ fd = [t \in Threads |-> FALSE]
  /\ kpc = "idle"

-----------------------------------------------------------------------------
(* The server.                                                             *)

Broken(s) == IF s = "good" THEN "broken" ELSE s

ServerFails ==
  /\ server /\ outages < MaxOutages
  /\ server' = FALSE /\ outages' = outages + 1
  /\ socket' = Broken(socket) /\ newSocket' = Broken(newSocket)
  /\ UNCHANGED <<closeLocks, families, connected, closed, mutex, triggered, exitFlag, cpc, kpc, asked>>
  /\ UNCHANGED appendVars

ServerReturns ==
  /\ ~server /\ server' = TRUE
  /\ UNCHANGED <<closeLocks, families, outages, socket, connected, closed, mutex, triggered, exitFlag, kpc, asked>>
  /\ UNCHANGED connectorVars /\ UNCHANGED appendVars

-----------------------------------------------------------------------------
(* ConnectorThread::run.                                                   *)

(* timed_wait (30 s) returns: trigger_ev is signalled, or time is up.      *)
Woken ==
  /\ cpc = "wait"
  /\ cpc' = "check"
  /\ UNCHANGED <<socket, newSocket, connected, closed, mutex, triggered, exitFlag, kpc, asked>>
  /\ UNCHANGED envVars /\ UNCHANGED appendVars

(* Faulty: the flag is looked at after the `continue' for an open socket.  *)
CheckExitLate ==
  /\ cpc = "check"
  /\ IF exitFlag /\ socket = "none"
     THEN cpc' = "done" /\ UNCHANGED triggered
     ELSE cpc' = "test" /\ triggered' = FALSE
  /\ UNCHANGED <<socket, newSocket, connected, closed, mutex, exitFlag, kpc, asked>>
  /\ UNCHANGED envVars /\ UNCHANGED appendVars

(* Under the connector's own mutex: leave, or reset the event.             *)
CheckExit ==
  /\ cpc = "check"
  /\ IF exitFlag
     THEN cpc' = "done" /\ UNCHANGED triggered
     ELSE cpc' = "test" /\ triggered' = FALSE
  /\ UNCHANGED <<socket, newSocket, connected, closed, mutex, exitFlag, kpc, asked>>
  /\ UNCHANGED envVars /\ UNCHANGED appendVars

(* Faulty: the event is reset after the socket has been tested.            *)
TestSocketResets ==
  /\ cpc = "test" /\ mutex = Nobody
  /\ cpc' = IF socket # "none" THEN "wait" ELSE "connect"
  /\ triggered' = FALSE /\ asked' = FALSE
  /\ UNCHANGED <<socket, newSocket, connected, closed, mutex, exitFlag, kpc>>
  /\ UNCHANGED envVars /\ UNCHANGED appendVars

(* Under access_mutex: nothing to do when the socket is open.              *)
TestSocket ==
  /\ cpc = "test" /\ mutex = Nobody
  /\ cpc' = IF socket # "none" THEN "wait" ELSE "connect"
  /\ asked' = FALSE
  /\ UNCHANGED <<socket, newSocket, connected, closed, mutex, triggered, exitFlag, kpc>>
  /\ UNCHANGED envVars /\ UNCHANGED appendVars

(* Neither appender passes its ipv6 flag on, so connectSocket is asked for *)
(* an AF_INET address.                                                     *)
CtcConnect == Answers("AF_INET")

(* ctcConnect, without any lock.                                           *)
Connect ==
  /\ cpc = "connect"
  /\ newSocket' = IF CtcConnect THEN "good" ELSE "none"
  /\ cpc' = IF CtcConnect THEN "install" ELSE "sleep"
  /\ UNCHANGED <<socket, connected, closed, mutex, triggered, exitFlag, kpc, asked>>
  /\ UNCHANGED envVars /\ UNCHANGED appendVars

(* Five seconds after a failed attempt.                                    *)
Slept ==
  /\ cpc = "sleep"
  /\ cpc' = "wait"
  /\ UNCHANGED <<socket, newSocket, connected, closed, mutex, triggered, exitFlag, kpc, asked>>
  /\ UNCHANGED envVars /\ UNCHANGED appendVars

(* Faulty: ctcSetConnected is not called.                                  *)
InstallSilently ==
  /\ cpc = "install" /\ mutex = Nobody
  /\ socket' = newSocket /\ newSocket' = "none"
  /\ cpc' = "wait"
  /\ UNCHANGED <<connected, closed, mutex, triggered, exitFlag, kpc, asked>>
  /\ UNCHANGED envVars /\ UNCHANGED appendVars

(* Under access_mutex: the sockets are swapped, the old one is destroyed   *)
(* at the end of the iteration, and ctcSetConnected.                       *)
Install ==
  /\ cpc = "install" /\ mutex = Nobody
  /\ socket' = newSocket /\ newSocket' = "none"
  /\ connected' = TRUE
  /\ cpc' = "wait"
  /\ UNCHANGED <<closed, mutex, triggered, exitFlag, kpc, asked>>
  /\ UNCHANGED envVars /\ UNCHANGED appendVars

-----------------------------------------------------------------------------
(* syncDoAppend, SocketAppender::append and SysLogAppender::appendRemote.  *)

SyncDoAppend(t) ==
  /\ apc[t] = "idle" /\ logs[t] < MaxLogs /\ mutex = Nobody
  /\ mutex' = t
  /\ apc' = [apc EXCEPT ![t] = "append"]
  /\ logs' = [logs EXCEPT ![t] = @ + 1]
  /\ UNCHANGED <<socket, connected, closed, triggered, exitFlag, fd, kpc, asked>>
  /\ UNCHANGED envVars /\ UNCHANGED connectorVars

Leave(t) ==
  /\ mutex' = Nobody
  /\ apc' = [apc EXCEPT ![t] = "idle"]
  /\ fd' = [fd EXCEPT ![t] = FALSE]

(* The appender is closed, the threshold or a filter keeps the event out,  *)
(* or convertToBuffer or the layout threw.                                 *)
AppendNothing(t) ==
  /\ apc[t] = "append"
  /\ Leave(t)
  /\ UNCHANGED <<socket, connected, closed, triggered, exitFlag, logs, kpc, asked>>
  /\ UNCHANGED envVars /\ UNCHANGED connectorVars

Trigger == triggered' = TRUE /\ asked' = TRUE

AppendDisconnected(t) ==
  /\ apc[t] = "append" /\ ~closed /\ ~connected
  /\ Trigger
  /\ Leave(t)
  /\ UNCHANGED <<socket, connected, closed, exitFlag, logs, kpc>>
  /\ UNCHANGED envVars /\ UNCHANGED connectorVars

(* Socket::write reads the descriptor and enters the system call.          *)
AppendWrite(t) ==
  /\ apc[t] = "append" /\ ~closed /\ connected
  /\ apc' = [apc EXCEPT ![t] = "write"]
  /\ fd' = [fd EXCEPT ![t] = socket # "none"]
  /\ UNCHANGED <<socket, connected, closed, mutex, triggered, exitFlag, logs, kpc, asked>>
  /\ UNCHANGED envVars /\ UNCHANGED connectorVars

(* The system takes the data, which a peer that is gone may never read.    *)
Written(t) ==
  /\ apc[t] = "write" /\ fd[t] /\ socket # "none"
  /\ Leave(t)
  /\ UNCHANGED <<socket, connected, closed, triggered, exitFlag, logs, kpc, asked>>
  /\ UNCHANGED envVars /\ UNCHANGED connectorVars

(* Faulty: Socket::write leaves the socket open when it fails.             *)
WriteFailsOpen(t) ==
  /\ apc[t] = "write" /\ socket # "good"
  /\ connected' = FALSE
  /\ Trigger
  /\ Leave(t)
  /\ UNCHANGED <<socket, closed, exitFlag, logs, kpc>>
  /\ UNCHANGED envVars /\ UNCHANGED connectorVars

(* The write fails: Socket::write closes the socket, the appender drops    *)
(* the event, clears connected and wakes the connector thread.             *)
WriteFails(t) ==
  /\ apc[t] = "write" /\ socket # "good"
  /\ socket' = "none"
  /\ connected' = FALSE
  /\ Trigger
  /\ Leave(t)
  /\ UNCHANGED <<closed, exitFlag, logs, kpc>>
  /\ UNCHANGED envVars /\ UNCHANGED connectorVars

-----------------------------------------------------------------------------
(* close() and ConnectorThread::terminate.                                 *)

(* Faulty: closes without the lock.                                        *)
CloseUnlocked ==
  /\ kpc = "idle"
  /\ (closeLocks => socket' = "none" /\ mutex' = mutex)
  /\ (~closeLocks => UNCHANGED <<socket, mutex>>)
  /\ kpc' = "terminate"
  /\ UNCHANGED <<connected, closed, triggered, exitFlag, asked>>
  /\ UNCHANGED envVars /\ UNCHANGED connectorVars /\ UNCHANGED appendVars

(* SysLogAppender::close locks access_mutex and closes the socket.         *)
Close ==
  /\ kpc = "idle"
  /\ IF closeLocks
     THEN mutex = Nobody /\ mutex' = Closer /\ socket' = "none"
     ELSE UNCHANGED <<socket, mutex>>
  /\ kpc' = "terminate"
  /\ UNCHANGED <<connected, closed, triggered, exitFlag, asked>>
  /\ UNCHANGED envVars /\ UNCHANGED connectorVars /\ UNCHANGED appendVars

Terminate ==
  /\ kpc = "terminate"
  /\ exitFlag' = TRUE /\ triggered' = TRUE
  /\ kpc' = "join"
  /\ UNCHANGED <<socket, connected, closed, mutex, asked>>
  /\ UNCHANGED envVars /\ UNCHANGED connectorVars /\ UNCHANGED appendVars

(* Faulty: does not wait for the thread.                                   *)
JoinNot ==
  /\ kpc = "join"
  /\ IF closeLocks
     THEN closed' = TRUE /\ mutex' = Nobody /\ kpc' = "done"
     ELSE kpc' = "socket" /\ UNCHANGED <<closed, mutex>>
  /\ UNCHANGED <<socket, connected, triggered, exitFlag, asked>>
  /\ UNCHANGED envVars /\ UNCHANGED connectorVars /\ UNCHANGED appendVars

(* join() returns; SysLogAppender::close is then done and unlocks.         *)
Join ==
  /\ kpc = "join" /\ cpc = "done"
  /\ IF closeLocks
     THEN closed' = TRUE /\ mutex' = Nobody /\ kpc' = "done"
     ELSE kpc' = "socket" /\ UNCHANGED <<closed, mutex>>
  /\ UNCHANGED <<socket, connected, triggered, exitFlag, asked>>
  /\ UNCHANGED envVars /\ UNCHANGED connectorVars /\ UNCHANGED appendVars

CloseSocket ==
  /\ kpc = "socket"
  /\ socket' = "none"
  /\ kpc' = "flag"
  /\ UNCHANGED <<connected, closed, mutex, triggered, exitFlag, asked>>
  /\ UNCHANGED envVars /\ UNCHANGED connectorVars /\ UNCHANGED appendVars

SetClosed ==
  /\ kpc = "flag"
  /\ closed' = TRUE
  /\ kpc' = "done"
  /\ UNCHANGED <<socket, connected, mutex, triggered, exitFlag, asked>>
  /\ UNCHANGED envVars /\ UNCHANGED connectorVars /\ UNCHANGED appendVars

-----------------------------------------------------------------------------
Run == Woken \/ CheckExit \/ TestSocket \/ Connect \/ Slept \/ Install
Appending(t) ==
  AppendNothing(t) \/ AppendDisconnected(t) \/ AppendWrite(t) \/ Written(t) \/ WriteFails(t)
Closing == Terminate \/ Join \/ CloseSocket \/ SetClosed

Next ==
  \/ ServerFails \/ ServerReturns
  \/ Run
  \/ \E t \in Threads : SyncDoAppend(t) \/ Appending(t)
  \/ Close \/ Closing

Spec == Init /\ [][Next]_vars

(* Every thread that can run does, a wait of 30 seconds and a sleep of     *)
(* five end, and a thread inside append() or close() goes on.  Nothing     *)
(* makes the server return or anyone log or close.                         *)
FairSpec ==
  /\ Spec
  /\ WF_vars(Run) /\ WF_vars(Closing)
  /\ \A t \in Threads : WF_vars(Appending(t))

-----------------------------------------------------------------------------
(* An appender that is not connected has no open socket.  append() drops   *)
(* every event while connected is false and the connector thread leaves an *)
(* open socket alone, so otherwise the appender would never recover        *)
(* (connectorthread.cxx:74, socketappender.cxx:124).                       *)
DisconnectedIsClosed == ~connected => socket = "none"

(* The connector thread does not go to sleep on a request: when it waits   *)
(* and trigger() was called since it last tested the socket, or terminate  *)
(* was called, trigger_ev is still signalled (connectorthread.cxx:65).     *)
TriggerKept == cpc = "wait" /\ (asked \/ exitFlag) => triggered

(* After close() the connector thread has ended, the appender is closed    *)
(* and no connection is left open (socketappender.cxx:80,                  *)
(* syslogappender.cxx:335).                                                *)
ClosedForGood ==
  kpc = "done" => cpc = "done" /\ closed /\ socket = "none" /\ newSocket = "none"

(* The descriptor a thread is writing to is still the appender's: when     *)
(* close() locks, as SysLogAppender's does, it does not close the          *)
(* descriptor under a write (socket.cxx:208, syslogappender.cxx:348).      *)
WriteOwnsDescriptor ==
  closeLocks => \A t \in Threads : apc[t] = "write" /\ fd[t] => socket # "none"

(* An appender without a connection gets one, unless the server is down or *)
(* the appender is being closed (connectorthread.cxx:80).  The host must   *)
(* have an IPv4 address: ctcConnect drops the ipv6 flag                    *)
(* (socketappender.cxx:190, syslogappender.cxx:515), so an appender whose  *)
(* host is reachable over IPv6 only is never reconnected.                  *)
Reconnects ==
  socket = "none" /\ "AF_INET" \in families
    ~> (socket # "none" /\ connected) \/ ~server \/ kpc # "idle"

(* SocketAppender::close returns, whatever the connector thread is doing   *)
(* (socketappender.cxx:81).                                                *)
CloseReturns == kpc # "idle" /\ ~closeLocks ~> kpc = "done"

(* close() returns for both appenders (syslogappender.cxx:335).            *)
CloseAlwaysReturns == kpc # "idle" ~> kpc = "done"

=============================================================================
