----------------------------- MODULE TcpServer -----------------------------
(***************************************************************************)
(* TcFrame::TcpServer (src/src/tcpserver.cpp) with sub loops: the main     *)
(* loop accepts connections, keeps them in m_connections by fd, and stops  *)
(* gracefully; each connection lives on an io loop.                        *)
(*                                                                         *)
(* A connection is reduced to its state, its fd and the functors queued    *)
(* for it in its io loop; TcpConnection has the rest.  HandleClose calls   *)
(* the close callback first and closes the socket afterwards, in two       *)
(* steps: the main loop may run the removal before, between or after them. *)
(* m_state is a plain member: Shutdown and ForceClose on the main thread   *)
(* test it in one step and store it in another.  Each connection is given  *)
(* an io loop of its own, which allows every order that shared loops do.   *)
(***************************************************************************)
EXTENDS Integers, Sequences, FiniteSets

CONSTANTS
  Fds,      \* bound: fd numbers the kernel hands out
  MaxConns, \* bound: connections accepted in a behaviour
  MaxStops  \* bound: calls of StopGracefully

ASSUME ServerAssumption ==
  /\ Fds \subseteq Nat \ {0} /\ IsFiniteSet(Fds)
  /\ MaxConns \in Nat /\ MaxStops \in Nat

Conns  == 1..MaxConns
NoConn == 0
NoFd   == 0   \* INVALID_SOCKET_VALUE

VARIABLES
  started,     \* m_started
  stopping,    \* m_stopping
  listening,   \* m_is_listening of the acceptor
  connections, \* m_connections, NoConn where there is no entry
  checkTimer,  \* the timer m_shutdown_check_timer_id is armed
  deadline,    \* the timer m_shutdown_deadline_timer_id is armed
  waiting,     \* m_shutdown_complete_callback is set
  mainQ,       \* connections whose removal is queued in the main loop
  storing,     \* what the main thread, inside Shutdown or ForceClose, has
               \* decided to do to each connection, "no" if nothing
  st,          \* m_state of each connection, "none" before it is accepted
  fd,          \* fd of each connection's socket
  ioQ,         \* functors queued in the io loop of each connection
  closing,     \* connections whose HandleClose has still to close the socket
  life,        \* how far ~TcpServer has come
  exited,      \* connections whose io loop has left Loop()
  total, closed, \* m_total_connections, m_closed_connections
  \* History, read by the properties only.
  stops,       \* calls of StopGracefully
  completed,   \* calls of shutdown complete callbacks
  destroys     \* times ConnectDestroyed was queued for each connection

serverVars == <<started, stopping, listening, checkTimer, deadline, waiting>>
connVars   == <<st, fd, ioQ, closing>>
lifeVars   == <<life, exited>>
histVars   == <<stops, completed, destroys>>
vars == <<serverVars, connections, mainQ, storing, connVars, lifeVars, total, closed, histVars>>

ServerType ==
  /\ started \in BOOLEAN /\ stopping \in BOOLEAN /\ listening \in BOOLEAN
  /\ checkTimer \in BOOLEAN /\ deadline \in BOOLEAN /\ waiting \in BOOLEAN

ConnType ==
  /\ connections \in [Fds -> Conns \cup {NoConn}]
  /\ mainQ \in Seq(Conns)
  /\ storing \in [Conns -> {"no", "shutdown", "force"}]
  /\ st \in [Conns -> {"none", "Connecting", "Connected", "Disconnecting", "Disconnected"}]
  /\ fd \in [Conns -> Fds \cup {NoFd}]
  /\ ioQ \in [Conns -> Seq({"establish", "shutdown", "force", "destroy"})]
  /\ closing \in SUBSET Conns

LifeType == exited \in SUBSET Conns /\ life \in {"alive", "closing", "joining", "gone"}

CountType ==
  /\ total \in 0..MaxConns /\ closed \in 0..MaxConns
  /\ stops \in 0..MaxStops /\ completed \in 0..MaxStops
  /\ destroys \in [Conns -> Nat]

TypeOK == ServerType /\ ConnType /\ LifeType /\ CountType

Init ==
  /\ started = FALSE /\ stopping = FALSE /\ listening = FALSE
  /\ connections = [f \in Fds |-> NoConn]
  /\ checkTimer = FALSE /\ deadline = FALSE /\ waiting = FALSE
  /\ mainQ = <<>> /\ storing = [c \in Conns |-> "no"]
  /\ st = [c \in Conns |-> "none"] /\ fd = [c \in Conns |-> NoFd]
  /\ ioQ = [c \in Conns |-> <<>>] /\ closing = {}
  /\ life = "alive" /\ exited = {}
  /\ total = 0 /\ closed = 0
  /\ stops = 0 /\ completed = 0 /\ destroys = [c \in Conns |-> 0]

Held(m)  == {m[f] : f \in Fds} \ {NoConn}
Empty(m) == Held(m) = {}

\* The main thread is not inside Shutdown, ForceClose or ~TcpServer.
Stored   == \A c \in Conns : storing[c] = "no"
MainIdle == Stored /\ life = "alive"

-----------------------------------------------------------------------------
(* Accepting.                                                              *)

\* The acceptor: Listen, Stop, and the socket HandleAccept hands on.  The kernel
\* gives it any number that is not open.
Listen == listening' = TRUE
StopListening == listening' = FALSE
HandleAccept(f) == listening /\ f \notin {fd[d] : d \in Conns}

Start ==
  /\ MainIdle /\ ~started
  /\ started' = TRUE
  /\ Listen
  /\ UNCHANGED <<stopping, checkTimer, deadline, waiting, connections, mainQ, storing, connVars,
                 lifeVars, total, closed, histVars>>

\* HandleAccept calls HandleNewConnection.  An entry that is still under the
\* number of the new socket goes.
HandleNewConnection(f) ==
  LET c == total + 1 IN
  /\ MainIdle /\ HandleAccept(f) /\ ~stopping
  /\ total < MaxConns
  /\ total' = c
  /\ st' = [st EXCEPT ![c] = "Connecting"]
  /\ fd' = [fd EXCEPT ![c] = f]
  /\ connections' = [connections EXCEPT ![f] = c]
  /\ ioQ' = [ioQ EXCEPT ![c] = <<"establish">>]
  /\ UNCHANGED <<serverVars, mainQ, storing, closing, lifeVars, closed, histVars>>

-----------------------------------------------------------------------------
(* Stopping.  S is the set of connections a server function acts on.       *)

\* conn->Shutdown() and conn->ForceClose() for a set of connections: the tests
\* of m_state, and for each connection that passes the store and RunInLoop.
ShutdownAll(S) ==
  storing' = [c \in Conns |-> IF c \in S /\ st[c] = "Connected" THEN "shutdown" ELSE "no"]

ForceCloseAll(S) ==
  storing' = [c \in Conns |-> IF c \in S /\ st[c] \in {"Connected", "Disconnecting"}
                              THEN "force" ELSE "no"]

StoreState(c) ==
  /\ storing[c] # "no"
  /\ storing' = [storing EXCEPT ![c] = "no"]
  /\ st' = [st EXCEPT ![c] = "Disconnecting"]
  /\ ioQ' = [ioQ EXCEPT ![c] = Append(@, storing[c])]
  /\ UNCHANGED <<serverVars, connections, mainQ, fd, closing, lifeVars, total, closed, histVars>>

\* ConnectDestroyed is queued for a set of connections.
QueueDestroy(S, Q) == [c \in Conns |-> IF c \in S THEN Append(Q[c], "destroy") ELSE Q[c]]
CountDestroy(S) == [c \in Conns |-> IF c \in S THEN destroys[c] + 1 ELSE destroys[c]]

\* The end of FinalizeGracefulStop: timers off, flags back, callback called.
Complete ==
  /\ checkTimer' = FALSE /\ deadline' = FALSE
  /\ started' = FALSE /\ stopping' = FALSE
  /\ completed' = completed + (IF waiting THEN 1 ELSE 0)
  /\ waiting' = FALSE

\* Mutant: the stale connections are dropped but not destroyed.
FinalizeWithoutDestroy(force, m, Q, D) ==
  LET stale == {c \in Held(m) : st[c] # "Connected"}
      rest  == [f \in Fds |-> IF m[f] \in stale THEN NoConn ELSE m[f]]
  IN  /\ connections' = rest
      /\ destroys' = CountDestroy(D)
      /\ ioQ' = Q
      /\ ForceCloseAll(IF force THEN Held(rest) ELSE {})
      /\ IF force /\ ~Empty(rest)
         THEN UNCHANGED <<checkTimer, started, stopping, waiting, completed>> /\ deadline' = FALSE
         ELSE Complete

\* Mutant: the stale connections are destroyed but stay in m_connections.
FinalizeKeepsStale(force, m, Q, D) ==
  LET stale == {c \in Held(m) : st[c] # "Connected"}
      Q1    == QueueDestroy(stale, Q)
  IN  /\ connections' = m
      /\ destroys' = CountDestroy(stale \cup D)
      /\ ioQ' = Q1
      /\ ForceCloseAll(IF force THEN Held(m) ELSE {})
      /\ IF force /\ ~Empty(m)
         THEN UNCHANGED <<checkTimer, started, stopping, waiting, completed>> /\ deadline' = FALSE
         ELSE Complete

\* FinalizeGracefulStop while stopping, on the map m and the queues Q that its
\* caller leaves; D are the connections the caller has already destroyed.
\* Called by the deadline timer it forces, and that timer has gone off.
FinalizeGracefulStop(force, m, Q, D) ==
  LET stale == {c \in Held(m) : st[c] # "Connected"}
      rest  == [f \in Fds |-> IF m[f] \in stale THEN NoConn ELSE m[f]]
      Q1    == QueueDestroy(stale, Q)
  IN  /\ connections' = rest
      /\ destroys' = CountDestroy(stale \cup D)
      /\ ioQ' = Q1
      /\ ForceCloseAll(IF force THEN Held(rest) ELSE {})
      /\ IF force /\ ~Empty(rest)
         THEN UNCHANGED <<checkTimer, started, stopping, waiting, completed>> /\ deadline' = FALSE
         ELSE Complete

\* Mutant: the deadline timer is forgotten.
ArmNoDeadline == checkTimer' = TRUE /\ UNCHANGED deadline

\* The timers StopGracefully creates when connections are left.
ArmTimers == checkTimer' = TRUE /\ deadline' = TRUE

\* StopGracefully in the main loop; called elsewhere it queues itself there.
StopGracefully ==
  /\ MainIdle /\ started /\ ~stopping /\ stops < MaxStops
  /\ stops' = stops + 1
  /\ StopListening
  /\ IF Empty(connections)
     THEN /\ checkTimer' = FALSE /\ deadline' = FALSE
          /\ started' = FALSE /\ stopping' = FALSE
          /\ completed' = completed + 1
          /\ UNCHANGED <<waiting, storing>>
     ELSE /\ stopping' = TRUE /\ waiting' = TRUE
          /\ ShutdownAll(Held(connections))
          /\ ArmTimers
          /\ UNCHANGED <<started, completed>>
  /\ UNCHANGED <<connections, mainQ, connVars, lifeVars, total, closed, destroys>>

\* StopGracefully on a server that is not started calls its callback at once;
\* on one that is stopping it replaces the callback of the first call.
StopAgain ==
  /\ MainIdle
  /\ ~started \/ stopping
  /\ stops < MaxStops
  /\ stops' = stops + 1
  /\ completed' = completed + (IF started THEN 0 ELSE 1)
  /\ waiting' = (waiting \/ started)
  /\ UNCHANGED <<started, stopping, listening, checkTimer, deadline, connections, mainQ,
                 storing, connVars, lifeVars, total, closed, destroys>>

\* Mutant: the check does not look whether connections are left.
CheckBlindly ==
  /\ MainIdle /\ checkTimer /\ stopping
  /\ FinalizeGracefulStop(FALSE, connections, ioQ, {})
  /\ UNCHANGED <<listening, mainQ, st, fd, closing, lifeVars, total, closed, stops>>

\* The repeating check timer: it finishes the stop if m_connections is empty.
ShutdownCheck ==
  /\ MainIdle /\ checkTimer /\ stopping
  /\ IF Empty(connections)
     THEN FinalizeGracefulStop(FALSE, connections, ioQ, {})
     ELSE UNCHANGED <<connections, destroys, ioQ, storing, checkTimer, deadline, started,
                      stopping, waiting, completed>>
  /\ UNCHANGED <<listening, mainQ, st, fd, closing, lifeVars, total, closed, stops>>

\* The deadline timer goes off.
ShutdownDeadline ==
  /\ MainIdle /\ deadline /\ stopping
  /\ FinalizeGracefulStop(TRUE, connections, ioQ, {})
  /\ UNCHANGED <<listening, mainQ, st, fd, closing, lifeVars, total, closed, stops>>

\* ScanIdleConnections finds the connections S idle.
ScanIdleConnections(S) ==
  /\ MainIdle /\ started
  /\ S # {} /\ S \subseteq {c \in Held(connections) : st[c] = "Connected"}
  /\ ForceCloseAll(S)
  /\ UNCHANGED <<serverVars, connections, mainQ, connVars, lifeVars, total, closed, histVars>>

-----------------------------------------------------------------------------
(* Removal in the main loop.                                               *)

\* m_connections.erase(fd) finds an entry.
Erases(c, f) == f # NoFd /\ connections[f] # NoConn

\* The functor HandleRemoveConnection queues.  It asks the connection for its
\* fd when it runs, and gives up if that is not in m_connections.
HandleRemoveConnection ==
  /\ MainIdle /\ mainQ # <<>>
  /\ LET c == Head(mainQ)
         f == fd[c]
         m == [connections EXCEPT ![f] = NoConn]
         Q == [ioQ EXCEPT ![c] = Append(@, "destroy")]
     IN  IF ~Erases(c, f)
         THEN UNCHANGED <<serverVars, connections, storing, ioQ, closed, completed, destroys>>
         ELSE /\ closed' = closed + 1
              /\ UNCHANGED listening
              /\ IF stopping /\ Empty(m)
                 THEN FinalizeGracefulStop(FALSE, m, Q, {c})
                 ELSE /\ connections' = m /\ ioQ' = Q
                      /\ destroys' = CountDestroy({c})
                      /\ UNCHANGED <<started, stopping, checkTimer, deadline, waiting, storing,
                                     completed>>
  /\ mainQ' = Tail(mainQ)
  /\ UNCHANGED <<st, fd, closing, lifeVars, total, stops>>

-----------------------------------------------------------------------------
(* The io loop of connection c.                                            *)

Unserved == <<serverVars, connections, storing, lifeVars, total, closed, histVars>>

\* HandleClose up to the close callback; the socket is closed afterwards.
BeginClose(c) ==
  /\ st' = [st EXCEPT ![c] = "Disconnected"]
  /\ mainQ' = Append(mainQ, c)
  /\ closing' = closing \cup {c}

SocketClose(c) ==
  /\ c \in closing \ exited
  /\ closing' = closing \ {c}
  /\ fd' = [fd EXCEPT ![c] = NoFd]
  /\ UNCHANGED <<Unserved, mainQ, st, ioQ>>

\* The peer closes or an error is met.
HandleClose(c) ==
  /\ st[c] \in {"Connected", "Disconnecting"} /\ fd[c] # NoFd /\ c \notin closing \cup exited
  /\ BeginClose(c)
  /\ UNCHANGED <<Unserved, fd, ioQ>>

\* ForceCloseInLoop closes the socket and then calls the close callback.
CloseNow(c) ==
  /\ st' = [st EXCEPT ![c] = "Disconnected"]
  /\ fd' = [fd EXCEPT ![c] = NoFd]
  /\ mainQ' = Append(mainQ, c)

\* User code on the io loop calls ForceClose.
UserForceClose(c) ==
  /\ st[c] \in {"Connected", "Disconnecting"} /\ fd[c] # NoFd /\ c \notin closing \cup exited
  /\ CloseNow(c)
  /\ UNCHANGED <<Unserved, ioQ, closing>>

RunFunctor(c, f) ==
  /\ c \notin closing \cup exited /\ ioQ[c] # <<>> /\ Head(ioQ[c]) = f
  /\ ioQ' = [ioQ EXCEPT ![c] = Tail(@)]
  /\ UNCHANGED Unserved

ConnectEstablished(c) ==
  /\ RunFunctor(c, "establish")
  /\ st' = [st EXCEPT ![c] = "Connected"]
  /\ UNCHANGED <<fd, closing, mainQ>>

\* ShutdownInLoop waits if there is output left, and closes otherwise.
ShutdownInLoop(c) ==
  /\ RunFunctor(c, "shutdown")
  /\ \/ UNCHANGED <<st, mainQ, closing>>
     \/ st[c] # "Disconnected" /\ BeginClose(c)
  /\ UNCHANGED fd

ForceCloseInLoop(c) ==
  /\ RunFunctor(c, "force")
  /\ IF st[c] \in {"Connected", "Disconnecting"}
     THEN CloseNow(c)
     ELSE UNCHANGED <<st, fd, mainQ>>
  /\ UNCHANGED closing

ConnectDestroyed(c) ==
  /\ RunFunctor(c, "destroy")
  /\ IF st[c] \in {"Connected", "Disconnecting"}
     THEN st' = [st EXCEPT ![c] = "Disconnected"] /\ fd' = [fd EXCEPT ![c] = NoFd]
     ELSE UNCHANGED <<st, fd>>
  /\ UNCHANGED <<closing, mainQ>>

IoFunctor(c) ==
  SocketClose(c) \/ ConnectEstablished(c) \/ ShutdownInLoop(c)
    \/ ForceCloseInLoop(c) \/ ConnectDestroyed(c)

-----------------------------------------------------------------------------
(* ~TcpServer, on the main thread and outside its callbacks.               *)

\* Timers off, acceptor off, ForceClose for every connection.
Destroy ==
  /\ MainIdle
  /\ life' = "closing"
  /\ stopping' = TRUE /\ StopListening
  /\ checkTimer' = FALSE /\ deadline' = FALSE
  /\ ForceCloseAll(Held(connections))
  /\ UNCHANGED <<started, waiting, connections, mainQ, connVars, exited, total, closed, histVars>>

\* Quit and join, one sub loop after the other.  They are taken to be inside
\* Loop().
QuitSubLoops ==
  /\ life = "closing" /\ Stored
  /\ life' = "joining"
  /\ UNCHANGED <<serverVars, connections, mainQ, storing, connVars, exited, total, closed,
                 histVars>>

\* A loop that is asked to quit, when those before it are joined, leaves at its
\* next test of m_quit, which may come before the functors queued in it have run.
LeaveLoop(c) ==
  /\ life = "joining" /\ c \notin closing /\ exited = 1..(c - 1)
  /\ exited' = exited \cup {c}
  /\ UNCHANGED <<serverVars, connections, mainQ, storing, connVars, life, total, closed, histVars>>

\* All threads are joined; m_connections is cleared and the sub loops with the
\* functors queued in them are destroyed, and with both the connections.
JoinSubLoops ==
  /\ life = "joining" /\ exited = Conns
  /\ life' = "gone"
  /\ connections' = [f \in Fds |-> NoConn]
  /\ fd' = [c \in Conns |-> IF c \in Held(connections) \/ ioQ[c] # <<>> THEN NoFd ELSE fd[c]]
  /\ ioQ' = [c \in Conns |-> <<>>]
  /\ UNCHANGED <<serverVars, mainQ, storing, st, closing, exited, total, closed, histVars>>

Destructor == QuitSubLoops \/ (\E c \in Conns : LeaveLoop(c)) \/ JoinSubLoops

-----------------------------------------------------------------------------
MainTimers == ShutdownCheck \/ ShutdownDeadline

Next ==
  \/ Start \/ StopGracefully \/ StopAgain \/ MainTimers \/ HandleRemoveConnection
  \/ Destroy \/ Destructor
  \/ \E f \in Fds : HandleNewConnection(f)
  \/ \E S \in SUBSET Conns : ScanIdleConnections(S)
  \/ \E c \in Conns : StoreState(c) \/ HandleClose(c) \/ UserForceClose(c) \/ IoFunctor(c)

Spec == Init /\ [][Next]_vars

\* Every loop runs what is queued in it and the timers that are due.
FairSpec ==
  /\ Spec
  /\ WF_vars(HandleRemoveConnection)
  /\ WF_vars(Destructor)
  /\ WF_vars(ShutdownCheck) /\ WF_vars(ShutdownDeadline)
  /\ \A c \in Conns : WF_vars(StoreState(c)) /\ WF_vars(IoFunctor(c))

-----------------------------------------------------------------------------
(* Properties.                                                             *)

Destroying(c) == \E i \in 1..Len(ioQ[c]) : ioQ[c][i] = "destroy"

\* No socket is forgotten: a connection with an open socket is in
\* m_connections under its fd, or its io loop is about to close the socket,
\* whatever fd numbers the kernel reuses meanwhile.
OpenIsTracked ==
  \A c \in Conns : fd[c] # NoFd =>
    connections[fd[c]] = c \/ c \in closing \/ Destroying(c)

\* HandleRemoveConnection and FinalizeGracefulStop, which both drop
\* connections and queue ConnectDestroyed, never do it to the same one.
DestroyedOnce == \A c \in Conns : destroys[c] <= 1

\* FinalizeGracefulStop never reports the end of a stop while a connection is
\* left open: once the server is down its io loops are closing what is left.
NoSocketOutlivesStop ==
  ~started => \A c \in Conns : fd[c] # NoFd => c \in closing \/ Destroying(c)

\* Until the server is gone, an entry that leaves m_connections, erased by fd number,
\* dropped by a stop or overwritten by a new socket with its number, is that of a
\* connection no longer Connected: ConnectDestroyed is queued for this very connection
\* in the same step, or its socket was closed before.  It is queued at no other time,
\* and never twice.
EntriesLeaveClosed ==
  [][/\ \A f \in Fds : LET c == connections[f] IN
          c # NoConn /\ connections'[f] # c /\ life' # "gone" =>
            st[c] # "Connected" /\ (fd[c] = NoFd \/ destroys'[c] = destroys[c] + 1)
     /\ \A c \in Conns : destroys'[c] # destroys[c] =>
          destroys[c] = 0 /\ c \in Held(connections) \ Held(connections')]_vars

\* A stop closes every connection, at the latest after its deadline, and so does
\* the destructor, also if its loops leave before they have run what is queued.
StopClosesAll == \A c \in Conns : (stopping /\ fd[c] # NoFd) ~> fd[c] = NoFd

\* "支持优雅停机：停止接入、等待在途发送完成、超时强制关闭" (src/README.md:19), "超过 5 秒仍未
\* 结束则强制关闭剩余连接" (src/README.md:114): a stop comes to its end.
StopCompletes == stopping ~> (~stopping \/ life # "alive")

\* HandleClose: "调用关闭回调，通知TcpServer移除这个连接"
\* (src/src/tcpconnection.cpp:205), the close callback makes the server remove the
\* connection: once everything queued has run, m_connections has no dead ones.
ClosedIsRemoved ==
  \A c \in Conns :
    life = "alive" /\ st[c] = "Disconnected" /\ c \notin closing /\ mainQ = <<>> /\ ioQ[c] = <<>>
      => c \notin Held(connections)

\* ~TcpConnection: assert(m_state == ConnectionState::Disconnected)
\* (src/src/tcpconnection.cpp:52), for every connection ~TcpServer destroys.
DestroyedIsDisconnected ==
  [][life # "gone" /\ life' = "gone" => \A c \in Conns :
       c \in Held(connections) \/ ioQ[c] # <<>> => st[c] = "Disconnected"]_vars
=============================================================================
