----------------------------- MODULE TcpClient -----------------------------
(***************************************************************************)
(* TcFrame::TcpClient (src/src/tcpclient.cpp) with its connections, on top *)
(* of EpollPoller.  All of it runs on one loop thread, in the event        *)
(* handlers of a round, in the functors and timers after them, and in the  *)
(* user's connection, message, write-complete and close callbacks, which   *)
(* may call the client again: "stack" has the callbacks the thread is in,  *)
(* the innermost one last.                                                 *)
(*                                                                         *)
(* While a connect is in progress a temporary channel waits for the socket *)
(* to become writable.  Its callback hands the socket to a connection,     *)
(* whose own channel has the same fd, and then removes itself.  The        *)
(* temporary channel is owned by its own callback and never freed.         *)
(***************************************************************************)
EXTENDS Integers, Sequences, FiniteSets

CONSTANTS
  Fds,         \* bound: fd numbers
  MaxAttempts, \* bound: sockets created by Connect
  MaxCalls,    \* bound: calls of the user
  MaxEvents    \* bound: things the peer does to an established connection

ASSUME ClientAssumption ==
  /\ Fds \subseteq Nat \ {0} /\ IsFiniteSet(Fds)
  /\ MaxAttempts \in Nat /\ MaxCalls \in Nat /\ MaxEvents \in Nat

NoFd     == 0            \* no socket, or INVALID_SOCKET_VALUE
Attempts == 1..MaxAttempts
None     == <<"none", 0>>
Temp(k)  == <<"temp", k>> \* the temporary channel of attempt k
Conn(k)  == <<"conn", k>> \* the channel of the connection it led to
Channels == {Temp(k) : k \in Attempts} \cup {Conn(k) : k \in Attempts}
Room     == 2 * MaxAttempts

INSTANCE EpollPoller

VARIABLES
  client, \* m_started, m_connecting, m_auto_reconnect, the fd of m_socket,
          \* the connection in m_connection (0 if none), timers set by RunAfter
  conn,   \* the connections: m_state, fd, m_events, output left
  temp,   \* fd of the temporary channel of each attempt
  poller, \* the EpollPoller of the loop
  net,    \* what the kernel knows of each fd
  active, \* active channels of this round that are still to be handled
  stack,  \* callbacks the loop thread is in
  aborted, \* the assert of ~TcpConnection failed, or a null pointer was followed
  gone,   \* ~TcpClient has run
  attempts, calls, events \* used so far, of the bounds above

bounds == <<attempts, calls, events>>
vars == <<client, conn, temp, poller, net, active, stack, aborted, gone, bounds>>

NoConn == [st |-> "none", fd |-> NoFd, ev |-> {}, out |-> FALSE]
Callback(at, k, j) == [at |-> at, conn |-> k, temp |-> j]

\* The message callback is "msgcb", or "msgcb_w" if the event it is called for also
\* has room for output, which Channel::HandleEvent goes on with.
Callbacks == {"conncb", "msgcb", "msgcb_w", "wccb", "closecb"}

\* The innermost callback, and the stack when it has returned.
Innermost == stack[Len(stack)]
Returned  == SubSeq(stack, 1, Len(stack) - 1)

Client == [started : BOOLEAN, connecting : BOOLEAN, auto : BOOLEAN,
           sock : Fds \cup {NoFd}, current : Attempts \cup {0}, timers : Nat]
Connection == [st : {"none", "Connected", "Disconnecting", "Disconnected"},
               fd : Fds \cup {NoFd}, ev : SUBSET {"read", "write"}, out : BOOLEAN]

TypeOK ==
  /\ client \in Client
  /\ conn \in [Attempts -> Connection]
  /\ temp \in [Attempts -> Fds \cup {NoFd}]
  /\ poller \in [map : [Fds -> Channels \cup {None}], set : [Fds -> SUBSET {"read", "write"}],
                 added : SUBSET Channels, room : Nat]
  /\ net \in [Fds -> {"closed", "syn", "up", "data", "eof", "error"}]
  /\ active \in SUBSET [channel : Channels, revents : SUBSET {"read", "write", "err", "hup"}]
  /\ stack \in Seq([at : Callbacks, conn : Attempts, temp : Attempts \cup {0}])
  /\ aborted \in BOOLEAN /\ gone \in BOOLEAN
  /\ attempts \in 0..MaxAttempts

Init ==
  /\ client \in [started : {FALSE}, connecting : {FALSE}, auto : BOOLEAN,
                 sock : {NoFd}, current : {0}, timers : {0}]
  /\ conn = [k \in Attempts |-> NoConn]
  /\ temp = [k \in Attempts |-> NoFd]
  /\ poller = EmptyEpoll
  /\ net = [f \in Fds |-> "closed"]
  /\ active = {} /\ stack = <<>>
  /\ aborted = FALSE /\ gone = FALSE
  /\ attempts = 0 /\ calls = 0 /\ events = 0

\* Closing a socket: the kernel forgets the fd, the poller's map does not.
CloseFd(n, f)     == IF f = NoFd THEN n ELSE [n EXCEPT ![f] = "closed"]
CloseWatch(p, f)  == IF f = NoFd THEN p ELSE EpollClosed(p, f)

-----------------------------------------------------------------------------
(* Connections.                                                            *)

\* Mutant: m_socket is copied, not moved, and keeps the fd.
HandleConnectCopies(k, f, j, p, c) ==
  IF client.current # 0
  THEN /\ aborted' = TRUE
       /\ UNCHANGED <<client, conn, poller, stack>>
  ELSE /\ client' = [c EXCEPT !.connecting = FALSE, !.current = k]
       /\ conn' = [conn EXCEPT ![k] = [st |-> "Connected", fd |-> f, ev |-> {"read"},
                                       out |-> FALSE]]
       /\ poller' = EpollUpdate(p, Conn(k), f, {"read"})
       /\ stack' = Append(stack, Callback("conncb", k, j))
       /\ UNCHANGED aborted

\* TcpConnection::ConnectEstablished, called by HandleConnect for the socket f.
\* m_connection is overwritten: a connection it still holds is destroyed
\* without being Disconnected.  j is the temporary channel it was found by.
HandleConnect(k, f, j, p, c) ==
  IF client.current # 0
  THEN /\ aborted' = TRUE
       /\ UNCHANGED <<client, conn, poller, stack>>
  ELSE /\ client' = [c EXCEPT !.connecting = FALSE, !.sock = NoFd, !.current = k]
       /\ conn' = [conn EXCEPT ![k] = [st |-> "Connected", fd |-> f, ev |-> {"read"},
                                       out |-> FALSE]]
       /\ poller' = EpollUpdate(p, Conn(k), f, {"read"})
       /\ stack' = Append(stack, Callback("conncb", k, j))
       /\ UNCHANGED aborted

\* TcpConnection::HandleClose up to the user's close callback, by way of
\* HandleRemoveConnection, which drops m_connection first.  c are the members
\* of the client when it is called.
HandleClose(k, c) ==
  /\ conn' = [conn EXCEPT ![k] = [conn[k] EXCEPT !.st = "Disconnected", !.ev = {}]]
  /\ poller' = EpollUpdate(poller, Conn(k), conn[k].fd, {})
  /\ client' = [c EXCEPT !.current = 0]
  /\ stack' = Append(stack, Callback("closecb", k, 0))

\* The user's close callback returns: the end of HandleRemoveConnection, and
\* of HandleClose, which closes the socket.  Assumed: the user holds a reference to
\* the connection.  If m_connection was the last one, the connection dies with the
\* argument of the callback, ~Socket closes the socket, and the rest of HandleClose
\* runs on freed memory.
LeaveCloseCallback ==
  /\ ~aborted /\ stack # <<>> /\ Innermost.at = "closecb"
  /\ LET k == Innermost.conn IN
       /\ net' = CloseFd(net, conn[k].fd)
       /\ poller' = CloseWatch(poller, conn[k].fd)
  /\ client' = IF client.auto /\ client.started
               THEN [client EXCEPT !.connecting = FALSE, !.timers = @ + 1]
               ELSE [client EXCEPT !.started = FALSE]
  /\ stack' = Returned
  /\ UNCHANGED <<conn, temp, active, aborted, gone, bounds>>

\* The user's connection callback returns.  m_socket is reset, whichever
\* socket it holds by now, and the temporary channel, if there was one,
\* removes itself, and with it whatever is registered under its fd.
LeaveConnectionCallback ==
  /\ ~aborted /\ stack # <<>> /\ Innermost.at = "conncb"
  /\ LET j == Innermost.temp
         p == CloseWatch(poller, client.sock)
     IN  poller' = IF j # 0 /\ Temp(j) \in p.added THEN EpollRemove(p, Temp(j), temp[j]) ELSE p
  /\ net' = CloseFd(net, client.sock)
  /\ client' = [client EXCEPT !.sock = NoFd]
  /\ stack' = Returned
  /\ UNCHANGED <<conn, temp, active, aborted, gone, bounds>>

-----------------------------------------------------------------------------
(* The user's code.                                                        *)

IsConnected == client.current # 0 /\ conn[client.current].st = "Connected"

UserCode == ~aborted /\ ~gone /\ (stack # <<>> \/ active = {})
Call == UserCode /\ calls < MaxCalls /\ calls' = calls + 1

\* TcpClient::Connect past its test of m_started, for a new socket f.  The
\* socket it replaces in m_socket is closed after the new one was created.
StartConnect(k, f, was) ==
  LET p == CloseWatch(poller, was.sock)
      n == CloseFd(net, was.sock)
      c == [was EXCEPT !.started = TRUE, !.connecting = TRUE, !.sock = f]
  IN  \* connect() succeeds at once,
      \/ /\ HandleConnect(k, f, 0, p, c)
         /\ net' = [n EXCEPT ![f] = "up"]
         /\ UNCHANGED temp
      \* or is in progress,
      \/ /\ temp' = [temp EXCEPT ![k] = f]
         /\ poller' = EpollUpdate(p, Temp(k), f, {"write"})
         /\ net' = [n EXCEPT ![f] = "syn"]
         /\ client' = c
         /\ UNCHANGED <<conn, stack, aborted>>
      \* or fails.
      \/ /\ client' = [c EXCEPT !.started = FALSE, !.connecting = FALSE, !.sock = NoFd]
         /\ poller' = p /\ net' = n
         /\ UNCHANGED <<conn, temp, stack, aborted>>

\* m_started.exchange(true) lets only the first call through.
ConnectBody(c) ==
  \/ /\ c.started
     /\ client' = c
     /\ UNCHANGED <<conn, temp, poller, net, stack, aborted, attempts>>
  \/ /\ ~c.started /\ attempts < MaxAttempts
     /\ attempts' = attempts + 1
     /\ \E f \in {g \in Fds : net[g] = "closed"} : StartConnect(attempts + 1, f, c)

Connect ==
  /\ Call /\ ConnectBody(client)
  /\ UNCHANGED <<active, gone, events>>

\* TcpConnection::Shutdown runs at once on the loop thread: it waits for the
\* output to be sent, or closes.
Disconnect ==
  /\ Call
  /\ LET k == client.current
         c == [client EXCEPT !.auto = FALSE, !.started = FALSE]
     IN  \/ /\ ~IsConnected
            /\ client' = c
            /\ UNCHANGED <<conn, poller, stack>>
         \/ /\ IsConnected /\ conn[k].out
            /\ client' = c
            /\ conn' = [conn EXCEPT ![k] = [conn[k] EXCEPT !.st = "Disconnecting", !.ev = @ \cup {"write"}]]
            /\ poller' = IF "write" \in conn[k].ev THEN poller
                         ELSE EpollUpdate(poller, Conn(k), conn[k].fd, conn'[k].ev)
            /\ UNCHANGED <<stack>>
         \/ /\ IsConnected /\ ~conn[k].out
            /\ HandleClose(k, c)
  /\ UNCHANGED <<temp, net, active, aborted, gone, attempts, events>>

\* Send on a connection that is not Connected only logs.
Send ==
  LET k == client.current IN
  /\ Call /\ IsConnected
  /\ conn' = [conn EXCEPT ![k] = [conn[k] EXCEPT !.out = TRUE, !.ev = @ \cup {"write"}]]
  /\ poller' = IF "write" \in conn[k].ev THEN poller
               ELSE EpollUpdate(poller, Conn(k), conn[k].fd, conn'[k].ev)
  /\ UNCHANGED <<client, temp, net, active, stack, aborted, gone, attempts, events>>

SetAutoReconnect ==
  /\ Call
  /\ client' = [client EXCEPT !.auto = ~@]
  /\ UNCHANGED <<conn, temp, poller, net, active, stack, aborted, gone, attempts, events>>

\* ~TcpClient, outside its callbacks: ForceClose of the connection, with the
\* close callback behind it, and the destruction of m_socket.
Destroy ==
  /\ Call /\ stack = <<>>
  /\ gone' = TRUE
  /\ LET k == client.current
         f == IF k = 0 THEN NoFd ELSE conn[k].fd
         p == IF k = 0 THEN poller ELSE EpollUpdate(poller, Conn(k), f, {})
         retry == k # 0 /\ client.auto /\ client.started
     IN  /\ conn' = IF k = 0 THEN conn
                    ELSE [conn EXCEPT ![k] = [conn[k] EXCEPT !.st = "Disconnected", !.ev = {}]]
         /\ poller' = CloseWatch(CloseWatch(p, f), client.sock)
         /\ net' = CloseFd(CloseFd(net, f), client.sock)
         /\ client' = [client EXCEPT !.current = 0, !.sock = NoFd,
                                     !.timers = IF retry THEN @ + 1 ELSE @]
  /\ UNCHANGED <<temp, active, stack, aborted, attempts, events>>

-----------------------------------------------------------------------------
(* The loop.                                                               *)

\* The conditions epoll sees on an fd.
Ready(f) ==
  CASE net[f] = "up" -> {"write"}
    [] net[f] \in {"data", "eof"} -> {"read", "write"}
    [] net[f] = "error" -> {"read", "write", "err", "hup"}
    [] OTHER -> {}

ReadyNow == [f \in Fds |-> Ready(f)]
Reported == UNION {EpollActive(poller, ReadyNow, got) : got \in EpollAnswers(poller, ReadyNow)}

Poll ==
  /\ ~aborted /\ stack = <<>> /\ active = {} /\ Reported # {}
  /\ active' = Reported
  /\ UNCHANGED <<client, conn, temp, poller, net, stack, aborted, gone, bounds>>

\* The next active channel is handled; what it is does not depend on the order.
Handle(c, a) == ~aborted /\ stack = <<>> /\ a \in active /\ a.channel = c /\ active' = active \ {a}

Failing(a) == a.revents \cap {"err", "hup"} # {}

\* The temporary channel has a write callback and no other.
Writes(a) == ~Failing(a) /\ "write" \in a.revents

TempIgnores(k, a) ==
  /\ Handle(Temp(k), a) /\ ~Writes(a)
  /\ UNCHANGED <<client, conn, temp, poller, net, stack, aborted, gone, bounds>>

\* SO_ERROR, which is 0 also if the fd has been closed meanwhile.
GetSocketError(f) == net[f] = "error"

\* Mutant: the callback takes m_connecting for the state of its own attempt.
TempConnectedIfConnecting(k, a) ==
  /\ Handle(Temp(k), a) /\ Writes(a)
  /\ ~GetSocketError(temp[k])
  /\ IF client.connecting
     THEN HandleConnect(k, client.sock, k, poller, client)
     ELSE UNCHANGED <<client, conn, poller, stack, aborted>>
  /\ UNCHANGED <<temp, net, gone, bounds>>

\* Its write callback.  On success the socket in m_socket is handed over: there
\* may be none any more, or that of a later attempt.
TempConnected(k, a) ==
  /\ Handle(Temp(k), a) /\ Writes(a)
  /\ ~GetSocketError(temp[k])
  /\ IF client.sock = NoFd
     THEN aborted' = TRUE /\ UNCHANGED <<client, conn, poller, stack>>
     ELSE HandleConnect(k, client.sock, k, poller, client)
  /\ UNCHANGED <<temp, net, gone, bounds>>

TempFailed(k, a) ==
  /\ Handle(Temp(k), a) /\ Writes(a)
  /\ GetSocketError(temp[k])
  /\ client' = [client EXCEPT !.connecting = FALSE,
                              !.timers = IF client.auto /\ client.started THEN @ + 1 ELSE @]
  /\ poller' = IF Temp(k) \in poller.added THEN EpollRemove(poller, Temp(k), temp[k]) ELSE poller
  /\ UNCHANGED <<conn, temp, net, stack, aborted, gone, bounds>>

\* Channel::HandleEvent of a connection: hangup, or end of file.
ConnCloses(k, a) ==
  /\ Handle(Conn(k), a)
  /\ conn[k].st # "Disconnected"
  /\ Failing(a) \/ ("read" \in a.revents /\ net[conn[k].fd] \in {"eof", "error"})
  /\ HandleClose(k, client)
  /\ UNCHANGED <<temp, net, aborted, gone, bounds>>

\* TcpConnection::HandleWrite, with the callbacks "under" it: the output is sent, the
\* write-complete callback called.  (An error is left to the next Poll, which reports it.)
HandleWrite(k, under) ==
  IF conn[k].st = "Connected" /\ "write" \in conn[k].ev
  THEN /\ conn' = [conn EXCEPT ![k] = [conn[k] EXCEPT !.out = FALSE, !.ev = {"read"}]]
       /\ poller' = EpollUpdate(poller, Conn(k), conn[k].fd, {"read"})
       /\ stack' = Append(under, Callback("wccb", k, 0))
  ELSE UNCHANGED <<conn, poller>> /\ stack' = under

\* Data, which the message callback takes.
ConnReads(k, a) ==
  /\ Handle(Conn(k), a) /\ conn[k].st # "Disconnected"
  /\ ~Failing(a) /\ "read" \in a.revents /\ net[conn[k].fd] \notin {"eof", "error"}
  /\ net' = [net EXCEPT ![conn[k].fd] = "up"]
  /\ stack' = Append(stack, Callback(IF "write" \in a.revents THEN "msgcb_w" ELSE "msgcb", k, 0))
  /\ UNCHANGED <<client, conn, temp, poller, aborted, gone, bounds>>

\* Room for the output, and no data.
ConnWrites(k, a) ==
  /\ Handle(Conn(k), a) /\ conn[k].st # "Disconnected"
  /\ ~Failing(a) /\ "read" \notin a.revents
  /\ HandleWrite(k, stack)
  /\ UNCHANGED <<client, temp, net, aborted, gone, bounds>>

\* The user's message callback returns, and the event goes on with the output, if the
\* callback did not close the connection.
LeaveMessageCallback ==
  /\ ~aborted /\ stack # <<>> /\ Innermost.at \in {"msgcb", "msgcb_w"}
  /\ IF Innermost.at = "msgcb_w"
     THEN HandleWrite(Innermost.conn, Returned)
     ELSE UNCHANGED <<conn, poller>> /\ stack' = Returned
  /\ UNCHANGED <<client, temp, net, active, aborted, gone, bounds>>

\* The user's write-complete callback returns, the last thing HandleWrite does.
LeaveWriteCompleteCallback ==
  /\ ~aborted /\ stack # <<>> /\ Innermost.at = "wccb"
  /\ stack' = Returned
  /\ UNCHANGED <<client, conn, temp, poller, net, active, aborted, gone, bounds>>

\* An event of a connection that was closed earlier in the round.
ConnIgnores(k, a) ==
  /\ Handle(Conn(k), a) /\ conn[k].st = "Disconnected"
  /\ UNCHANGED <<client, conn, temp, poller, net, stack, aborted, gone, bounds>>

HandleEvent ==
  \E k \in Attempts, a \in active :
    TempIgnores(k, a) \/ TempConnected(k, a) \/ TempFailed(k, a)
      \/ ConnCloses(k, a) \/ ConnReads(k, a) \/ ConnWrites(k, a) \/ ConnIgnores(k, a)

\* The reconnect timer expires: DoReconnect.
DoReconnect ==
  /\ ~aborted /\ ~gone /\ stack = <<>> /\ active = {} /\ client.timers > 0
  /\ LET c == [client EXCEPT !.timers = @ - 1] IN
       IF client.started /\ ~client.connecting /\ ~IsConnected
       THEN ConnectBody(c)
       ELSE client' = c /\ UNCHANGED <<conn, temp, poller, net, stack, aborted, attempts>>
  /\ UNCHANGED <<active, gone, calls, events>>

-----------------------------------------------------------------------------
(* The peer.                                                               *)

PeerAnswers(f) ==
  /\ net[f] = "syn"
  /\ net' \in {[net EXCEPT ![f] = "up"], [net EXCEPT ![f] = "error"]}
  /\ UNCHANGED <<client, conn, temp, poller, active, stack, aborted, gone, bounds>>

PeerActs(f) ==
  /\ events < MaxEvents /\ events' = events + 1
  /\ \/ net[f] = "up" /\ net' \in {[net EXCEPT ![f] = s] : s \in {"data", "eof", "error"}}
     \/ net[f] \in {"data", "eof"} /\ net' = [net EXCEPT ![f] = "error"]
  /\ UNCHANGED <<client, conn, temp, poller, active, stack, aborted, gone, attempts, calls>>

-----------------------------------------------------------------------------
LeaveCallback ==
  \/ LeaveConnectionCallback \/ LeaveMessageCallback
  \/ LeaveWriteCompleteCallback \/ LeaveCloseCallback

Next ==
  \/ Connect \/ Disconnect \/ Send \/ SetAutoReconnect \/ Destroy
  \/ LeaveCallback \/ Poll \/ HandleEvent \/ DoReconnect
  \/ \E f \in Fds : PeerAnswers(f) \/ PeerActs(f)

Spec == Init /\ [][Next]_vars

\* The loop thread goes on, and its timers expire.  The peer need not act.
FairSpec ==
  Spec /\ WF_vars(Poll) /\ WF_vars(HandleEvent) /\ WF_vars(LeaveCallback) /\ WF_vars(DoReconnect)

-----------------------------------------------------------------------------
\* Connections whose HandleClose is not over.
Closing == {stack[i].conn : i \in {j \in 1..Len(stack) : stack[j].at = "closecb"}}

\* Every open socket has exactly one owner, and every owner's socket is open,
\* however Connect and Disconnect are mixed with callbacks: m_socket, the
\* connection in m_connection, or one that is about to close it.
OneOwner ==
  LET owners == ({client.current} \cup Closing) \ {0} IN
  ~aborted =>
    /\ {f \in Fds : net[f] # "closed"} = ({client.sock} \cup {conn[k].fd : k \in owners}) \ {NoFd}
    /\ \A k \in owners : conn[k].fd # client.sock
    /\ \A j, k \in owners : conn[j].fd = conn[k].fd => j = k

\* Between handlers, what the kernel watches for the poller is an open socket,
\* and whom the poller reports it to is still there: the temporary channel made
\* for that fd, or the channel of the connection in m_connection.  And an event of
\* a connection still to be handled in this round finds it in m_connection.
WatchedIsOwned ==
  ~aborted /\ stack = <<>> =>
    /\ \A f \in Fds : poller.set[f] # {} =>
         /\ net[f] # "closed"
         /\ \/ \E k \in Attempts : poller.map[f] = Temp(k) /\ temp[k] = f
            \/ \E k \in Attempts : poller.map[f] = Conn(k) /\ conn[k].fd = f /\ client.current = k
    /\ \A a \in active, k \in Attempts : a.channel = Conn(k) => client.current = k

\* An attempt whose temporary channel is registered and whose connect succeeds
\* becomes a connection, whatever callbacks and timers of earlier connections do to
\* m_connecting meanwhile, unless the client is stopped or the socket is closed or
\* fails first.
AttemptCompletes ==
  \A k \in Attempts :
    (/\ temp[k] # NoFd /\ client.sock = temp[k] /\ net[temp[k]] = "up"
     /\ poller.map[temp[k]] = Temp(k) /\ poller.set[temp[k]] # {})
      ~> \/ aborted \/ ~client.started
         \/ client.current # 0 /\ conn[client.current].fd = temp[k]
         \/ temp[k] # NoFd /\ net[temp[k]] \in {"closed", "error"}

\* The write callback of the temporary channel: "写事件触发，连接完成，检查错误"
\* (src/src/tcpclient.cpp:62), the connect is complete when it runs, so that a
\* connection is made of a socket that is connected.  The code does not keep this.
EstablishedIsUp ==
  ~aborted /\ IsConnected => net[conn[client.current].fd] # "syn"

\* Disconnect: "断开连接" (src/include/tcpclient.h:40), and it logs "disconnected"
\* (src/src/tcpclient.cpp:160): after it no connection comes up that nobody asked for
\* since.  The code does not keep this: a connect in progress goes on.
DisconnectGivesUp ==
  [][client'.current # client.current /\ client'.current # 0 => client'.started]_vars

\* ConnectEstablished: "连接建立后，默认关注读事件，等待对方发送数据"
\* (src/src/tcpconnection.cpp:71), once established a connection is watched for
\* data from its peer.
EstablishedIsWatched ==
  ~aborted /\ stack = <<>> /\ IsConnected =>
    LET f == conn[client.current].fd IN
      poller.map[f] = Conn(client.current) /\ "read" \in poller.set[f]

\* "支持自动重连" (src/include/tcpclient.h:3): with automatic reconnection on, the
\* retry timer leads to a new attempt.  The code does not keep this.
ReconnectRetries ==
  \A n \in 0..(MaxAttempts - 1) :
    (client.timers > 0 /\ attempts = n)
      ~> (attempts > n \/ IsConnected \/ ~client.auto \/ ~client.started \/ gone \/ aborted)

\* The assert of ~TcpConnection (src/src/tcpconnection.cpp:52) holds, and no null
\* pointer is followed.  The code does not keep this.
NeverAborts == ~aborted
=============================================================================
