--------------------------- MODULE TcpConnection ---------------------------
(***************************************************************************)
(* TcFrame::TcpConnection (src/src/tcpconnection.cpp) with its Channel     *)
(* (src/src/channel.cpp) and its place in the loop's EpollPoller           *)
(* (src/src/epoll_poller.cpp).                                             *)
(*                                                                         *)
(* The loop thread polls, dispatches the events of the channel, and runs   *)
(* the functors queued for the connection.  It is interleaved with foreign *)
(* threads that call Send, Shutdown and ForceClose (the user's threads,    *)
(* and the server's main thread), with the peer, and with the kernel       *)
(* giving the fd number of a closed connection to a new one.  m_state is a *)
(* plain member: a foreign thread reads it, writes it and queues its       *)
(* functor in three steps.                                                 *)
(*                                                                         *)
(* In the callbacks, and while the loop thread is busy with other channels *)
(* or functors, user code on the loop thread may call the connection too.  *)
(***************************************************************************)
EXTENDS Integers, Sequences

CONSTANTS
  Foreign,    \* threads other than the loop thread
  HighWater,  \* m_high_water_mark, in units of data
  Lens,       \* lengths of the messages sent, in units of data
  MaxRx,      \* bound: unread arrivals the kernel holds
  MaxCalls    \* bound: calls of Send, Shutdown and ForceClose

ASSUME ConnectionAssumption ==
  /\ HighWater \in Nat \ {0}
  /\ Lens \subseteq Nat
  /\ MaxRx \in Nat /\ MaxCalls \in Nat

VARIABLES
  state,     \* m_state
  sock,      \* m_socket holds the open fd
  reading, writing, \* m_events of the channel
  added,     \* m_added of the channel
  mapped,    \* whose channel m_fd_to_channel holds for the channel's fd
  out,       \* units in m_output_buffer
  pendingBytes, \* m_pending_write_bytes
  pc,        \* control state of the loop thread
  ret,       \* where the high water mark callback returns to
  revents,   \* m_revents
  queue,     \* functors queued in the loop for this connection
  entry,     \* TcpServer's m_connections holds the connection
  caller,    \* control state of each foreign thread
  rx, eof, rst, space, \* the socket: arrivals, FIN seen, reset, room to write
  \* History, read by the properties only.
  calls,     \* calls made so far
  closeCalls, \* calls of m_close_callback
  asked,     \* somebody asked for the connection to be closed
  harmed,    \* a later owner of the fd number lost its registration, or got none
  midSend    \* closed inside the high water mark callback, within SendInLoop

connVars  == <<state, sock, out, pendingBytes, closeCalls>>
chanVars  == <<reading, writing, added, mapped, harmed, midSend>>
loopVars  == <<pc, ret, revents>>
peerVars  == <<rx, eof, rst, space>>
otherVars == <<entry, caller, calls, asked>>
vars == <<connVars, chanVars, loopVars, queue, peerVars, otherVars>>

States    == {"Connecting", "Connected", "Disconnecting", "Disconnected"}
Callbacks == {"conncb", "msgcb", "wccb", "hwmcb"}
Send(n)   == [do |-> "send", len |-> n]
Do(op)    == [do |-> op, len |-> 0]
Functors  == {Send(n) : n \in Lens}
               \cup {Do(op) : op \in {"establish", "shutdown", "force", "destroy"}}

ConnType ==
  /\ state \in States /\ sock \in BOOLEAN
  /\ out \in Nat /\ pendingBytes \in Nat /\ closeCalls \in Nat

ChanType ==
  /\ reading \in BOOLEAN /\ writing \in BOOLEAN /\ added \in BOOLEAN
  /\ mapped \in {"none", "self", "other"} /\ harmed \in BOOLEAN /\ midSend \in BOOLEAN

LoopType ==
  /\ pc \in {"top", "active", "again", "write", "wrote", "pending"} \cup Callbacks
  /\ ret \in {"active", "pending", "conncb", "msgcb", "wccb"}
  /\ revents \in SUBSET {"err", "hup", "in", "out"}

PeerType == rx \in 0..MaxRx /\ eof \in BOOLEAN /\ rst \in BOOLEAN /\ space \in BOOLEAN

OtherType ==
  /\ entry \in BOOLEAN /\ asked \in BOOLEAN
  /\ caller \in [Foreign -> {"idle", "shutdown", "shutdownQ", "force", "forceQ"}]
  /\ calls \in 0..MaxCalls

TypeOK ==
  ConnType /\ ChanType /\ LoopType /\ queue \in Seq(Functors) /\ PeerType /\ OtherType

\* HandleNewConnection has stored the connection and queued ConnectEstablished.
Init ==
  /\ state = "Connecting" /\ sock = TRUE
  /\ reading = FALSE /\ writing = FALSE /\ added = FALSE /\ mapped = "none"
  /\ out = 0 /\ pendingBytes = 0
  /\ pc = "top" /\ ret = "pending" /\ revents = {}
  /\ queue = <<Do("establish")>>
  /\ entry = TRUE
  /\ caller = [t \in Foreign |-> "idle"]
  /\ rx = 0 /\ eof = FALSE /\ rst = FALSE /\ space = TRUE
  /\ calls = 0 /\ closeCalls = 0 /\ asked = FALSE
  /\ harmed = FALSE /\ midSend = FALSE

-----------------------------------------------------------------------------
(* Channel and poller.  EpollPoller looks a channel up by its fd alone, so *)
(* a channel whose fd number belongs to somebody else acts on theirs.      *)

\* UpdateChannel of a channel with some interest: EPOLL_CTL_ADD if the fd is
\* not in the map, EPOLL_CTL_MOD otherwise.  A failing epoll_ctl is only logged.
UpdateChannel ==
  /\ mapped' = (IF mapped = "none" THEN "self" ELSE mapped)
  /\ added' = (added \/ mapped = "none")
  /\ harmed' = (harmed \/ mapped = "other")
  /\ UNCHANGED midSend

EnableReading == reading' = TRUE /\ UpdateChannel /\ UNCHANGED writing
EnableWriting == writing' = TRUE /\ UpdateChannel /\ UNCHANGED reading

\* DisableAll: without interest UpdateChannel removes what the map holds.  The
\* RemoveChannel that follows it when the channel is still marked as added
\* finds nothing and changes nothing.
DisableAll ==
  /\ reading' = FALSE /\ writing' = FALSE
  /\ mapped' = "none"
  /\ added' = (added /\ mapped = "none")
  /\ harmed' = (harmed \/ mapped = "other")
  /\ midSend' = (midSend \/ pc = "hwmcb")

\* Mutant: all interest goes with the write interest.
DisableBoth == DisableAll

\* The write interest is dropped while the read interest stays.
DisableWriting == writing' = FALSE /\ UpdateChannel /\ UNCHANGED reading

-----------------------------------------------------------------------------
(* The ways a connection ends.                                             *)

\* Mutant: m_socket.Close() is forgotten.
DisconnectKeepsSocket(told) ==
  /\ state' = "Disconnected"
  /\ pendingBytes' = 0
  /\ DisableAll
  /\ closeCalls' = closeCalls + (IF told THEN 1 ELSE 0)
  /\ UNCHANGED <<out, sock>>

\* What every closing path does; "told" says whether m_close_callback is called.
Disconnect(told) ==
  /\ state' = "Disconnected"
  /\ pendingBytes' = 0
  /\ DisableAll
  /\ sock' = FALSE
  /\ closeCalls' = closeCalls + (IF told THEN 1 ELSE 0)
  /\ UNCHANGED out

\* Mutant: HandleClose without its guard against closing twice.
HandleCloseUnguarded == Disconnect(TRUE)

HandleClose ==
  IF state = "Disconnected"
  THEN UNCHANGED <<connVars, chanVars>>
  ELSE Disconnect(TRUE)

ForceCloseInLoop ==
  IF state \in {"Connected", "Disconnecting"}
  THEN Disconnect(TRUE)
  ELSE UNCHANGED <<connVars, chanVars>>

\* Mutant: ConnectDestroyed without its test of m_state.
ConnectDestroyedUnguarded == Disconnect(FALSE)

ConnectDestroyed ==
  IF state \in {"Connected", "Disconnecting"}
  THEN Disconnect(FALSE)
  ELSE UNCHANGED <<connVars, chanVars>>

\* "was" is the state on entry: Disconnecting when Shutdown calls it at once.
ShutdownInLoop(was) ==
  \/ /\ out > 0
     /\ state' = was
     /\ IF writing THEN UNCHANGED chanVars ELSE EnableWriting
     /\ UNCHANGED <<sock, out, pendingBytes, closeCalls>>
  \/ out = 0 /\ was = "Disconnected" /\ UNCHANGED <<connVars, chanVars>>
  \/ out = 0 /\ was # "Disconnected" /\ Disconnect(TRUE)

-----------------------------------------------------------------------------
(* SendInLoop, in two parts around the high water mark callback.           *)

EnsureWriting == IF writing THEN UNCHANGED chanVars ELSE EnableWriting

\* Mutant: data is appended and nobody waits for the socket to take it.
EnsureNothing == UNCHANGED chanVars

FinishSend == EnsureWriting

\* "here" is the control state the call is made from.
SendInLoop(n, here) ==
  IF state = "Connected"
  THEN /\ out' = out + n
       /\ pendingBytes' = out + n
       /\ IF out < HighWater /\ out + n >= HighWater
          THEN pc' = "hwmcb" /\ ret' = here /\ UNCHANGED chanVars
          ELSE FinishSend /\ pc' = here /\ UNCHANGED ret
       /\ UNCHANGED <<state, sock, closeCalls>>
  ELSE /\ pc' = here
       /\ UNCHANGED <<connVars, chanVars, ret>>

-----------------------------------------------------------------------------
(* The user's code on the loop thread: in the callbacks of the connection, *)
(* and in other handlers and functors of the same loop.                    *)

UserCode == pc \in {"active", "pending"} \cup Callbacks

Call == calls < MaxCalls /\ calls' = calls + 1

LoopSend(n) ==
  /\ UserCode /\ Call /\ state = "Connected"
  /\ SendInLoop(n, pc)
  /\ UNCHANGED <<revents, queue, peerVars, entry, caller, asked>>

LoopShutdown ==
  /\ UserCode /\ Call /\ state = "Connected"
  /\ asked' = TRUE
  /\ ShutdownInLoop("Disconnecting")
  /\ UNCHANGED <<loopVars, queue, peerVars, entry, caller>>

LoopForceClose ==
  /\ UserCode /\ Call /\ state \in {"Connected", "Disconnecting"}
  /\ asked' = TRUE
  /\ ForceCloseInLoop
  /\ UNCHANGED <<loopVars, queue, peerVars, entry, caller>>

LoopCall == (\E n \in Lens : LoopSend(n)) \/ LoopShutdown \/ LoopForceClose

\* A callback returns.  After the message callback HandleEvent goes on to the
\* write event, after the high water mark callback SendInLoop goes on.
LeaveCallback ==
  /\ \/ /\ pc = "hwmcb"
        /\ FinishSend
        /\ pc' = ret
     \/ /\ pc \in Callbacks \ {"hwmcb"}
        /\ UNCHANGED chanVars
        /\ pc' = (IF pc = "msgcb" THEN "write" ELSE "pending")
  /\ UNCHANGED <<connVars, ret, revents, queue, peerVars, otherVars>>

-----------------------------------------------------------------------------
(* Foreign threads.                                                        *)

\* IsConnected is read and the functor is queued; the functor looks again.
ForeignSend(t, n) ==
  /\ caller[t] = "idle" /\ Call /\ state = "Connected"
  /\ queue' = Append(queue, Send(n))
  /\ UNCHANGED <<connVars, chanVars, loopVars, peerVars, entry, caller, asked>>

\* Shutdown and ForceClose: the test of m_state,
ForeignClose(t) ==
  /\ caller[t] = "idle" /\ Call
  /\ \/ state = "Connected" /\ caller' = [caller EXCEPT ![t] = "shutdown"]
     \/ state \in {"Connected", "Disconnecting"} /\ caller' = [caller EXCEPT ![t] = "force"]
  /\ asked' = TRUE
  /\ UNCHANGED <<connVars, chanVars, loopVars, queue, peerVars, entry>>

\* the assignment of m_state,
ForeignSetState(t) ==
  /\ caller[t] \in {"shutdown", "force"}
  /\ state' = "Disconnecting"
  /\ caller' = [caller EXCEPT ![t] = IF @ = "shutdown" THEN "shutdownQ" ELSE "forceQ"]
  /\ UNCHANGED <<sock, out, pendingBytes, closeCalls, chanVars, loopVars, queue, peerVars,
                 entry, calls, asked>>

\* and RunInLoop, which queues from a foreign thread.
ForeignQueue(t) ==
  /\ caller[t] \in {"shutdownQ", "forceQ"}
  /\ queue' = Append(queue, IF caller[t] = "shutdownQ" THEN Do("shutdown") ELSE Do("force"))
  /\ caller' = [caller EXCEPT ![t] = "idle"]
  /\ UNCHANGED <<connVars, chanVars, loopVars, peerVars, entry, calls, asked>>

\* TcpServer drops the connection and queues ConnectDestroyed: after the close
\* callback (HandleRemoveConnection), or when a graceful stop finds it no
\* longer connected (FinalizeGracefulStop).
ServerDestroys ==
  /\ entry
  /\ closeCalls > 0 \/ state # "Connected"
  /\ entry' = FALSE
  /\ asked' = TRUE
  /\ queue' = Append(queue, Do("destroy"))
  /\ UNCHANGED <<connVars, chanVars, loopVars, peerVars, caller, calls>>

\* The last reference is gone: the server's entry, the functors that hold one,
\* and the foreign threads that are inside a call.
Freed ==
  /\ ~entry
  /\ \A i \in 1..Len(queue) : queue[i].do \notin {"establish", "destroy"}
  /\ \A t \in Foreign : caller[t] = "idle"

\* ~TcpConnection destroys the channel, and a channel that still has interest
\* disables itself if the last reference is dropped on the loop thread; on any
\* other thread it leaves the poller as it is.
ChannelDestroyed ==
  /\ Freed /\ pc \notin Callbacks /\ (reading \/ writing)
  /\ \/ pc \in {"active", "pending"} /\ DisableAll
     \/ reading' = FALSE /\ writing' = FALSE /\ UNCHANGED <<added, mapped, harmed, midSend>>
  /\ UNCHANGED <<connVars, loopVars, queue, peerVars, otherVars>>

-----------------------------------------------------------------------------
(* The loop thread.                                                        *)

Ready ==
  IF mapped = "self" /\ sock
  THEN (IF rst THEN {"err", "hup"} ELSE {})
         \cup (IF reading /\ (rx > 0 \/ eof \/ rst) THEN {"in"} ELSE {})
         \cup (IF writing /\ (space \/ rst) THEN {"out"} ELSE {})
  ELSE {}

\* epoll_wait, and TransRevents; EPOLLERR may be missing beside EPOLLHUP.
Poll ==
  /\ pc = "top"
  /\ revents' \in {Ready, Ready \ (IF rst THEN {"err"} ELSE {})}
  /\ pc' = "active"
  /\ UNCHANGED <<connVars, chanVars, ret, queue, peerVars, otherVars>>

\* Channel::HandleEvent, the error branch: HandleError, then the close
\* callback of the channel on top of it.
HandleError ==
  /\ pc = "active" /\ "err" \in revents
  /\ HandleClose
  /\ pc' = "again"
  /\ UNCHANGED <<ret, revents, queue, peerVars, otherVars>>

\* The close callback of the channel: after an error, and on a hangup.
HandleHangup ==
  /\ \/ pc = "again"
     \/ pc = "active" /\ "err" \notin revents /\ "hup" \in revents
  /\ HandleClose
  /\ pc' = "pending"
  /\ UNCHANGED <<ret, revents, queue, peerVars, otherVars>>

\* No event of this channel, or only a write event.
SkipRead ==
  /\ pc = "active" /\ revents \subseteq {"out"}
  /\ pc' = "write"
  /\ UNCHANGED <<connVars, chanVars, ret, revents, queue, peerVars, otherVars>>

ReadEvent == pc = "active" /\ revents \cap {"err", "hup", "in"} = {"in"}

\* HandleRead: data arrived, the user gets it.
ReadMessage ==
  /\ ReadEvent /\ sock /\ ~rst /\ rx > 0
  /\ rx' = 0
  /\ pc' = "msgcb"
  /\ UNCHANGED <<connVars, chanVars, ret, revents, queue, eof, rst, space, otherVars>>

\* Mutant: end of file is taken for nothing to read.
ReadIgnoresEof ==
  /\ ReadEvent /\ (~sock \/ rst \/ (rx = 0 /\ eof))
  /\ IF rst \/ ~sock THEN HandleClose ELSE UNCHANGED <<connVars, chanVars>>
  /\ pc' = "write"
  /\ UNCHANGED <<ret, revents, queue, peerVars, otherVars>>

\* HandleRead: end of file, or an error (a reset, or the fd is closed by now).
ReadCloses ==
  /\ ReadEvent /\ (~sock \/ rst \/ (rx = 0 /\ eof))
  /\ HandleClose
  /\ pc' = "write"
  /\ UNCHANGED <<ret, revents, queue, peerVars, otherVars>>

\* HandleWrite is not called, or finds the connection not connected.
SkipWrite ==
  /\ pc = "write" /\ ("out" \notin revents \/ state # "Connected")
  /\ pc' = "pending"
  /\ UNCHANGED <<connVars, chanVars, ret, revents, queue, peerVars, otherVars>>

WriteEvent == pc = "write" /\ "out" \in revents /\ state = "Connected"

\* HandleWrite: the socket takes n units, "left" stay in the buffer and "bytes"
\* in m_pending_write_bytes.  Once the buffer is empty the write interest goes,
\* and m_state is looked at a second time.
Write(n, left, bytes) ==
  /\ WriteEvent /\ ~rst /\ space
  /\ n \in 1..out
  /\ out' = left
  /\ pendingBytes' = bytes
  /\ space' \in (IF n < out THEN {FALSE} ELSE BOOLEAN)
  /\ IF n = out THEN DisableWriting /\ pc' = "wrote"
                ELSE UNCHANGED chanVars /\ pc' = "pending"
  /\ UNCHANGED <<state, sock, closeCalls, ret, revents, queue, rx, eof, rst, otherVars>>

WriteSome(n) == Write(n, out - n, out - n)

\* HandleWrite: an error, or nothing to write, which WriteToFd reports as 0
\* bytes without an error.
WriteCloses ==
  /\ WriteEvent /\ (rst \/ out = 0)
  /\ HandleClose
  /\ pc' = "pending"
  /\ UNCHANGED <<ret, revents, queue, peerVars, otherVars>>

\* HandleWrite after the last unit: close, or call the write complete callback.
WriteComplete ==
  /\ pc = "wrote"
  /\ IF state = "Disconnecting"
     THEN HandleClose /\ pc' = "pending"
     ELSE UNCHANGED <<connVars, chanVars>> /\ pc' = "wccb"
  /\ UNCHANGED <<ret, revents, queue, peerVars, otherVars>>

RunFunctor(f) ==
  /\ pc = "pending" /\ queue # <<>> /\ Head(queue) = f
  /\ queue' = Tail(queue)
  /\ UNCHANGED <<revents, peerVars, otherVars>>

ConnectEstablished ==
  /\ RunFunctor(Do("establish"))
  /\ state' = "Connected"
  /\ EnableReading
  /\ pc' = "conncb"
  /\ UNCHANGED <<sock, out, pendingBytes, closeCalls, ret>>

RunSend(n) == RunFunctor(Send(n)) /\ SendInLoop(n, "pending")

RunClose ==
  /\ \/ RunFunctor(Do("shutdown")) /\ ShutdownInLoop(state)
     \/ RunFunctor(Do("force")) /\ ForceCloseInLoop
     \/ RunFunctor(Do("destroy")) /\ ConnectDestroyed
  /\ UNCHANGED <<pc, ret>>

NextRound ==
  /\ pc = "pending" /\ queue = <<>>
  /\ pc' = "top"
  /\ UNCHANGED <<connVars, chanVars, ret, revents, queue, peerVars, otherVars>>

LoopStep ==
  \/ Poll \/ HandleError \/ HandleHangup \/ SkipRead \/ ReadMessage \/ ReadCloses
  \/ SkipWrite \/ (\E n \in 1..out : WriteSome(n)) \/ WriteCloses \/ WriteComplete
  \/ ConnectEstablished \/ (\E n \in Lens : RunSend(n)) \/ RunClose \/ NextRound
  \/ LeaveCallback

-----------------------------------------------------------------------------
(* The peer and the kernel.                                                *)

PeerSends ==
  /\ rx < MaxRx /\ ~eof /\ ~rst
  /\ rx' = rx + 1
  /\ UNCHANGED <<connVars, chanVars, loopVars, queue, eof, rst, space, otherVars>>

PeerCloses ==
  /\ ~eof /\ ~rst
  /\ eof' = TRUE
  /\ UNCHANGED <<connVars, chanVars, loopVars, queue, rx, rst, space, otherVars>>

PeerResets ==
  /\ ~rst
  /\ rst' = TRUE
  /\ UNCHANGED <<connVars, chanVars, loopVars, queue, rx, eof, space, otherVars>>

PeerReads ==
  /\ ~space
  /\ space' = TRUE
  /\ UNCHANGED <<connVars, chanVars, loopVars, queue, rx, eof, rst, otherVars>>

\* The number of the closed fd goes to a new connection of the same loop, which
\* registers itself: by a functor, or by the handler of the acceptor when the
\* server has no sub loops.  If the map still has the channel of this connection
\* under the number, the registration becomes an EPOLL_CTL_MOD, which fails, or
\* leaves the events to the wrong channel.
FdReused ==
  /\ pc \in {"active", "pending"} /\ ~sock
  /\ \/ mapped = "none" /\ mapped' = "other" /\ UNCHANGED harmed
     \/ mapped = "self" /\ harmed' = TRUE /\ UNCHANGED mapped
  /\ UNCHANGED <<connVars, reading, writing, added, midSend, loopVars, queue, peerVars, otherVars>>

Peer == PeerSends \/ PeerCloses \/ PeerResets \/ PeerReads \/ FdReused

Next ==
  \/ LoopStep \/ LoopCall
  \/ \E t \in Foreign : \/ \E n \in Lens : ForeignSend(t, n)
                        \/ ForeignClose(t) \/ ForeignSetState(t) \/ ForeignQueue(t)
  \/ ServerDestroys \/ ChannelDestroyed
  \/ Peer

Spec == Init /\ [][Next]_vars

\* The loop thread is scheduled, a foreign thread finishes its call, and the
\* peer goes on reading.
FairSpec ==
  /\ Spec
  /\ WF_vars(LoopStep)
  /\ \A t \in Foreign : WF_vars(ForeignSetState(t) \/ ForeignQueue(t))
  /\ WF_vars(PeerReads)

-----------------------------------------------------------------------------
(* Properties.                                                             *)

\* A connection that calls itself connected is: its socket is open, its
\* channel is the one the poller knows, it waits for data, and nobody has been
\* told that it closed, whatever threads and callbacks have done to it.
ConnectedIsLive ==
  state = "Connected" =>
    sock /\ reading /\ added /\ mapped = "self" /\ closeCalls = 0

\* Data in the output buffer of a connected connection never waits for an
\* event that nobody asked for: the channel is watched for writing, except
\* while SendInLoop is still in the high water mark callback.
OutputIsWatched == state = "Connected" /\ out > 0 /\ pc # "hwmcb" => writing

\* No message reaches the user after the close callback, even if the channel
\* was already in the list of active channels when the connection closed.
NoMessageAfterClose == [][pc = "active" /\ pc' = "msgcb" => closeCalls = 0]_vars

\* With all calls on the loop thread the close callback is called at most
\* once, though an error event calls HandleClose twice.
ClosedOnce == closeCalls <= 1

\* With all calls on the loop thread a closed connection, up to and including
\* its destruction, costs no later owner of its fd number the registration in
\* the poller, unless it was closed inside its own high water mark callback:
\* of all that runs late, only the rest of SendInLoop does such harm.
LeavesOthersAlone == harmed => midSend

\* The end of the peer is noticed: a connection does not stay open for good.
PeerEndNoticed == (state = "Connected" /\ (eof \/ rst)) ~> state = "Disconnected"

\* What is in the output buffer leaves it as long as the peer reads, unless
\* the connection stops being connected.
OutputDrains == (state = "Connected" /\ out > 0) ~> (out = 0 \/ state # "Connected")

\* Shutdown: "优雅关闭：等数据发完再关闭" (src/include/tcpconnection.h:56), it waits
\* for the data to be sent and then closes.
ShutdownCompletes == state = "Disconnecting" ~> state = "Disconnected"

\* HandleClose: "避免重复关闭" (src/src/tcpconnection.cpp:188), and "线程安全"
\* (src/include/tcpconnection.h:3): no connection is closed twice, whichever
\* threads call it.
NeverClosedTwice == closeCalls <= 1

\* HandleClose: "禁用所有事件，从EventLoop移除" (src/src/tcpconnection.cpp:198), a
\* closed connection is out of the loop once its handler is done.
ClosedIsUnregistered == state = "Disconnected" /\ pc = "top" => mapped # "self"

\* ConnectEstablished: "连接建立后，默认关注读事件，等待对方发送数据"
\* (src/src/tcpconnection.cpp:71), an established connection is watched for data,
\* also if it got the fd number of one that was closed before.
NextOwnerIsWatched == ~harmed

\* HandleWrite: "如果出错，只有不是正常阻塞才关闭" (src/src/tcpconnection.cpp:165), it
\* closes on errors only: a connection that nobody asked to close and whose
\* peer is well stays open.
ClosedForAReason == state = "Disconnected" => asked \/ eof \/ rst

\* "线程安全" (src/include/tcpconnection.h:3), "任意线程都可以调用" (:53): no functor
\* that captured the bare this outlives the connection.
NoDanglingFunctor == Freed => queue = <<>>
=============================================================================
