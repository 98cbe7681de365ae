------------------------ MODULE TcpConnectionProofs ------------------------
(***************************************************************************)
(* Proofs of the safety properties of TcpConnection for any set of foreign *)
(* threads, any message lengths and any bounds; the two properties that    *)
(* only hold with all calls on the loop thread are proved from             *)
(* Foreign = {}.                                                           *)
(***************************************************************************)
EXTENDS TcpConnection, TLAPS

USE DEF connVars, chanVars, loopVars, peerVars, otherVars, vars

-----------------------------------------------------------------------------
(* The inductive invariant.                                                *)

\* Until ConnectEstablished runs nothing has happened to the connection: it is
\* not in the poller, no event of it is dispatched, and no call passed the
\* test of m_state.
FreshInv ==
  state = "Connecting" =>
    /\ sock /\ mapped = "none" /\ closeCalls = 0 /\ out = 0
    /\ revents = {} /\ pc \in {"top", "active", "write", "pending"}
    /\ \A t \in Foreign : caller[t] = "idle"
    /\ queue # <<>>

\* ConnectEstablished is queued once, before everything else.
EstablishFirst ==
  \A i \in 1..Len(queue) : queue[i] = Do("establish") <=> i = 1 /\ state = "Connecting"

\* The close callback is never called while the socket is open.
OpenIsUntold == sock => closeCalls = 0

\* The high water mark callback runs above the mark only, so that a Send from
\* inside it never enters it a second time.
AboveTheMark == pc = "hwmcb" => out >= HighWater

\* A connection that is or becomes connected is still referred to: by the entry
\* of the server, or by the functor that will close it.
HeldInv ==
  state \in {"Connecting", "Connected"} =>
    entry \/ \E i \in 1..Len(queue) : queue[i].do = "destroy"

IInv ==
  /\ TypeOK /\ FreshInv /\ EstablishFirst /\ HeldInv /\ ConnectedIsLive /\ OpenIsUntold
  /\ AboveTheMark /\ OutputIsWatched

\* What is added when no other thread calls the connection: m_state never
\* leaves Disconnected, only then may the fd number belong to somebody else,
\* and no functor of a foreign call is queued.  A closed channel has neither
\* interest nor an entry in the map, unless it was closed inside SendInLoop.
AloneInv ==
  /\ state # "Disconnected" => sock /\ closeCalls = 0
  /\ closeCalls <= 1
  /\ mapped = "other" => state = "Disconnected" /\ pc # "hwmcb"
  /\ state = "Disconnected" /\ ~midSend =>
       ~reading /\ ~writing /\ mapped # "self" /\ pc # "hwmcb"
  /\ harmed => midSend
  /\ \A i \in 1..Len(queue) : queue[i].do \in {"establish", "destroy"}

-----------------------------------------------------------------------------
(* Type correctness.                                                       *)

\* DisableAll and UpdateChannel keep the channel's fields in their types.
LEMMA ChannelType ==
  ASSUME ChanType, EnableReading \/ EnsureWriting \/ DisableWriting \/ DisableAll
  PROVE  ChanType'
  BY DEF ChanType, EnableReading, EnsureWriting, EnableWriting, DisableWriting, DisableAll,
         UpdateChannel

\* Whatever closes the connection keeps its members in their types.
LEMMA DisconnectType ==
  ASSUME ConnType, ChanType, NEW told \in BOOLEAN, Disconnect(told)
  PROVE  ConnType' /\ ChanType'
<1>1. ChanType'
  BY ChannelType DEF Disconnect
<1>2. ConnType'
  <2>1. closeCalls' \in Nat
    <3>1. CASE told
      BY <3>1 DEF Disconnect, ConnType
    <3>2. CASE ~told
      BY <3>2 DEF Disconnect, ConnType
    <3> QED BY <3>1, <3>2
  <2>2. state' \in States /\ sock' \in BOOLEAN /\ out' \in Nat /\ pendingBytes' \in Nat
    BY DEF Disconnect, ConnType, States
  <2> QED BY <2>1, <2>2 DEF ConnType
<1> QED BY <1>1, <1>2

\* The functions that may close the connection, on whichever path.
Closing ==
  \/ HandleClose \/ ForceCloseInLoop \/ ConnectDestroyed
  \/ RunFunctor(Do("shutdown")) /\ ShutdownInLoop(state)
  \/ state = "Connected" /\ ShutdownInLoop("Disconnecting")

\* The functions that may close the connection keep it well typed.
LEMMA ClosingType ==
  ASSUME ConnType, ChanType, Closing
  PROVE  ConnType' /\ ChanType'
<1>1. CASE \E told \in BOOLEAN : Disconnect(told)
  BY <1>1, DisconnectType
<1>2. CASE UNCHANGED <<connVars, chanVars>>
  BY <1>2 DEF ConnType, ChanType
<1>3. CASE EnsureWriting /\ state' \in States /\ UNCHANGED <<sock, out, pendingBytes, closeCalls>>
  BY <1>3, ChannelType DEF ConnType
<1> QED
  BY <1>1, <1>2, <1>3
  DEF Closing, HandleClose, ForceCloseInLoop, ConnectDestroyed, ShutdownInLoop,
      EnsureWriting, States, ConnType

\* Every functor that is queued is one of Functors.
LEMMA FunctorsType ==
  /\ \A n \in Lens : Send(n) \in Functors
  /\ Do("shutdown") \in Functors /\ Do("force") \in Functors
  /\ Do("destroy") \in Functors /\ Do("establish") \in Functors
  BY DEF Functors

\* SendInLoop keeps the types, and enters the high water mark callback from
\* outside of it only.
LEMMA SendType ==
  ASSUME TypeOK, AboveTheMark, NEW n \in Lens, NEW here, here = pc, SendInLoop(n, here), UserCode
  PROVE  ConnType' /\ ChanType' /\ pc' \in {here, "hwmcb"}
         /\ ret' \in {"active", "pending", "conncb", "msgcb", "wccb"}
<1> USE ConnectionAssumption DEF TypeOK
<1>1. CASE state # "Connected"
  BY <1>1 DEF SendInLoop, ConnType, ChanType, LoopType
<1>2. CASE state = "Connected" /\ out < HighWater /\ out + n >= HighWater
  <2>1. here # "hwmcb"
    BY <1>2 DEF AboveTheMark, ConnType
  <2>2. UNCHANGED chanVars /\ out' = out + n /\ pendingBytes' = out + n
        /\ UNCHANGED <<state, sock, closeCalls>> /\ pc' = "hwmcb" /\ ret' = here
    BY <1>2 DEF SendInLoop
  <2>3. ConnType' /\ ChanType'
    BY <2>2 DEF ConnType, ChanType
  <2> QED BY <2>1, <2>2, <2>3 DEF UserCode, Callbacks
<1>3. CASE state = "Connected" /\ ~(out < HighWater /\ out + n >= HighWater)
  <2>2. EnsureWriting /\ out' = out + n /\ pendingBytes' = out + n
        /\ UNCHANGED <<state, sock, closeCalls>> /\ pc' = here /\ ret' = ret
    BY <1>3 DEF SendInLoop, FinishSend
  <2>3. ConnType' /\ ChanType'
    BY <2>2, ChannelType DEF ConnType
  <2> QED BY <2>2, <2>3 DEF LoopType
<1> QED BY <1>1, <1>2, <1>3

\* Every step keeps the variables in their types.
LEMMA TypeStep == TypeOK /\ AboveTheMark /\ [Next]_vars => TypeOK'
<1> SUFFICES ASSUME TypeOK, AboveTheMark, [Next]_vars PROVE TypeOK'
  OBVIOUS
<1> USE ConnectionAssumption DEF TypeOK
<1>a. ASSUME UNCHANGED <<connVars, chanVars>> PROVE ConnType' /\ ChanType'
  BY <1>a DEF ConnType, ChanType
<1>b. ASSUME UNCHANGED loopVars PROVE LoopType'
  BY <1>b DEF LoopType
<1>c. ASSUME UNCHANGED peerVars PROVE PeerType'
  BY <1>c DEF PeerType
<1>d. ASSUME UNCHANGED otherVars PROVE OtherType'
  BY <1>d DEF OtherType
<1>e. ASSUME UNCHANGED queue PROVE queue' \in Seq(Functors)
  BY <1>e
<1>f. ASSUME NEW f, RunFunctor(f) PROVE queue' \in Seq(Functors) /\ PeerType' /\ OtherType'
  BY <1>c, <1>d, <1>f DEF RunFunctor
<1>1. ASSUME NEW n \in Lens, LoopSend(n) PROVE TypeOK'
  <2>1. ConnType' /\ ChanType' /\ LoopType'
    <3>1. SendInLoop(n, pc) /\ UserCode /\ UNCHANGED revents
      BY <1>1 DEF LoopSend
    <3>2. ConnType' /\ ChanType' /\ pc' \in {pc, "hwmcb"}
          /\ ret' \in {"active", "pending", "conncb", "msgcb", "wccb"}
      BY <3>1, SendType
    <3> QED BY <3>1, <3>2 DEF LoopType, Callbacks
  <2>2. OtherType'
    BY <1>1 DEF LoopSend, Call, OtherType
  <2> QED BY <1>1, <1>c, <2>1, <2>2 DEF LoopSend
<1>2. CASE LoopShutdown \/ LoopForceClose
  <2>1. ConnType' /\ ChanType'
    BY <1>2, ClosingType DEF LoopShutdown, LoopForceClose, Closing
  <2>2. OtherType'
    <3>1. calls' \in 0..MaxCalls
      BY <1>2 DEF LoopShutdown, LoopForceClose, Call, OtherType
    <3>2. asked' = TRUE /\ UNCHANGED <<entry, caller>>
      BY <1>2 DEF LoopShutdown, LoopForceClose
    <3> QED BY <3>1, <3>2 DEF OtherType
  <2> QED BY <1>2, <1>b, <1>c, <2>1, <2>2 DEF LoopShutdown, LoopForceClose
<1>3. CASE LeaveCallback
  <2>1. ChanType' /\ ConnType'
    BY <1>3, ChannelType DEF LeaveCallback, FinishSend, ConnType, ChanType
  <2>2. LoopType'
    BY <1>3 DEF LeaveCallback, LoopType, Callbacks
  <2> QED BY <1>3, <1>c, <1>d, <2>1, <2>2 DEF LeaveCallback
<1>4. ASSUME NEW t \in Foreign, NEW n \in Lens, ForeignSend(t, n) PROVE TypeOK'
  <2>1. OtherType' /\ queue' \in Seq(Functors)
    BY <1>4, FunctorsType DEF ForeignSend, Call, OtherType
  <2> QED BY <1>4, <1>a, <1>b, <1>c, <2>1 DEF ForeignSend
<1>5. ASSUME NEW t \in Foreign, ForeignClose(t) PROVE TypeOK'
  <2>1. OtherType'
    BY <1>5 DEF ForeignClose, Call, OtherType
  <2> QED BY <1>5, <1>a, <1>b, <1>c, <2>1 DEF ForeignClose
<1>6. ASSUME NEW t \in Foreign, ForeignSetState(t) PROVE TypeOK'
  <2>1. OtherType'
    BY <1>6 DEF ForeignSetState, OtherType
  <2>2. ConnType' /\ ChanType'
    BY <1>6 DEF ForeignSetState, ConnType, ChanType, States
  <2> QED BY <1>6, <1>b, <1>c, <2>1, <2>2 DEF ForeignSetState
<1>7. ASSUME NEW t \in Foreign, ForeignQueue(t) PROVE TypeOK'
  <2>1. OtherType'
    BY <1>7 DEF ForeignQueue, OtherType
  <2>2. queue' \in Seq(Functors)
    <3>1. PICK f \in Functors : queue' = Append(queue, f)
      BY <1>7, FunctorsType DEF ForeignQueue
    <3> QED BY <3>1
  <2> QED BY <1>7, <1>a, <1>b, <1>c, <2>1, <2>2 DEF ForeignQueue
<1>8. CASE ServerDestroys
  <2>1. OtherType'
    <3>1. entry' = FALSE /\ asked' = TRUE /\ UNCHANGED <<caller, calls>>
      BY <1>8 DEF ServerDestroys
    <3> QED BY <3>1 DEF OtherType
  <2>2. queue' \in Seq(Functors)
    BY <1>8, FunctorsType DEF ServerDestroys
  <2> QED BY <1>8, <1>a, <1>b, <1>c, <2>1, <2>2 DEF ServerDestroys
<1>9. CASE Poll
  <2>1. LoopType'
    BY <1>9 DEF Poll, Ready, LoopType
  <2> QED BY <1>9, <1>a, <1>c, <1>d, <2>1 DEF Poll
<1>10. CASE HandleError \/ HandleHangup \/ ReadCloses \/ WriteCloses
  <2>1. ConnType' /\ ChanType'
    BY <1>10, ClosingType DEF HandleError, HandleHangup, ReadCloses, WriteCloses, Closing
  <2>2. LoopType'
    BY <1>10 DEF HandleError, HandleHangup, ReadCloses, WriteCloses, LoopType
  <2> QED BY <1>10, <1>c, <1>d, <2>1, <2>2 DEF HandleError, HandleHangup, ReadCloses, WriteCloses
<1>11. CASE SkipRead \/ SkipWrite \/ NextRound
  <2>1. LoopType'
    BY <1>11 DEF SkipRead, SkipWrite, NextRound, LoopType
  <2> QED BY <1>11, <1>a, <1>c, <1>d, <2>1 DEF SkipRead, SkipWrite, NextRound
<1>12. CASE ReadMessage
  <2>1. LoopType' /\ PeerType'
    BY <1>12 DEF ReadMessage, LoopType, PeerType, Callbacks
  <2> QED BY <1>12, <1>a, <1>d, <2>1 DEF ReadMessage
<1>13. ASSUME NEW n \in 1..out, WriteSome(n) PROVE TypeOK'
  <2>1. ConnType'
    BY <1>13 DEF WriteSome, Write, ConnType
  <2>2. ChanType'
    <3>1. DisableWriting \/ UNCHANGED chanVars
      BY <1>13 DEF WriteSome, Write
    <3> QED BY <3>1, ChannelType DEF ChanType
  <2>3. LoopType'
    BY <1>13 DEF WriteSome, Write, LoopType
  <2>4. PeerType'
    BY <1>13 DEF WriteSome, Write, PeerType
  <2> QED BY <1>13, <1>d, <2>1, <2>2, <2>3, <2>4 DEF WriteSome, Write
<1>14. CASE WriteComplete
  <2>1. ConnType' /\ ChanType'
    BY <1>14, <1>a, ClosingType DEF WriteComplete, Closing
  <2>2. LoopType'
    BY <1>14 DEF WriteComplete, LoopType, Callbacks
  <2> QED BY <1>14, <1>c, <1>d, <2>1, <2>2 DEF WriteComplete
<1>15. CASE ConnectEstablished
  <2>1. ConnType' /\ ChanType'
    BY <1>15, ChannelType DEF ConnectEstablished, ConnType, States
  <2>2. LoopType'
    BY <1>15 DEF ConnectEstablished, RunFunctor, LoopType, Callbacks
  <2> QED BY <1>15, <1>f, <2>1, <2>2 DEF ConnectEstablished
<1>16. ASSUME NEW n \in Lens, RunSend(n) PROVE TypeOK'
  <2>1. pc = "pending" /\ UserCode /\ UNCHANGED revents
    BY <1>16 DEF RunSend, RunFunctor, UserCode
  <2>2. ConnType' /\ ChanType' /\ LoopType'
    <3>1. SendInLoop(n, "pending")
      BY <1>16 DEF RunSend
    <3>2. ConnType' /\ ChanType' /\ pc' \in {pc, "hwmcb"}
          /\ ret' \in {"active", "pending", "conncb", "msgcb", "wccb"}
      BY <2>1, <3>1, SendType
    <3> QED BY <2>1, <3>2 DEF LoopType, Callbacks
  <2> QED BY <1>16, <1>f, <2>2 DEF RunSend
<1>17. CASE RunClose
  <2>1. ConnType' /\ ChanType'
    BY <1>17, ClosingType DEF RunClose, Closing
  <2>2. \E f : RunFunctor(f)
    BY <1>17 DEF RunClose
  <2>3. LoopType'
    BY <1>17, <2>2, <1>b DEF RunClose, RunFunctor
  <2> QED BY <1>f, <2>1, <2>2, <2>3
<1>18. CASE PeerSends \/ PeerCloses \/ PeerResets \/ PeerReads
  <2>1. PeerType'
    <3>1. rx' \in 0..MaxRx
      BY <1>18 DEF PeerSends, PeerCloses, PeerResets, PeerReads, PeerType
    <3>2. eof' \in {eof, TRUE} /\ rst' \in {rst, TRUE} /\ space' \in {space, TRUE}
      BY <1>18 DEF PeerSends, PeerCloses, PeerResets, PeerReads
    <3> QED BY <3>1, <3>2 DEF PeerType
  <2> QED BY <1>18, <1>a, <1>b, <1>d, <2>1 DEF PeerSends, PeerCloses, PeerResets, PeerReads
<1>19. CASE FdReused
  <2>1. ConnType' /\ ChanType'
    BY <1>19 DEF FdReused, ConnType, ChanType
  <2> QED BY <1>19, <1>b, <1>c, <1>d, <2>1 DEF FdReused
<1>20. CASE UNCHANGED vars
  BY <1>20, <1>a, <1>b, <1>c, <1>d
<1>21. CASE ChannelDestroyed
  <2>1. ChanType'
    <3>1. DisableAll \/ (reading' = FALSE /\ writing' = FALSE
                         /\ UNCHANGED <<added, mapped, harmed, midSend>>)
      BY <1>21 DEF ChannelDestroyed
    <3> QED BY <3>1, ChannelType DEF ChanType
  <2>2. ConnType'
    BY <1>21 DEF ChannelDestroyed, ConnType
  <2> QED BY <1>21, <1>b, <1>c, <1>d, <2>1, <2>2 DEF ChannelDestroyed
<1> QED
  BY <1>1, <1>2, <1>3, <1>4, <1>5, <1>6, <1>7, <1>8, <1>9, <1>10, <1>11, <1>12,
     <1>13, <1>14, <1>15, <1>16, <1>17, <1>18, <1>19, <1>20, <1>21
  DEF Next, LoopStep, LoopCall, Peer

-----------------------------------------------------------------------------
(* Before the connection is established.                                   *)

\* A connecting connection is left alone until ConnectEstablished runs: no
\* event, no call and no other functor reaches it.
LEMMA FreshSteps ==
  ASSUME TypeOK, FreshInv, EstablishFirst, [Next]_vars, state = "Connecting"
  PROVE  \/ ConnectEstablished
         \/ /\ UNCHANGED <<connVars, chanVars, caller>>
            /\ revents' = {} /\ pc' \in {"top", "active", "write", "pending"}
            /\ queue' \in {queue, Append(queue, Do("destroy"))}
<1> DEFINE Rests == /\ UNCHANGED <<connVars, chanVars, caller>>
                    /\ revents' = {} /\ pc' \in {"top", "active", "write", "pending"}
                    /\ queue' \in {queue, Append(queue, Do("destroy"))}
<1>a. /\ sock /\ mapped = "none" /\ revents = {} /\ pc \in {"top", "active", "write", "pending"}
      /\ \A t \in Foreign : caller[t] = "idle"
  BY DEF FreshInv
<1>b. Head(queue) = Do("establish")
  <2>1. queue \in Seq(Functors) /\ queue # <<>>
    BY DEF FreshInv, TypeOK
  <2>2. 1 \in 1..Len(queue) /\ Head(queue) = queue[1]
    BY <2>1
  <2> QED BY <2>2 DEF EstablishFirst
<1>1. ~LoopCall
  BY DEF LoopCall, LoopSend, LoopShutdown, LoopForceClose
<1>2. \A t \in Foreign : /\ \A n \in Lens : ~ForeignSend(t, n)
                         /\ ~ForeignClose(t) /\ ~ForeignSetState(t) /\ ~ForeignQueue(t)
  BY <1>a DEF ForeignSend, ForeignClose, ForeignSetState, ForeignQueue
<1>3. ~HandleError /\ ~HandleHangup /\ ~ReadMessage /\ ~ReadCloses /\ ~LeaveCallback
  BY <1>a DEF HandleError, HandleHangup, ReadMessage, ReadCloses, ReadEvent, LeaveCallback,
              Callbacks
<1>4. ~WriteCloses /\ ~WriteComplete /\ \A n \in 1..out : ~WriteSome(n)
  BY <1>a DEF WriteCloses, WriteComplete, WriteSome, Write, WriteEvent
<1>5. ~RunClose /\ \A n \in Lens : ~RunSend(n)
  BY <1>b DEF RunClose, RunSend, RunFunctor, Do, Send
<1>6. ~FdReused /\ ~ChannelDestroyed
  <2>1. queue \in Seq(Functors) /\ queue # <<>>
    BY DEF FreshInv, TypeOK
  <2>2. 1 \in 1..Len(queue) /\ queue[1].do = "establish"
    BY <1>b, <2>1 DEF Do
  <2>3. ~Freed
    BY <2>2 DEF Freed
  <2> QED BY <1>a, <2>3 DEF FdReused, ChannelDestroyed
<1>7. ASSUME Poll PROVE Rests
  <2>1. Ready = {}
    BY <1>a DEF Ready
  <2> QED BY <1>7, <2>1 DEF Poll
<1>8. ASSUME SkipRead \/ SkipWrite \/ NextRound PROVE Rests
  BY <1>8, <1>a DEF SkipRead, SkipWrite, NextRound
<1>9. ASSUME ServerDestroys PROVE Rests
  BY <1>9, <1>a DEF ServerDestroys
<1>10. ASSUME PeerSends \/ PeerCloses \/ PeerResets \/ PeerReads \/ UNCHANGED vars PROVE Rests
  BY <1>10, <1>a DEF PeerSends, PeerCloses, PeerResets, PeerReads
<1> QED
  BY <1>1, <1>2, <1>3, <1>4, <1>5, <1>6, <1>7, <1>8, <1>9, <1>10
  DEF Next, LoopStep, Peer

-----------------------------------------------------------------------------
(* What a step may do to the connection and its channel.                   *)

\* The connection is closed, with or without the close callback.
Closes == state # "Disconnected" /\ \E told \in BOOLEAN : Disconnect(told)

\* SendInLoop appends, and asks for writability or goes to the high water mark.
Buffers ==
  /\ state = "Connected"
  /\ \E n \in Lens : out' = out + n
  /\ \/ UNCHANGED chanVars /\ pc' = "hwmcb" /\ out' >= HighWater
     \/ EnsureWriting /\ pc' = pc
  /\ UNCHANGED <<state, sock, closeCalls>>

\* The rest of SendInLoop after the high water mark callback.
Resumes == pc = "hwmcb" /\ EnsureWriting /\ pc' = ret /\ UNCHANGED connVars

\* ShutdownInLoop leaves the closing to HandleWrite.
Lingers ==
  /\ out > 0
  /\ EnsureWriting
  /\ \/ RunFunctor(Do("shutdown")) /\ UNCHANGED state
     \/ state = "Connected" /\ state' = "Disconnecting"
  /\ UNCHANGED <<sock, out, closeCalls>>

\* Every function that may close the connection closes it, lingers or does nothing.
LEMMA ClosingSteps ==
  ASSUME ConnType, Closing PROVE Closes \/ Lingers \/ UNCHANGED <<connVars, chanVars>>
<1>1. CASE HandleClose \/ ForceCloseInLoop \/ ConnectDestroyed
  <2>1. \/ state # "Disconnected" /\ (Disconnect(TRUE) \/ Disconnect(FALSE))
        \/ UNCHANGED <<connVars, chanVars>>
    BY <1>1 DEF HandleClose, ForceCloseInLoop, ConnectDestroyed
  <2> QED BY <2>1 DEF Closes
<1>2. ASSUME NEW was, ShutdownInLoop(was),
             \/ RunFunctor(Do("shutdown")) /\ was = state
             \/ was = "Disconnecting" /\ state = "Connected"
      PROVE  Closes \/ Lingers \/ UNCHANGED <<connVars, chanVars>>
  <2>1. CASE /\ out > 0 /\ state' = was
             /\ (IF writing THEN UNCHANGED chanVars ELSE EnableWriting)
             /\ UNCHANGED <<sock, out, pendingBytes, closeCalls>>
    BY <1>2, <2>1 DEF EnsureWriting, Lingers
  <2>2. CASE UNCHANGED <<connVars, chanVars>>
    BY <2>2
  <2>3. CASE was # "Disconnected" /\ Disconnect(TRUE)
    BY <1>2, <2>3 DEF Closes
  <2> QED BY <1>2, <2>1, <2>2, <2>3 DEF ShutdownInLoop
<1> QED BY <1>1, <1>2 DEF Closing

\* What SendInLoop does, from whichever function of the loop thread.
LEMMA SendSteps ==
  ASSUME ConnType, NEW n \in Lens, SendInLoop(n, pc)
  PROVE  Buffers \/ UNCHANGED <<connVars, chanVars, pc>>
<1> USE ConnectionAssumption
<1>1. CASE state = "Connected" /\ out < HighWater /\ out + n >= HighWater
  BY <1>1 DEF SendInLoop, Buffers, ConnType
<1>2. CASE state = "Connected" /\ ~(out < HighWater /\ out + n >= HighWater)
  BY <1>2 DEF SendInLoop, Buffers, FinishSend
<1>3. CASE state # "Connected"
  BY <1>3 DEF SendInLoop
<1> QED BY <1>1, <1>2, <1>3

\* All that the steps of all threads and of the peer may do to a connection.
LEMMA ConnectionSteps ==
  ASSUME TypeOK, [Next]_vars
  PROVE  \/ Closes \/ Lingers \/ Buffers \/ Resumes
         \/ ConnectEstablished
         \/ \E n \in 1..out : WriteSome(n)
         \/ \E t \in Foreign : ForeignSetState(t)
         \/ FdReused \/ ChannelDestroyed
         \/ UNCHANGED <<connVars, chanVars>>
<1>a. ConnType
  BY DEF TypeOK
<1>1. CASE Closing
  BY <1>a, <1>1, ClosingSteps
<1>2. ASSUME NEW n \in Lens, LoopSend(n) \/ RunSend(n)
      PROVE  Buffers \/ UNCHANGED <<connVars, chanVars>>
  <2>1. SendInLoop(n, pc)
    BY <1>2 DEF LoopSend, RunSend, RunFunctor
  <2> QED BY <1>a, <2>1, SendSteps
<1>3. ASSUME LoopShutdown \/ LoopForceClose \/ HandleError \/ HandleHangup \/ ReadCloses
               \/ WriteCloses \/ RunClose
      PROVE  Closing
  BY <1>3 DEF LoopShutdown, LoopForceClose, HandleError, HandleHangup, ReadCloses, WriteCloses,
              RunClose, Closing
<1>4. ASSUME WriteComplete PROVE Closing \/ UNCHANGED <<connVars, chanVars>>
  BY <1>4 DEF WriteComplete, Closing
<1>5. ASSUME LeaveCallback PROVE Resumes \/ UNCHANGED <<connVars, chanVars>>
  BY <1>5 DEF LeaveCallback, Resumes, FinishSend
<1>6. ASSUME Poll \/ SkipRead \/ ReadMessage \/ SkipWrite \/ NextRound
      PROVE  UNCHANGED <<connVars, chanVars>>
  BY <1>6 DEF Poll, SkipRead, ReadMessage, SkipWrite, NextRound
<1>7. ASSUME NEW t \in Foreign, \/ \E n \in Lens : ForeignSend(t, n)
                                \/ ForeignClose(t) \/ ForeignQueue(t)
      PROVE  UNCHANGED <<connVars, chanVars>>
  BY <1>7 DEF ForeignSend, ForeignClose, ForeignQueue
<1>8. ASSUME ServerDestroys \/ PeerSends \/ PeerCloses \/ PeerResets \/ PeerReads
               \/ UNCHANGED vars
      PROVE  UNCHANGED <<connVars, chanVars>>
  BY <1>8 DEF ServerDestroys, PeerSends, PeerCloses, PeerResets, PeerReads
<1> QED
  BY <1>1, <1>2, <1>3, <1>4, <1>5, <1>6, <1>7, <1>8 DEF Next, LoopStep, LoopCall, Peer

-----------------------------------------------------------------------------
(* The parts of the invariant.                                             *)

\* Nobody but HandleNewConnection makes a connection that is connecting.
LEMMA NeverConnectingAgain ==
  ASSUME TypeOK, [Next]_vars PROVE state' = "Connecting" => state = "Connecting"
<1>1. CASE Closes \/ ConnectEstablished \/ \E t \in Foreign : ForeignSetState(t)
  BY <1>1 DEF Closes, Disconnect, ConnectEstablished, ForeignSetState
<1>2. CASE \/ Lingers \/ Buffers \/ Resumes \/ FdReused \/ ChannelDestroyed
           \/ UNCHANGED <<connVars, chanVars>>
  BY <1>2 DEF Lingers, Buffers, Resumes, FdReused, ChannelDestroyed
<1>3. CASE \E n \in 1..out : WriteSome(n)
  BY <1>3 DEF WriteSome, Write
<1> QED BY <1>1, <1>2, <1>3, ConnectionSteps

\* A connecting connection stays as HandleNewConnection left it.
LEMMA FreshStep == TypeOK /\ FreshInv /\ EstablishFirst /\ [Next]_vars => FreshInv'
<1> SUFFICES ASSUME TypeOK, FreshInv, EstablishFirst, [Next]_vars, state' = "Connecting"
             PROVE  FreshInv'
  BY DEF FreshInv
<1>1. state = "Connecting"
  BY NeverConnectingAgain
<1>2. ~ConnectEstablished
  BY DEF ConnectEstablished
<1>3. /\ UNCHANGED <<connVars, chanVars, caller>>
      /\ revents' = {} /\ pc' \in {"top", "active", "write", "pending"}
      /\ queue' \in {queue, Append(queue, Do("destroy"))}
  BY <1>1, <1>2, FreshSteps
<1>4. queue' # <<>>
  BY <1>1, <1>3 DEF FreshInv, TypeOK
<1> QED BY <1>1, <1>3, <1>4 DEF FreshInv

\* A functor that is queued goes to the back, and one that is run leaves the front.
LEMMA QueueSteps ==
  ASSUME [Next]_vars
  PROVE  \/ UNCHANGED queue
         \/ \E n \in Lens : queue' = Append(queue, Send(n)) /\ Foreign # {}
         \/ \E op \in {"shutdown", "force"} : queue' = Append(queue, Do(op)) /\ Foreign # {}
         \/ queue' = Append(queue, Do("destroy"))
         \/ queue # <<>> /\ queue' = Tail(queue)
<1>1. ASSUME NEW f, RunFunctor(f) PROVE queue # <<>> /\ queue' = Tail(queue)
  BY <1>1 DEF RunFunctor
<1>2. ASSUME ConnectEstablished \/ RunClose \/ \E n \in Lens : RunSend(n)
      PROVE  \E f : RunFunctor(f)
  BY <1>2 DEF ConnectEstablished, RunClose, RunSend
<1>3. ASSUME NEW t \in Foreign, NEW n \in Lens, ForeignSend(t, n)
      PROVE  queue' = Append(queue, Send(n)) /\ Foreign # {}
  BY <1>3 DEF ForeignSend
<1>4. ASSUME NEW t \in Foreign, ForeignQueue(t)
      PROVE  \E op \in {"shutdown", "force"} : queue' = Append(queue, Do(op)) /\ Foreign # {}
  BY <1>4 DEF ForeignQueue
<1>5. ASSUME ServerDestroys PROVE queue' = Append(queue, Do("destroy"))
  BY <1>5 DEF ServerDestroys
<1>6. ASSUME NEW t \in Foreign, ForeignClose(t) \/ ForeignSetState(t) PROVE UNCHANGED queue
  BY <1>6 DEF ForeignClose, ForeignSetState
<1>7. ASSUME LoopCall \/ Peer \/ UNCHANGED vars PROVE UNCHANGED queue
  BY <1>7 DEF LoopCall, LoopSend, LoopShutdown, LoopForceClose, Peer, PeerSends, PeerCloses,
              PeerResets, PeerReads, FdReused
<1>10. ASSUME ChannelDestroyed PROVE UNCHANGED queue
  BY <1>10 DEF ChannelDestroyed
<1>8. ASSUME Poll \/ HandleError \/ HandleHangup \/ SkipRead \/ ReadMessage \/ ReadCloses
               \/ SkipWrite \/ WriteCloses \/ WriteComplete \/ NextRound \/ LeaveCallback
      PROVE  UNCHANGED queue
  BY <1>8 DEF Poll, HandleError, HandleHangup, SkipRead, ReadMessage, ReadCloses, SkipWrite,
              WriteCloses, WriteComplete, NextRound, LeaveCallback
<1>9. ASSUME NEW n \in 1..out, WriteSome(n) PROVE UNCHANGED queue
  BY <1>9 DEF WriteSome, Write
<1> QED
  BY <1>1, <1>2, <1>3, <1>4, <1>5, <1>6, <1>7, <1>8, <1>9, <1>10 DEF Next, LoopStep

\* ConnectEstablished runs first and only once.
LEMMA EstablishStep == TypeOK /\ FreshInv /\ EstablishFirst /\ [Next]_vars => EstablishFirst'
<1> SUFFICES ASSUME TypeOK, FreshInv, EstablishFirst, [Next]_vars PROVE EstablishFirst'
  OBVIOUS
<1>a. queue \in Seq(Functors)
  BY DEF TypeOK
<1>1. CASE ConnectEstablished
  <2>1. queue # <<>> /\ queue' = Tail(queue) /\ state' # "Connecting"
    BY <1>1 DEF ConnectEstablished, RunFunctor
  <2>2. \A i \in 1..Len(queue') : i + 1 \in 1..Len(queue) /\ i + 1 # 1 /\ queue'[i] = queue[i + 1]
    BY <1>a, <2>1
  <2> QED BY <2>1, <2>2 DEF EstablishFirst
<1>2. CASE ~ConnectEstablished /\ state = "Connecting"
  <2>1. state' = state /\ queue' \in {queue, Append(queue, Do("destroy"))}
    BY <1>2, FreshSteps
  <2>2. queue # <<>> /\ Do("destroy") # Do("establish")
    BY <1>2 DEF FreshInv, Do
  <2> QED BY <1>a, <2>1, <2>2 DEF EstablishFirst
<1>3. CASE state # "Connecting"
  <2>1. state' # "Connecting"
    BY <1>3, NeverConnectingAgain
  <2>2. \A i \in 1..Len(queue) : queue[i] # Do("establish")
    BY <1>3 DEF EstablishFirst
  <2>3. SUFFICES \A i \in 1..Len(queue') : queue'[i] # Do("establish")
    BY <2>1 DEF EstablishFirst
  <2>4. ASSUME NEW f, f # Do("establish"), queue' = Append(queue, f)
        PROVE  \A i \in 1..Len(queue') : queue'[i] # Do("establish")
    BY <1>a, <2>2, <2>4
  <2>5. /\ \A n : Send(n) # Do("establish")
        /\ \A op \in {"shutdown", "force", "destroy"} : Do(op) # Do("establish")
    BY DEF Send, Do
  <2>6. CASE queue # <<>> /\ queue' = Tail(queue)
    <3>1. \A i \in 1..Len(queue') : i + 1 \in 1..Len(queue) /\ queue'[i] = queue[i + 1]
      BY <1>a, <2>6
    <3> QED BY <2>2, <3>1
  <2> QED BY <2>2, <2>4, <2>5, <2>6, QueueSteps
<1> QED BY <1>1, <1>2, <1>3

\* The close callback closes the socket first.
LEMMA UntoldStep == TypeOK /\ OpenIsUntold /\ [Next]_vars => OpenIsUntold'
<1> SUFFICES ASSUME TypeOK, OpenIsUntold, [Next]_vars PROVE OpenIsUntold'
  OBVIOUS
<1> USE DEF OpenIsUntold
<1>1. CASE Closes \/ ConnectEstablished \/ \E t \in Foreign : ForeignSetState(t)
  BY <1>1 DEF Closes, Disconnect, ConnectEstablished, ForeignSetState
<1>2. CASE \/ Lingers \/ Buffers \/ Resumes \/ FdReused \/ ChannelDestroyed
           \/ UNCHANGED <<connVars, chanVars>>
  BY <1>2 DEF Lingers, Buffers, Resumes, FdReused, ChannelDestroyed
<1>3. CASE \E n \in 1..out : WriteSome(n)
  BY <1>3 DEF WriteSome, Write
<1> QED BY <1>1, <1>2, <1>3, ConnectionSteps

\* What a step does to the server's entry and to the functors at once.
LEMMA EntrySteps ==
  ASSUME [Next]_vars
  PROVE  \/ UNCHANGED <<entry, queue>>
         \/ \E f : UNCHANGED entry /\ queue' = Append(queue, f)
         \/ queue' = Append(queue, Do("destroy"))
         \/ /\ UNCHANGED entry
            /\ \E f : RunFunctor(f) /\ (f = Do("destroy") => ConnectDestroyed)
<1>1. ASSUME ConnectEstablished \/ RunClose \/ \E n \in Lens : RunSend(n)
      PROVE  \E f : RunFunctor(f) /\ (f = Do("destroy") => ConnectDestroyed)
  <2>1. CASE ConnectEstablished
    BY <2>1 DEF ConnectEstablished, Do
  <2>2. CASE RunClose
    BY <2>2 DEF RunClose, Do
  <2>3. ASSUME NEW n \in Lens, RunSend(n) PROVE RunFunctor(Send(n)) /\ Send(n) # Do("destroy")
    BY <2>3 DEF RunSend, Send, Do
  <2> QED BY <1>1, <2>1, <2>2, <2>3
<1>2. ASSUME NEW f, RunFunctor(f) PROVE UNCHANGED entry
  BY <1>2 DEF RunFunctor
<1>3. ASSUME NEW t \in Foreign, NEW n \in Lens, ForeignSend(t, n)
      PROVE  UNCHANGED entry /\ queue' = Append(queue, Send(n))
  BY <1>3 DEF ForeignSend
<1>4. ASSUME NEW t \in Foreign, ForeignQueue(t)
      PROVE  UNCHANGED entry /\ \E f : queue' = Append(queue, f)
  BY <1>4 DEF ForeignQueue
<1>5. ASSUME ServerDestroys PROVE queue' = Append(queue, Do("destroy"))
  BY <1>5 DEF ServerDestroys
<1>6. ASSUME NEW t \in Foreign, ForeignClose(t) \/ ForeignSetState(t)
      PROVE  UNCHANGED <<entry, queue>>
  BY <1>6 DEF ForeignClose, ForeignSetState
<1>7. ASSUME LoopCall \/ Peer \/ ChannelDestroyed \/ UNCHANGED vars
      PROVE  UNCHANGED <<entry, queue>>
  BY <1>7 DEF LoopCall, LoopSend, LoopShutdown, LoopForceClose, Peer, PeerSends, PeerCloses,
              PeerResets, PeerReads, FdReused, ChannelDestroyed
<1>8. ASSUME Poll \/ HandleError \/ HandleHangup \/ SkipRead \/ ReadMessage \/ ReadCloses
               \/ SkipWrite \/ WriteCloses \/ WriteComplete \/ NextRound \/ LeaveCallback
      PROVE  UNCHANGED <<entry, queue>>
  BY <1>8 DEF Poll, HandleError, HandleHangup, SkipRead, ReadMessage, ReadCloses, SkipWrite,
              WriteCloses, WriteComplete, NextRound, LeaveCallback
<1>9. ASSUME NEW n \in 1..out, WriteSome(n) PROVE UNCHANGED <<entry, queue>>
  BY <1>9 DEF WriteSome, Write
<1> QED
  BY <1>1, <1>2, <1>3, <1>4, <1>5, <1>6, <1>7, <1>8, <1>9 DEF Next, LoopStep

\* No step makes a connection connected but the first functor does.
LEMMA ConnectedSteps ==
  ASSUME TypeOK, EstablishFirst, [Next]_vars, state' \in {"Connecting", "Connected"}
  PROVE  state \in {"Connecting", "Connected"}
<1>1. CASE Closes \/ \E t \in Foreign : ForeignSetState(t)
  BY <1>1 DEF Closes, Disconnect, ForeignSetState
<1>2. CASE \/ Buffers \/ Resumes \/ FdReused \/ ChannelDestroyed
           \/ UNCHANGED <<connVars, chanVars>>
  BY <1>2 DEF Buffers, Resumes, FdReused, ChannelDestroyed
<1>3. CASE Lingers
  BY <1>3 DEF Lingers
<1>4. CASE \E n \in 1..out : WriteSome(n)
  BY <1>4 DEF WriteSome, Write
<1>5. CASE ConnectEstablished
  <2>1. queue # <<>> /\ Head(queue) = Do("establish") /\ queue \in Seq(Functors)
    BY <1>5 DEF ConnectEstablished, RunFunctor, TypeOK
  <2>2. 1 \in 1..Len(queue) /\ queue[1] = Do("establish")
    BY <2>1
  <2> QED BY <2>2 DEF EstablishFirst
<1> QED BY <1>1, <1>2, <1>3, <1>4, <1>5, ConnectionSteps

\* The server gives up its entry only when it queues ConnectDestroyed, and that
\* functor leaves no connection connected.
LEMMA HeldStep ==
  TypeOK /\ EstablishFirst /\ HeldInv /\ [Next]_vars => HeldInv'
<1> DEFINE Doomed == \E i \in 1..Len(queue) : queue[i].do = "destroy"
<1> SUFFICES ASSUME TypeOK, EstablishFirst, HeldInv, [Next]_vars,
                    state' \in {"Connecting", "Connected"}
             PROVE  entry' \/ Doomed'
  BY DEF HeldInv
<1>a. queue \in Seq(Functors)
  BY DEF TypeOK
<1>b. state \in {"Connecting", "Connected"}
  BY ConnectedSteps
<1>c. entry \/ Doomed
  BY <1>b DEF HeldInv
<1>1. CASE UNCHANGED <<entry, queue>>
  BY <1>1, <1>c
<1>2. ASSUME NEW f, queue' = Append(queue, f), UNCHANGED entry \/ f = Do("destroy")
      PROVE  entry' \/ Doomed'
  <2>1. /\ \A i \in 1..Len(queue) : i \in 1..Len(queue') /\ queue'[i] = queue[i]
        /\ Len(queue') \in 1..Len(queue') /\ queue'[Len(queue')] = f
    BY <1>a, <1>2
  <2>2. Doomed => Doomed'
    BY <2>1
  <2>3. f = Do("destroy") => Doomed'
    BY <2>1 DEF Do
  <2> QED BY <1>2, <1>c, <2>2, <2>3
<1>3. ASSUME NEW f, RunFunctor(f), f = Do("destroy") => ConnectDestroyed, UNCHANGED entry
      PROVE  entry' \/ Doomed'
  <2>1. queue # <<>> /\ f = queue[1] /\ 1 \in 1..Len(queue) /\ queue' = Tail(queue)
    BY <1>3, <1>a DEF RunFunctor
  <2>2. f # Do("destroy")
    <3>1. SUFFICES ASSUME f = Do("destroy") PROVE FALSE
      OBVIOUS
    <3>2. state = "Connecting"
      BY <1>3, <1>b, <3>1 DEF ConnectDestroyed, Disconnect
    <3>3. queue[1] = Do("establish")
      BY <2>1, <3>2 DEF EstablishFirst
    <3>4. Do("establish").do # Do("destroy").do
      BY DEF Do
    <3> QED BY <2>1, <3>1, <3>3, <3>4
  <2>3. f.do # "destroy"
    BY <1>a, <2>1, <2>2 DEF Functors, Send, Do
  <2>4. \A i \in 1..Len(queue) : i = 1 \/ (i - 1 \in 1..Len(queue') /\ queue'[i - 1] = queue[i])
    BY <1>a, <2>1
  <2>5. Doomed => Doomed'
    BY <2>1, <2>3, <2>4
  <2> QED BY <1>3, <1>c, <2>5
<1> QED BY <1>1, <1>2, <1>3, EntrySteps

\* A channel that is destroyed belongs to no connected connection.
LEMMA DestroyedIsOver ==
  ASSUME HeldInv, ChannelDestroyed PROVE state \notin {"Connecting", "Connected"}
  BY DEF HeldInv, ChannelDestroyed, Freed

\* A connection is connected from ConnectEstablished until it is closed, and
\* in between nothing takes its channel out of the poller.
LEMMA LiveStep ==
  TypeOK /\ FreshInv /\ EstablishFirst /\ HeldInv /\ ConnectedIsLive /\ [Next]_vars
    => ConnectedIsLive'
<1> SUFFICES ASSUME TypeOK, FreshInv, EstablishFirst, HeldInv, ConnectedIsLive, [Next]_vars
             PROVE  ConnectedIsLive'
  OBVIOUS
<1> USE DEF ConnectedIsLive
<1>1. CASE Closes \/ \E t \in Foreign : ForeignSetState(t)
  BY <1>1 DEF Closes, Disconnect, ForeignSetState
<1>2. CASE Lingers \/ Buffers \/ Resumes \/ UNCHANGED <<connVars, chanVars>>
  <2>1. state' = "Connected" => state = "Connected" /\ UNCHANGED <<sock, closeCalls>>
    BY <1>2 DEF Lingers, Buffers, Resumes
  <2>2. EnsureWriting \/ UNCHANGED chanVars
    BY <1>2 DEF Lingers, Buffers, Resumes
  <2>3. mapped = "self" /\ added /\ reading => mapped' = "self" /\ added' /\ reading'
    BY <2>2 DEF EnsureWriting, EnableWriting, UpdateChannel
  <2> QED BY <2>1, <2>3
<1>3. ASSUME NEW n \in 1..out, WriteSome(n) PROVE ConnectedIsLive'
  <2>1. UNCHANGED <<state, sock, closeCalls>> /\ (DisableWriting \/ UNCHANGED chanVars)
    BY <1>3 DEF WriteSome, Write
  <2>2. mapped = "self" /\ added /\ reading => mapped' = "self" /\ added' /\ reading'
    BY <2>1 DEF DisableWriting, UpdateChannel
  <2> QED BY <2>1, <2>2
<1>4. CASE ConnectEstablished
  <2>1. queue # <<>> /\ Head(queue) = Do("establish") /\ queue \in Seq(Functors)
    BY <1>4 DEF ConnectEstablished, RunFunctor, TypeOK
  <2>2. 1 \in 1..Len(queue) /\ queue[1] = Do("establish")
    BY <2>1
  <2>3. sock /\ mapped = "none" /\ closeCalls = 0
    BY <2>2 DEF EstablishFirst, FreshInv
  <2> QED BY <1>4, <2>3 DEF ConnectEstablished, EnableReading, UpdateChannel
<1>5. CASE FdReused
  BY <1>5 DEF FdReused
<1>6. CASE ChannelDestroyed
  BY <1>6, DestroyedIsOver DEF ChannelDestroyed
<1> QED BY <1>1, <1>2, <1>3, <1>4, <1>5, <1>6, ConnectionSteps

\* Only SendInLoop enters the high water mark callback.
LEMMA MarkSteps ==
  ASSUME TypeOK, [Next]_vars, pc' = "hwmcb"
  PROVE  Buffers \/ (pc = "hwmcb" /\ UNCHANGED out)
<1>1. ASSUME NEW n \in Lens, LoopSend(n) \/ RunSend(n)
      PROVE  Buffers \/ UNCHANGED <<connVars, chanVars, pc>>
  <2>1. SendInLoop(n, pc)
    BY <1>1 DEF LoopSend, RunSend, RunFunctor
  <2> QED BY <2>1, SendSteps DEF TypeOK
<1>2. ASSUME LoopShutdown \/ LoopForceClose \/ RunClose PROVE UNCHANGED <<pc, out>>
  <2>1. UNCHANGED pc
    BY <1>2 DEF LoopShutdown, LoopForceClose, RunClose
  <2>2. Closing
    BY <1>2 DEF LoopShutdown, LoopForceClose, RunClose, Closing
  <2>3. Closes \/ Lingers \/ UNCHANGED <<connVars, chanVars>>
    BY <2>2, ClosingSteps DEF TypeOK
  <2> QED BY <2>1, <2>3 DEF Closes, Disconnect, Lingers
<1>3. ASSUME Poll \/ HandleError \/ HandleHangup \/ SkipRead \/ ReadMessage \/ ReadCloses
               \/ SkipWrite \/ WriteCloses \/ WriteComplete \/ ConnectEstablished \/ NextRound
      PROVE  FALSE
  BY <1>3 DEF Poll, HandleError, HandleHangup, SkipRead, ReadMessage, ReadCloses, SkipWrite,
              WriteCloses, WriteComplete, ConnectEstablished, NextRound
<1>4. ASSUME NEW n \in 1..out, WriteSome(n) PROVE FALSE
  BY <1>4 DEF WriteSome, Write
<1>5. ASSUME LeaveCallback PROVE FALSE
  BY <1>5 DEF LeaveCallback, TypeOK, LoopType
<1>6. ASSUME NEW t \in Foreign, \/ \E n \in Lens : ForeignSend(t, n)
                                \/ ForeignClose(t) \/ ForeignSetState(t) \/ ForeignQueue(t)
      PROVE  UNCHANGED <<pc, out>>
  BY <1>6 DEF ForeignSend, ForeignClose, ForeignSetState, ForeignQueue
<1>7. ASSUME ServerDestroys \/ ChannelDestroyed \/ Peer \/ UNCHANGED vars
      PROVE  UNCHANGED <<pc, out>>
  BY <1>7 DEF ServerDestroys, ChannelDestroyed, Peer, PeerSends, PeerCloses, PeerResets, PeerReads, FdReused
<1> QED
  BY <1>1, <1>2, <1>3, <1>4, <1>5, <1>6, <1>7 DEF Next, LoopStep, LoopCall

\* The high water mark callback is entered above the mark, and nothing leaves
\* the output buffer inside it.
LEMMA MarkStep == TypeOK /\ AboveTheMark /\ [Next]_vars => AboveTheMark'
<1> SUFFICES ASSUME TypeOK, AboveTheMark, [Next]_vars, pc' = "hwmcb" PROVE out' >= HighWater
  BY DEF AboveTheMark
<1>1. CASE Buffers
  BY <1>1, ConnectionAssumption DEF Buffers, AboveTheMark, TypeOK, ConnType
<1>2. CASE pc = "hwmcb" /\ UNCHANGED out
  BY <1>2 DEF AboveTheMark
<1> QED BY <1>1, <1>2, MarkSteps

\* Leaving the high water mark callback is the rest of SendInLoop.
LEMMA LeaveMark ==
  ASSUME TypeOK, [Next]_vars, pc = "hwmcb", pc' # "hwmcb" PROVE Resumes
<1>1. ASSUME NEW n \in Lens, LoopSend(n) PROVE FALSE
  BY <1>1 DEF LoopSend, SendInLoop
<1>2. ASSUME \/ LoopShutdown \/ LoopForceClose \/ ServerDestroys \/ ChannelDestroyed
             \/ Peer \/ UNCHANGED vars
      PROVE  FALSE
  BY <1>2 DEF LoopShutdown, LoopForceClose, ServerDestroys, ChannelDestroyed, Peer, PeerSends,
              PeerCloses, PeerResets, PeerReads, FdReused
<1>3. ASSUME NEW t \in Foreign, \/ \E n \in Lens : ForeignSend(t, n)
                                \/ ForeignClose(t) \/ ForeignSetState(t) \/ ForeignQueue(t)
      PROVE  FALSE
  BY <1>3 DEF ForeignSend, ForeignClose, ForeignSetState, ForeignQueue
<1>4. ASSUME LoopStep PROVE LeaveCallback
  BY <1>4 DEF LoopStep, Poll, HandleError, HandleHangup, SkipRead, ReadMessage, ReadCloses,
              ReadEvent, SkipWrite, WriteSome, Write, WriteEvent, WriteCloses, WriteComplete,
              ConnectEstablished, RunSend, RunClose, RunFunctor, NextRound
<1>5. ASSUME LeaveCallback PROVE Resumes
  BY <1>5 DEF LeaveCallback, Resumes, FinishSend
<1> QED BY <1>1, <1>2, <1>3, <1>4, <1>5 DEF Next, LoopCall

\* Whoever puts data into the output buffer of a connected connection asks for
\* writability, and nobody takes the interest away before the buffer is empty.
LEMMA WatchedStep ==
  TypeOK /\ FreshInv /\ EstablishFirst /\ HeldInv /\ OutputIsWatched /\ [Next]_vars
    => OutputIsWatched'
<1> SUFFICES ASSUME TypeOK, FreshInv, EstablishFirst, HeldInv, OutputIsWatched, [Next]_vars
             PROVE  OutputIsWatched'
  OBVIOUS
<1> USE DEF OutputIsWatched
<1>a. ASSUME EnsureWriting PROVE writing'
  BY <1>a DEF EnsureWriting, EnableWriting
<1>1. CASE Closes \/ \E t \in Foreign : ForeignSetState(t)
  BY <1>1 DEF Closes, Disconnect, ForeignSetState
<1>2. CASE Lingers \/ Resumes
  BY <1>2, <1>a DEF Lingers, Resumes
<1>3. CASE Buffers
  BY <1>3, <1>a DEF Buffers
<1>4. CASE ConnectEstablished
  <2>1. queue # <<>> /\ Head(queue) = Do("establish") /\ queue \in Seq(Functors)
    BY <1>4 DEF ConnectEstablished, RunFunctor, TypeOK
  <2>2. 1 \in 1..Len(queue) /\ queue[1] = Do("establish")
    BY <2>1
  <2>3. out = 0
    BY <2>2 DEF EstablishFirst, FreshInv
  <2> QED BY <1>4, <2>3 DEF ConnectEstablished
<1>5. ASSUME NEW n \in 1..out, WriteSome(n) PROVE OutputIsWatched'
  <2>1. out \in Nat /\ out' = out - n /\ UNCHANGED state
    BY <1>5 DEF WriteSome, Write, TypeOK, ConnType
  <2>2. CASE n = out
    BY <2>1, <2>2
  <2>3. CASE n # out
    <3>1. UNCHANGED writing /\ state = "Connected" /\ pc # "hwmcb"
      BY <1>5, <2>3 DEF WriteSome, Write, WriteEvent
    <3> QED BY <2>1, <3>1
  <2> QED BY <2>2, <2>3
<1>6. CASE FdReused \/ UNCHANGED <<connVars, chanVars>>
  <2>1. UNCHANGED <<state, out, writing>>
    BY <1>6 DEF FdReused
  <2>2. CASE pc = "hwmcb" /\ pc' # "hwmcb"
    BY <1>2, <2>2, LeaveMark
  <2> QED BY <2>1, <2>2
<1>7. CASE ChannelDestroyed
  BY <1>7, DestroyedIsOver DEF ChannelDestroyed
<1> QED BY <1>1, <1>2, <1>3, <1>4, <1>5, <1>6, <1>7, ConnectionSteps

-----------------------------------------------------------------------------
(* With all calls on the loop thread.                                      *)

\* Without foreign threads a closed connection stays closed and its channel
\* leaves the poller's map alone.
LEMMA AloneStep ==
  ASSUME Foreign = {}
  PROVE  IInv /\ AloneInv /\ [Next]_vars => AloneInv'
<1> SUFFICES ASSUME IInv, AloneInv, [Next]_vars PROVE AloneInv'
  OBVIOUS
<1> DEFINE OwnFunctors == \A i \in 1..Len(queue) : queue[i].do \in {"establish", "destroy"}
<1>a. TypeOK /\ closeCalls \in Nat /\ queue \in Seq(Functors)
  BY DEF IInv, TypeOK, ConnType
<1>b. OwnFunctors'
  <2>1. OwnFunctors
    BY DEF AloneInv
  <2>2. CASE queue' = Append(queue, Do("destroy"))
    <3>1. Do("destroy").do = "destroy"
      BY DEF Do
    <3> QED BY <1>a, <2>1, <2>2, <3>1
  <2>3. CASE queue # <<>> /\ queue' = Tail(queue)
    <3>1. \A i \in 1..Len(queue') : i + 1 \in 1..Len(queue) /\ queue'[i] = queue[i + 1]
      BY <1>a, <2>3
    <3> QED BY <2>1, <3>1
  <2>4. CASE UNCHANGED queue
    BY <2>1, <2>4
  <2> QED BY <2>2, <2>3, <2>4, QueueSteps
<1>c. ~RunFunctor(Do("shutdown"))
  <2>1. SUFFICES ASSUME RunFunctor(Do("shutdown")) PROVE FALSE
    OBVIOUS
  <2>2. queue # <<>> /\ Head(queue).do = "shutdown"
    BY <2>1 DEF RunFunctor, Do
  <2>3. 1 \in 1..Len(queue) /\ Head(queue) = queue[1]
    BY <1>a, <2>2
  <2> QED BY <2>2, <2>3 DEF AloneInv
<1>d. ASSUME mapped # "other", EnsureWriting \/ EnableReading \/ DisableWriting
      PROVE  mapped' # "other" /\ UNCHANGED <<harmed, midSend>>
  <2>1. CASE UpdateChannel
    <3>1. harmed \in BOOLEAN
      BY <1>a DEF TypeOK, ChanType
    <3> QED BY <1>d, <2>1, <3>1 DEF UpdateChannel
  <2>2. CASE UNCHANGED chanVars
    BY <1>d, <2>2
  <2> QED BY <1>d, <2>1, <2>2 DEF EnsureWriting, EnableReading, EnableWriting, DisableWriting
<1>1. CASE Closes
  <2>1. PICK told \in BOOLEAN : Disconnect(told)
    BY <1>1 DEF Closes
  <2>2. state # "Disconnected" /\ closeCalls = 0 /\ mapped # "other" /\ (harmed => midSend)
    BY <1>1 DEF Closes, AloneInv
  <2>3. /\ state' = "Disconnected" /\ mapped' = "none" /\ ~reading' /\ ~writing'
        /\ harmed' = harmed /\ midSend' = (midSend \/ pc = "hwmcb")
    BY <1>a, <2>1, <2>2 DEF Disconnect, DisableAll, TypeOK, ChanType
  <2>4. closeCalls' <= 1
    <3>1. CASE told
      BY <2>1, <2>2, <3>1 DEF Disconnect
    <3>2. CASE ~told
      BY <2>1, <2>2, <3>2 DEF Disconnect
    <3> QED BY <3>1, <3>2
  <2>5. pc' = "hwmcb" => pc = "hwmcb"
    BY <1>a, <2>3, MarkSteps DEF Buffers
  <2> QED BY <1>b, <2>2, <2>3, <2>4, <2>5 DEF AloneInv
<1>2. CASE Lingers \/ Buffers
  <2>1. state = "Connected" /\ UNCHANGED <<sock, closeCalls>> /\ state' # "Disconnected"
    BY <1>2, <1>c DEF Lingers, Buffers
  <2>2. mapped' # "other" /\ UNCHANGED <<harmed, midSend>>
    BY <1>2, <1>d, <2>1 DEF Lingers, Buffers, AloneInv
  <2> QED BY <1>b, <2>1, <2>2 DEF AloneInv
<1>3. CASE Resumes
  <2>1. mapped' # "other" /\ UNCHANGED <<harmed, midSend>> /\ UNCHANGED connVars
    BY <1>3, <1>d DEF Resumes, AloneInv
  <2>2. state = "Disconnected" => midSend
    BY <1>3 DEF Resumes, AloneInv
  <2> QED BY <1>b, <2>1, <2>2 DEF AloneInv
<1>4. CASE ConnectEstablished
  <2>1. queue # <<>> /\ Head(queue) = Do("establish")
    BY <1>4 DEF ConnectEstablished, RunFunctor
  <2>2. 1 \in 1..Len(queue) /\ queue[1] = Do("establish")
    BY <1>a, <2>1
  <2>3. state = "Connecting" /\ mapped # "other"
    BY <2>2 DEF IInv, EstablishFirst, AloneInv
  <2>4. /\ mapped' # "other" /\ UNCHANGED <<harmed, midSend>>
        /\ UNCHANGED <<sock, closeCalls>> /\ state' = "Connected"
    BY <1>4, <1>d, <2>3 DEF ConnectEstablished
  <2> QED BY <1>b, <2>3, <2>4 DEF AloneInv
<1>5. ASSUME NEW n \in 1..out, WriteSome(n) PROVE AloneInv'
  <2>1. /\ state = "Connected" /\ UNCHANGED <<state, sock, closeCalls>>
        /\ DisableWriting \/ UNCHANGED chanVars
    BY <1>5 DEF WriteSome, Write, WriteEvent
  <2>2. mapped' # "other" /\ UNCHANGED <<harmed, midSend>>
    BY <1>d, <2>1 DEF AloneInv
  <2> QED BY <1>b, <2>1, <2>2 DEF AloneInv
<1>6. CASE FdReused
  <2>1. state = "Disconnected" /\ pc # "hwmcb" /\ UNCHANGED <<connVars, reading, writing, midSend, pc>>
    BY <1>6 DEF FdReused, AloneInv
  <2>2. CASE mapped = "none" /\ mapped' = "other" /\ UNCHANGED harmed
    BY <1>b, <2>1, <2>2 DEF AloneInv
  <2>3. CASE mapped = "self" /\ harmed' = TRUE /\ UNCHANGED mapped
    BY <1>b, <2>1, <2>3 DEF AloneInv
  <2> QED BY <1>6, <2>2, <2>3 DEF FdReused
<1>7. CASE UNCHANGED <<connVars, chanVars>>
  <2>1. pc' = "hwmcb" => Buffers \/ pc = "hwmcb"
    BY <1>a, MarkSteps
  <2> QED BY <1>2, <1>7, <1>b, <2>1 DEF AloneInv
<1>8. CASE ChannelDestroyed
  <2>1. /\ UNCHANGED <<connVars, pc>> /\ pc # "hwmcb"
        /\ ~reading' /\ ~writing' /\ mapped' \in {"none", mapped}
        /\ midSend' = midSend
    BY <1>8, <1>a DEF ChannelDestroyed, DisableAll, Callbacks, TypeOK, ChanType
  <2>2. harmed' => midSend'
    <3>1. CASE UNCHANGED harmed
      BY <2>1, <3>1 DEF AloneInv
    <3>2. CASE DisableAll /\ (reading \/ writing)
      <4>1. mapped = "other" => midSend
        BY <3>2 DEF AloneInv
      <4> QED BY <2>1, <3>2, <4>1 DEF DisableAll, AloneInv
    <3> QED BY <1>8, <3>1, <3>2 DEF ChannelDestroyed
  <2> QED BY <1>b, <2>1, <2>2 DEF AloneInv
<1> QED BY <1>1, <1>2, <1>3, <1>4, <1>5, <1>6, <1>7, <1>8, <1>a, ConnectionSteps

-----------------------------------------------------------------------------
(* The theorems.                                                           *)

\* A connection as HandleNewConnection makes it satisfies the invariant.
LEMMA IInvInit == Init => IInv
<1> SUFFICES ASSUME Init PROVE IInv
  OBVIOUS
<1> USE ConnectionAssumption DEF Init
<1>1. ConnType /\ ChanType /\ LoopType
  BY DEF ConnType, ChanType, LoopType, States, Callbacks
<1>2. PeerType /\ OtherType
  <2>1. rx \in 0..MaxRx /\ calls \in 0..MaxCalls
    OBVIOUS
  <2> QED BY <2>1 DEF PeerType, OtherType
<1>3. queue \in Seq(Functors) /\ Len(queue) = 1 /\ queue[1] = Do("establish") /\ queue # <<>>
  BY FunctorsType
<1>4. FreshInv
  BY <1>3 DEF FreshInv
<1>5. EstablishFirst
  BY <1>3 DEF EstablishFirst
<1>6. HeldInv /\ ConnectedIsLive /\ OpenIsUntold /\ AboveTheMark /\ OutputIsWatched
  BY DEF HeldInv, ConnectedIsLive, OpenIsUntold, AboveTheMark, OutputIsWatched
<1> QED BY <1>1, <1>2, <1>3, <1>4, <1>5, <1>6 DEF IInv, TypeOK

\* The invariant holds whatever threads, callbacks and the peer do.
THEOREM IInvHolds == Spec => []IInv
<1>1. IInv /\ [Next]_vars => IInv'
  BY TypeStep, FreshStep, EstablishStep, HeldStep, UntoldStep, LiveStep, MarkStep, WatchedStep DEF IInv
<1> QED BY <1>1, IInvInit, PTL DEF Spec

\* The connection, its channel and the functors of its callers stay well typed.
THEOREM TypeCorrect == Spec => []TypeOK
<1>1. IInv => TypeOK
  BY DEF IInv
<1> QED BY <1>1, IInvHolds, PTL

\* IsConnected tells the truth about socket, channel and poller, with any
\* number of foreign threads.
THEOREM ConnectedMeansLive == Spec => []ConnectedIsLive
<1>1. IInv => ConnectedIsLive
  BY DEF IInv
<1> QED BY <1>1, IInvHolds, PTL

\* Data in the output buffer always waits for an event that was asked for.
THEOREM OutputAlwaysWatched == Spec => []OutputIsWatched
<1>1. IInv => OutputIsWatched
  BY DEF IInv
<1> QED BY <1>1, IInvHolds, PTL

\* HandleRead hands no message to the user after the close callback.
THEOREM SilentAfterClose == Spec => NoMessageAfterClose
<1>1. IInv /\ [Next]_vars => [pc = "active" /\ pc' = "msgcb" => closeCalls = 0]_vars
  <2> SUFFICES ASSUME IInv, Next, pc = "active", pc' = "msgcb" PROVE closeCalls = 0
    OBVIOUS
  <2>1. CASE ReadMessage
    BY <2>1 DEF ReadMessage, IInv, OpenIsUntold
  <2>2. ASSUME NEW n \in Lens, LoopSend(n) PROVE FALSE
    BY <2>2 DEF LoopSend, SendInLoop
  <2>3. ASSUME LoopShutdown \/ LoopForceClose \/ ServerDestroys \/ ChannelDestroyed \/ Peer
        PROVE  FALSE
    BY <2>3 DEF LoopShutdown, LoopForceClose, ServerDestroys, ChannelDestroyed, Peer, PeerSends,
                PeerCloses, PeerResets, PeerReads, FdReused
  <2>4. ASSUME NEW t \in Foreign, \/ \E n \in Lens : ForeignSend(t, n)
                                  \/ ForeignClose(t) \/ ForeignSetState(t) \/ ForeignQueue(t)
        PROVE  FALSE
    BY <2>4 DEF ForeignSend, ForeignClose, ForeignSetState, ForeignQueue
  <2>5. ASSUME LoopStep, ~ReadMessage PROVE FALSE
    BY <2>5 DEF LoopStep, Poll, HandleError, HandleHangup, SkipRead, ReadCloses,
                SkipWrite, WriteSome, Write, WriteEvent, WriteCloses, WriteComplete,
                ConnectEstablished, RunSend, RunClose, RunFunctor, NextRound, LeaveCallback,
                Callbacks
  <2> QED BY <2>1, <2>2, <2>3, <2>4, <2>5 DEF Next, LoopCall
<1> QED BY <1>1, IInvHolds, PTL DEF Spec, NoMessageAfterClose

\* Without foreign threads the additional invariant holds too.
THEOREM AloneHolds ==
  ASSUME Foreign = {} PROVE Spec => [](IInv /\ AloneInv)
<1>1. Init => AloneInv
  <2> SUFFICES ASSUME Init PROVE AloneInv
    OBVIOUS
  <2>1. Len(queue) = 1 /\ queue[1].do = "establish"
    BY DEF Init, Do
  <2> QED BY <2>1 DEF Init, AloneInv
<1>2. IInv /\ AloneInv /\ [Next]_vars => AloneInv'
  BY AloneStep
<1> QED BY <1>1, <1>2, IInvHolds, PTL DEF Spec

\* With all calls on the loop thread m_close_callback is called at most once.
THEOREM ClosedAtMostOnce ==
  ASSUME Foreign = {} PROVE Spec => []ClosedOnce
<1>1. IInv /\ AloneInv => ClosedOnce
  BY DEF AloneInv, ClosedOnce
<1> QED BY <1>1, AloneHolds, PTL

\* With all calls on the loop thread nothing that runs after a close, on to the
\* destruction of the channel, costs a later owner of the fd number its
\* registration, but the rest of a SendInLoop the connection was closed in.
THEOREM OthersLeftAlone ==
  ASSUME Foreign = {} PROVE Spec => []LeavesOthersAlone
<1>1. IInv /\ AloneInv => LeavesOthersAlone
  BY DEF AloneInv, LeavesOthersAlone
<1> QED BY <1>1, AloneHolds, PTL
=============================================================================
