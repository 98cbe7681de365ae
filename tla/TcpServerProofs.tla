-------------------------- MODULE TcpServerProofs --------------------------
(***************************************************************************)
(* Proofs of the safety properties of TcpServer for any set of fd numbers, *)
(* any number of connections and any number of calls of StopGracefully.    *)
(***************************************************************************)
EXTENDS TcpServer, FiniteSetTheorems, TLAPS

USE DEF serverVars, connVars, lifeVars, histVars, vars

-----------------------------------------------------------------------------
(* The inductive invariant.                                                *)

\* Every call of StopGracefully brings at most one completion, and every entry
\* erased by HandleRemoveConnection is a connection of its own.
CountInv ==
  /\ completed + (IF waiting THEN 1 ELSE 0) <= stops
  /\ closed <= Cardinality({c \in Conns : destroys[c] > 0})

\* The acceptor listens only while the server is started and not stopping, and
\* a server that is down has no connections.
FlagInv ==
  /\ listening => started /\ ~stopping
  /\ stopping /\ life = "alive" => started
  /\ ~started => Empty(connections)

\* Nothing refers to a connection that is not accepted yet.
UnbornInv ==
  /\ \A c \in Conns : c > total =>
       /\ st[c] = "none" /\ fd[c] = NoFd /\ ioQ[c] = <<>>
       /\ destroys[c] = 0 /\ c \notin closing
  /\ \A c \in Conns : st[c] = "none" => c > total /\ storing[c] = "no"
  /\ \A f \in Fds : connections[f] <= total

\* ConnectEstablished is the first functor of a connection and runs once.
EstablishFirst ==
  \A c \in Conns :
    /\ \A i \in 1..Len(ioQ[c]) : ioQ[c][i] = "establish" <=> i = 1 /\ st[c] = "Connecting"
    /\ st[c] = "Connecting" => storing[c] = "no" /\ (life = "gone" \/ ioQ[c] # <<>>)

\* A closed connection has no socket unless HandleClose is about to close it,
\* two open sockets have different numbers, and no loop leaves inside HandleClose.
SocketInv ==
  /\ \A c \in Conns : st[c] = "Disconnected" /\ c \notin closing => fd[c] = NoFd
  /\ \A c, d \in Conns : fd[c] = fd[d] /\ fd[c] # NoFd => c = d
  /\ closing \cap exited = {}

\* An entry of m_connections is under the fd its connection has or had, no
\* entry is in the way of an open socket, and what is destroyed is no entry.
EntryInv ==
  /\ \A c \in Conns : fd[c] # NoFd => connections[fd[c]] \in {c, NoConn}
  /\ \A f \in Fds : \A c \in Conns :
       connections[f] = c => fd[c] \in {f, NoFd} /\ destroys[c] = 0
  /\ \A c \in Conns : destroys[c] \in {0, 1}

IInv ==
  /\ TypeOK /\ CountInv /\ FlagInv /\ UnbornInv /\ EstablishFirst /\ SocketInv
  /\ EntryInv /\ OpenIsTracked

-----------------------------------------------------------------------------
(* Dropping connections.                                                   *)

\* The connections S leave m_connections and ConnectDestroyed is queued for them.
Drops(S) ==
  /\ connections' = [f \in Fds |-> IF connections[f] \in S THEN NoConn ELSE connections[f]]
  /\ ioQ' = QueueDestroy(S, ioQ)
  /\ destroys' = CountDestroy(S)

\* Shutdown and ForceClose only ever pick connections that are not closed.
Decides ==
  /\ storing' \in [Conns -> {"no", "shutdown", "force"}]
  /\ \A c \in Conns : storing'[c] # "no" => st[c] \in {"Connected", "Disconnecting"}

\* NoConn is no connection and NoFd no fd number.
LEMMA Nobody ==
  NoConn \notin Conns /\ NoFd \notin Fds /\ Conns \subseteq Nat /\ NoConn \in Nat
  BY ServerAssumption DEF NoConn, NoFd, Conns

\* ForceCloseAll and ShutdownAll decide about connections that are not closed.
LEMMA AllDecide ==
  ASSUME NEW S, ForceCloseAll(S) \/ ShutdownAll(S) PROVE Decides
  BY DEF ForceCloseAll, ShutdownAll, Decides

\* FinalizeGracefulStop drops the connections that are not connected.
LEMMA FinalizeDrops ==
  ASSUME ConnType, CountType, NEW force \in BOOLEAN,
         FinalizeGracefulStop(force, connections, ioQ, {})
  PROVE  /\ \E S \in SUBSET Held(connections) :
              Drops(S) /\ \A c \in S : st[c] # "Connected"
         /\ Decides
<1> DEFINE S == {c \in Held(connections) : st[c] # "Connected"}
<1>1. Drops(S)
  <2>1. S \cup {} = S
    OBVIOUS
  <2> QED BY <2>1 DEF FinalizeGracefulStop, Drops
<1>2. S \in SUBSET Held(connections)
  OBVIOUS
<1>3. Decides
  BY AllDecide DEF FinalizeGracefulStop
<1> QED BY <1>1, <1>2, <1>3

\* On an empty map FinalizeGracefulStop drops nothing more.
LEMMA FinalizeEmpty ==
  ASSUME NEW m \in [Fds -> Conns \cup {NoConn}],
         NEW Q \in [Conns -> Seq({"establish", "shutdown", "force", "destroy"})],
         NEW D, Empty(m), FinalizeGracefulStop(FALSE, m, Q, D)
  PROVE  connections' = m /\ ioQ' = Q /\ destroys' = CountDestroy(D) /\ Complete /\ Decides
<1> DEFINE stale == {c \in Held(m) : st[c] # "Connected"}
           rest  == [f \in Fds |-> IF m[f] \in stale THEN NoConn ELSE m[f]]
<1>1. stale = {} /\ stale \cup D = D
  BY DEF Empty
<1>2. rest = m
  BY <1>1
<1>3. QueueDestroy(stale, Q) = Q
  BY <1>1 DEF QueueDestroy
<1>4. Decides
  BY AllDecide DEF FinalizeGracefulStop
<1> QED BY <1>1, <1>2, <1>3, <1>4 DEF FinalizeGracefulStop

\* HandleRemoveConnection drops the connection it was queued for, or nothing:
\* the entry under the fd of an open connection is never somebody else's.
LEMMA RemoveDrops ==
  ASSUME TypeOK, EntryInv, HandleRemoveConnection
  PROVE  \/ UNCHANGED <<serverVars, connections, storing, ioQ, closed, completed, destroys>>
         \/ \E c \in Held(connections) :
              /\ mainQ # <<>> /\ c = Head(mainQ)
              /\ Drops({c}) /\ fd[c] # NoFd /\ closed' = closed + 1 /\ UNCHANGED listening
              /\ \/ Complete /\ Decides /\ stopping /\ Empty(connections')
                 \/ UNCHANGED <<started, stopping, checkTimer, deadline, waiting, storing, completed>>
<1> DEFINE c == Head(mainQ)
           f == fd[c]
           m == [connections EXCEPT ![f] = NoConn]
           Q == [ioQ EXCEPT ![c] = Append(@, "destroy")]
<1> USE Nobody
<1>0. mainQ # <<>>
  BY DEF HandleRemoveConnection
<1>1. c \in Conns /\ f \in Fds \cup {NoFd}
  <2>1. mainQ # <<>> /\ mainQ \in Seq(Conns)
    BY DEF HandleRemoveConnection, TypeOK, ConnType
  <2>2. c \in Conns
    BY <2>1
  <2> QED BY <2>2 DEF TypeOK, ConnType
<1>2. CASE ~Erases(c, f)
  <2>1. UNCHANGED <<serverVars, connections, storing, ioQ, closed, completed, destroys>>
    BY <1>2 DEF HandleRemoveConnection
  <2> QED BY <2>1
<1>3. CASE Erases(c, f)
  <2>1. f \in Fds /\ connections[f] = c
    BY <1>1, <1>3 DEF Erases, EntryInv
  <2>2. c \in Held(connections)
    BY <1>1, <2>1 DEF Held
  <2>3. m = [g \in Fds |-> IF connections[g] \in {c} THEN NoConn ELSE connections[g]]
    <3>1. \A g \in Fds : connections[g] = c => g = f
      BY <1>1, <2>1 DEF EntryInv
    <3> QED BY <2>1, <3>1 DEF TypeOK, ConnType
  <2>4. Q = QueueDestroy({c}, ioQ)
    BY <1>1 DEF QueueDestroy, TypeOK, ConnType
  <2>5. m \in [Fds -> Conns \cup {NoConn}]
    BY <2>3 DEF TypeOK, ConnType
  <2>6. Q \in [Conns -> Seq({"establish", "shutdown", "force", "destroy"})]
    <3>1. Append(ioQ[c], "destroy") \in Seq({"establish", "shutdown", "force", "destroy"})
      <4>1. ioQ[c] \in Seq({"establish", "shutdown", "force", "destroy"})
        BY <1>1 DEF TypeOK, ConnType
      <4> QED BY <4>1
    <3> QED BY <1>1, <3>1 DEF TypeOK, ConnType
  <2>7. CASE stopping /\ Empty(m)
    <3>1. FinalizeGracefulStop(FALSE, m, Q, {c}) /\ closed' = closed + 1 /\ UNCHANGED listening
      BY <1>3, <2>7 DEF HandleRemoveConnection
    <3>2. connections' = m /\ ioQ' = Q /\ destroys' = CountDestroy({c}) /\ Complete /\ Decides
      BY <2>5, <2>6, <2>7, <3>1, FinalizeEmpty
    <3>3. Drops({c})
      BY <2>3, <2>4, <3>2 DEF Drops
    <3> QED BY <1>0, <2>1, <2>2, <2>7, <3>1, <3>2, <3>3
  <2>8. CASE ~(stopping /\ Empty(m))
    <3>1. /\ connections' = m /\ ioQ' = Q /\ destroys' = CountDestroy({c})
          /\ closed' = closed + 1 /\ UNCHANGED listening
          /\ UNCHANGED <<started, stopping, checkTimer, deadline, waiting, storing, completed>>
      BY <1>3, <2>8 DEF HandleRemoveConnection
    <3>2. Drops({c})
      BY <2>3, <2>4, <3>1 DEF Drops
    <3> QED BY <1>0, <2>1, <2>2, <3>1, <3>2
  <2> QED BY <2>7, <2>8
<1> QED BY <1>2, <1>3

-----------------------------------------------------------------------------
(* What a step may do to a connection.                                     *)

\* A step of the io loop of c, and what all of them have in common: they touch
\* no other connection, and as long as the socket stays open neither a pending
\* close nor a queued ConnectDestroyed gets lost.
IoStep(c) == HandleClose(c) \/ UserForceClose(c) \/ IoFunctor(c)

IoEffect(c) ==
  /\ c <= total /\ c \notin exited
  /\ \A d \in Conns \ {c} : /\ st'[d] = st[d] /\ fd'[d] = fd[d] /\ ioQ'[d] = ioQ[d]
                            /\ d \in closing' <=> d \in closing
  /\ st'[c] # "none"
  /\ fd'[c] \in {fd[c], NoFd}
  /\ st'[c] = "Disconnected" /\ c \notin closing' => fd'[c] = NoFd
  /\ IF st[c] = "Connecting" /\ st'[c] # "Connecting"
     THEN ioQ[c] # <<>> /\ ioQ'[c] = Tail(ioQ[c])
     ELSE /\ st'[c] = "Connecting" <=> st[c] = "Connecting"
          /\ \/ ioQ'[c] = ioQ[c]
             \/ st[c] # "Connecting" /\ ioQ[c] # <<>> /\ ioQ'[c] = Tail(ioQ[c])
  /\ fd'[c] # NoFd =>
       /\ c \in closing => c \in closing'
       /\ \/ ioQ'[c] = ioQ[c]
          \/ ioQ[c] # <<>> /\ Head(ioQ[c]) # "destroy" /\ ioQ'[c] = Tail(ioQ[c])
  /\ UNCHANGED <<connections, storing, lifeVars, total, destroys>>

\* Every step of an io loop has that effect.
LEMMA IoEffects ==
  ASSUME TypeOK, UnbornInv, EstablishFirst, SocketInv, NEW c \in Conns, IoStep(c)
  PROVE  IoEffect(c)
<1> USE Nobody DEF IoEffect, Unserved
<1>a. total \in Nat /\ c \in Nat
  BY ServerAssumption DEF TypeOK, CountType, Conns
<1>b. /\ st \in [Conns -> {"none", "Connecting", "Connected", "Disconnecting", "Disconnected"}]
      /\ fd \in [Conns -> Fds \cup {NoFd}]
      /\ ioQ \in [Conns -> Seq({"establish", "shutdown", "force", "destroy"})]
      /\ closing \in SUBSET Conns
  BY DEF TypeOK, ConnType
<1>c. c > total => st[c] = "none" /\ fd[c] = NoFd /\ ioQ[c] = <<>> /\ c \notin closing
  BY DEF UnbornInv
<1>d. st[c] = "none" => c > total
  BY DEF UnbornInv
<1>e. st[c] = "Disconnected" /\ c \notin closing => fd[c] = NoFd
  BY DEF SocketInv
<1>f. ioQ[c] # <<>> => (Head(ioQ[c]) = "establish" <=> st[c] = "Connecting")
  <2>1. ASSUME ioQ[c] # <<>> PROVE 1 \in 1..Len(ioQ[c]) /\ Head(ioQ[c]) = ioQ[c][1]
    BY <1>b, <2>1
  <2> QED BY <2>1 DEF EstablishFirst
<1>1. CASE HandleClose(c)
  BY <1>1, <1>a, <1>b, <1>c DEF HandleClose, BeginClose
<1>2. CASE UserForceClose(c)
  BY <1>2, <1>a, <1>b, <1>c DEF UserForceClose, CloseNow
<1>3. CASE SocketClose(c)
  BY <1>3, <1>a, <1>b, <1>c, <1>d DEF SocketClose
<1>4. ASSUME NEW f, RunFunctor(c, f)
      PROVE  /\ c <= total /\ c \notin exited /\ c \notin closing
             /\ ioQ[c] # <<>> /\ Head(ioQ[c]) = f /\ ioQ'[c] = Tail(ioQ[c])
             /\ \A d \in Conns \ {c} : ioQ'[d] = ioQ[d]
             /\ UNCHANGED <<connections, storing, lifeVars, total, destroys>>
  BY <1>4, <1>a, <1>b, <1>c DEF RunFunctor
<1>5. CASE ConnectEstablished(c)
  BY <1>5, <1>4, <1>b, <1>f DEF ConnectEstablished
<1>6. CASE ShutdownInLoop(c)
  <2>1. st[c] # "Connecting" /\ st[c] # "none"
    BY <1>6, <1>4, <1>a, <1>d, <1>f DEF ShutdownInLoop
  <2>2. CASE UNCHANGED <<st, mainQ, closing>>
    BY <1>6, <1>4, <1>b, <1>e, <2>1, <2>2 DEF ShutdownInLoop
  <2>3. CASE BeginClose(c)
    BY <1>6, <1>4, <1>b, <2>1, <2>3 DEF ShutdownInLoop, BeginClose
  <2> QED BY <1>6, <2>2, <2>3 DEF ShutdownInLoop
<1>7. CASE ForceCloseInLoop(c)
  <2>1. st[c] # "Connecting" /\ st[c] # "none"
    BY <1>7, <1>4, <1>a, <1>d, <1>f DEF ForceCloseInLoop
  <2> QED BY <1>7, <1>4, <1>b, <1>e, <2>1 DEF ForceCloseInLoop, CloseNow
<1>8. CASE ConnectDestroyed(c)
  <2>1. st[c] # "Connecting" /\ st[c] # "none"
    BY <1>8, <1>4, <1>a, <1>d, <1>f DEF ConnectDestroyed
  <2>2. st'[c] = "Disconnected" /\ fd'[c] = NoFd
    BY <1>8, <1>4, <1>b, <1>e, <2>1 DEF ConnectDestroyed
  <2> QED BY <1>8, <1>4, <1>b, <2>1, <2>2 DEF ConnectDestroyed
<1> QED BY <1>1, <1>2, <1>3, <1>5, <1>6, <1>7, <1>8 DEF IoStep, IoFunctor

\* Connections are dropped by the main thread: by a stop if they are not connected,
\* and by the removal that was queued for them.
Droppable(c) == st[c] # "Connected" \/ (mainQ # <<>> /\ c = Head(mainQ))

MainDrops ==
  /\ life = "alive"
  /\ \E S \in SUBSET Held(connections) : Drops(S) /\ \A c \in S : Droppable(c)
  /\ Decides \/ UNCHANGED storing
  /\ UNCHANGED <<st, fd, closing, lifeVars, total>>

\* The main thread leaves the connections alone, up to what it decides.
MainRests ==
  /\ Decides \/ UNCHANGED storing
  /\ exited' = exited \/ \E c \in Conns \ closing : exited' = exited \cup {c}
  /\ life' = "gone" <=> life = "gone"
  /\ UNCHANGED <<connections, connVars, total, destroys>>

\* Everything that happens to connections.
LEMMA ConnSteps ==
  ASSUME TypeOK, EntryInv, [Next]_vars
  PROVE  \/ MainDrops \/ MainRests \/ JoinSubLoops
         \/ \E f \in Fds : HandleNewConnection(f)
         \/ \E c \in Conns : StoreState(c) \/ IoStep(c)
<1>a. ConnType /\ CountType
  BY DEF TypeOK
<1>1. CASE Start \/ StopAgain \/ QuitSubLoops \/ UNCHANGED vars
  BY <1>1 DEF Start, StopAgain, QuitSubLoops, MainRests
<1>2. CASE StopGracefully
  <2>1. Decides \/ UNCHANGED storing
    BY <1>2, AllDecide DEF StopGracefully
  <2> QED BY <1>2, <2>1 DEF StopGracefully, MainRests
<1>3. CASE ShutdownCheck \/ ShutdownDeadline
  <2>1. life = "alive" /\ UNCHANGED <<st, fd, closing, lifeVars, total>>
    BY <1>3 DEF ShutdownCheck, ShutdownDeadline, MainIdle
  <2>2. CASE \E force \in BOOLEAN : FinalizeGracefulStop(force, connections, ioQ, {})
    BY <1>a, <2>1, <2>2, FinalizeDrops DEF MainDrops, Droppable
  <2>3. CASE UNCHANGED <<connections, destroys, ioQ, storing>>
    BY <2>1, <2>3 DEF MainRests
  <2> QED BY <1>3, <2>2, <2>3 DEF ShutdownCheck, ShutdownDeadline
<1>4. CASE HandleRemoveConnection
  <2>1. life = "alive" /\ UNCHANGED <<st, fd, closing, lifeVars, total>>
    BY <1>4 DEF HandleRemoveConnection, MainIdle
  <2>2. CASE UNCHANGED <<connections, destroys, ioQ, storing>>
    BY <2>1, <2>2 DEF MainRests
  <2>3. ASSUME NEW c \in Held(connections), mainQ # <<>>, c = Head(mainQ), Drops({c}),
               Decides \/ UNCHANGED storing
        PROVE  MainDrops
    BY <2>1, <2>3 DEF MainDrops, Droppable
  <2> QED BY <1>4, <2>2, <2>3, RemoveDrops
<1>5. CASE Destroy
  <2>1. Decides
    BY <1>5, AllDecide DEF Destroy
  <2> QED BY <1>5, <2>1 DEF Destroy, MainRests, MainIdle
<1>6. ASSUME NEW c \in Conns, LeaveLoop(c) PROVE MainRests
  BY <1>6 DEF LeaveLoop, MainRests
<1>7. ASSUME NEW S \in SUBSET Conns, ScanIdleConnections(S) PROVE MainRests
  <2>1. Decides
    BY <1>7, AllDecide DEF ScanIdleConnections
  <2> QED BY <1>7, <2>1 DEF ScanIdleConnections, MainRests
<1> QED
  BY <1>1, <1>2, <1>3, <1>4, <1>5, <1>6, <1>7 DEF Next, MainTimers, Destructor, IoStep

-----------------------------------------------------------------------------
(* The parts of the invariant.                                             *)

\* HandleNewConnection takes the next connection, to which nothing refers yet.
LEMMA NewConnection ==
  ASSUME TypeOK, UnbornInv, NEW f \in Fds, HandleNewConnection(f)
  PROVE  /\ total + 1 \in Conns /\ total' = total + 1
         /\ st[total + 1] = "none" /\ fd[total + 1] = NoFd /\ ioQ[total + 1] = <<>>
         /\ destroys[total + 1] = 0 /\ total + 1 \notin closing /\ storing[total + 1] = "no"
         /\ \A d \in Conns : fd[d] # f
         /\ \A g \in Fds : connections[g] # total + 1
         /\ total \in Nat
<1> USE ServerAssumption
<1>1. total \in Nat /\ total + 1 \in Conns /\ total' = total + 1 /\ total + 1 > total
  BY DEF HandleNewConnection, TypeOK, CountType, Conns
<1>2. \A d \in Conns : fd[d] # f
  BY DEF HandleNewConnection, HandleAccept
<1>3. \A g \in Fds : connections[g] # total + 1
  BY <1>1, Nobody DEF UnbornInv, TypeOK, ConnType, NoConn
<1>4. /\ st[total + 1] = "none" /\ fd[total + 1] = NoFd /\ ioQ[total + 1] = <<>>
      /\ destroys[total + 1] = 0 /\ total + 1 \notin closing
  BY <1>1 DEF UnbornInv
<1>5. storing[total + 1] = "no"
  BY <1>1, <1>4 DEF UnbornInv
<1> QED BY <1>1, <1>2, <1>3, <1>4, <1>5

\* The connections a step drops were in m_connections, hence accepted.
LEMMA DroppedAreBorn ==
  ASSUME TypeOK, UnbornInv, NEW S \in SUBSET Held(connections)
  PROVE  \A c \in S : c \in Conns /\ c <= total /\ \E f \in Fds : connections[f] = c
  BY Nobody DEF UnbornInv, Held, TypeOK, ConnType, NoConn

\* Nothing refers to a connection before HandleNewConnection makes it.
LEMMA UnbornStep ==
  TypeOK /\ UnbornInv /\ EstablishFirst /\ SocketInv /\ EntryInv /\ [Next]_vars => UnbornInv'
<1> SUFFICES ASSUME TypeOK, UnbornInv, EstablishFirst, SocketInv, EntryInv, [Next]_vars
             PROVE  UnbornInv'
  OBVIOUS
<1> USE Nobody
<1>a. total \in Nat /\ \A c \in Conns : c \in Nat
  BY ServerAssumption DEF TypeOK, CountType, Conns
<1>b. /\ connections \in [Fds -> Conns \cup {NoConn}]
      /\ storing \in [Conns -> {"no", "shutdown", "force"}]
      /\ st \in [Conns -> {"none", "Connecting", "Connected", "Disconnecting", "Disconnected"}]
      /\ fd \in [Conns -> Fds \cup {NoFd}]
      /\ ioQ \in [Conns -> Seq({"establish", "shutdown", "force", "destroy"})]
      /\ destroys \in [Conns -> Nat]
  BY DEF TypeOK, ConnType, CountType
<1>1. CASE MainDrops
  <2>1. PICK S \in SUBSET Held(connections) : Drops(S)
    BY <1>1 DEF MainDrops
  <2>2. \A c \in S : c <= total
    BY <2>1, DroppedAreBorn
  <2>3. \A c \in Conns : c > total => ioQ'[c] = ioQ[c] /\ destroys'[c] = destroys[c]
    BY <1>a, <2>1, <2>2 DEF Drops, QueueDestroy, CountDestroy
  <2>4. \A f \in Fds : connections'[f] <= total
    BY <1>a, <2>1 DEF Drops, UnbornInv, NoConn
  <2>5. \A c \in Conns : st[c] = "none" => storing'[c] = "no"
    BY <1>1 DEF MainDrops, Decides, UnbornInv
  <2>6. UNCHANGED <<st, fd, closing, total>>
    BY <1>1 DEF MainDrops
  <2> QED BY <2>3, <2>4, <2>5, <2>6 DEF UnbornInv
<1>2. CASE MainRests
  <2>1. \A c \in Conns : st[c] = "none" => storing'[c] = "no"
    BY <1>2 DEF MainRests, Decides, UnbornInv
  <2> QED BY <1>2, <2>1 DEF MainRests, UnbornInv
<1>3. CASE JoinSubLoops
  BY <1>a, <1>3 DEF JoinSubLoops, UnbornInv, NoConn
<1>4. ASSUME NEW f \in Fds, HandleNewConnection(f) PROVE UnbornInv'
  <2>1. total + 1 \in Conns /\ total' = total + 1
    BY <1>4, NewConnection
  <2>2. \A c \in Conns : c # total + 1 => /\ st'[c] = st[c] /\ fd'[c] = fd[c]
                                          /\ ioQ'[c] = ioQ[c]
    BY <1>4, <1>b, <2>1 DEF HandleNewConnection
  <2>3. st'[total + 1] = "Connecting" /\ UNCHANGED <<closing, destroys, storing>>
    BY <1>4, <1>b, <2>1 DEF HandleNewConnection
  <2>4. \A g \in Fds : connections'[g] \in {connections[g], total + 1}
    BY <1>4, <1>b DEF HandleNewConnection
  <2>5. \A g \in Fds : connections[g] \in Nat /\ connections[g] <= total
    BY <1>b DEF UnbornInv
  <2>6. \A g \in Fds : connections'[g] <= total + 1
    BY <1>a, <2>4, <2>5
  <2>7. ASSUME NEW c \in Conns, c > total'
        PROVE  /\ st'[c] = "none" /\ fd'[c] = NoFd /\ ioQ'[c] = <<>>
               /\ destroys'[c] = 0 /\ c \notin closing'
    <3>1. c > total /\ c # total + 1
      BY <1>a, <2>1, <2>7
    <3> QED BY <2>2, <2>3, <3>1 DEF UnbornInv
  <2>8. ASSUME NEW c \in Conns, st'[c] = "none" PROVE c > total' /\ storing'[c] = "no"
    <3>1. c # total + 1 /\ st[c] = "none"
      BY <2>2, <2>3, <2>8
    <3>2. c > total /\ storing[c] = "no"
      BY <3>1 DEF UnbornInv
    <3> QED BY <1>a, <2>1, <2>3, <3>1, <3>2
  <2> QED BY <2>1, <2>6, <2>7, <2>8 DEF UnbornInv
<1>5. ASSUME NEW c \in Conns, StoreState(c) PROVE UnbornInv'
  <2>1. st[c] # "none" /\ c <= total
    BY <1>5, <1>a DEF StoreState, UnbornInv
  <2> QED BY <1>5, <1>a, <1>b, <2>1 DEF StoreState, UnbornInv
<1>6. ASSUME NEW c \in Conns, IoStep(c) PROVE UnbornInv'
  <2>1. IoEffect(c)
    BY <1>6, IoEffects
  <2> QED BY <1>a, <2>1 DEF IoEffect, UnbornInv
<1> QED BY <1>1, <1>2, <1>3, <1>4, <1>5, <1>6, ConnSteps

\* ConnectEstablished stays in front of everything else that is queued.
LEMMA EstablishStep ==
  TypeOK /\ UnbornInv /\ EstablishFirst /\ SocketInv /\ EntryInv /\ [Next]_vars
    => EstablishFirst'
<1> SUFFICES ASSUME TypeOK, UnbornInv, EstablishFirst, SocketInv, EntryInv, [Next]_vars
             PROVE  EstablishFirst'
  OBVIOUS
<1> USE Nobody
<1> DEFINE Fs == {"establish", "shutdown", "force", "destroy"}
           InFront(q, s) == \A i \in 1..Len(q) : q[i] = "establish" <=> i = 1 /\ s = "Connecting"
           Ready(c) == /\ InFront(ioQ[c], st[c])
                       /\ st[c] = "Connecting" =>
                            storing[c] = "no" /\ (life = "gone" \/ ioQ[c] # <<>>)
<1>a. /\ storing \in [Conns -> {"no", "shutdown", "force"}]
      /\ st \in [Conns -> {"none", "Connecting", "Connected", "Disconnecting", "Disconnected"}]
      /\ fd \in [Conns -> Fds \cup {NoFd}]
      /\ ioQ \in [Conns -> Seq(Fs)]
  BY DEF TypeOK, ConnType
<1>b. \A c \in Conns : Ready(c)
  BY DEF EstablishFirst
<1>c. SUFFICES ASSUME NEW d \in Conns PROVE Ready(d)'
  BY DEF EstablishFirst
<1>d. ASSUME NEW q \in Seq(Fs), NEW s, NEW x \in Fs \ {"establish"}, InFront(q, s),
             s = "Connecting" => q # <<>>
      PROVE  InFront(Append(q, x), s) /\ Append(q, x) # <<>>
  <2>1. Len(Append(q, x)) = Len(q) + 1 /\ Len(q) \in Nat /\ Append(q, x)[Len(q) + 1] = x
    OBVIOUS
  <2>2. \A i \in 1..Len(q) : Append(q, x)[i] = q[i]
    OBVIOUS
  <2>3. s = "Connecting" => Len(q) + 1 # 1
    BY <1>d
  <2>4. ASSUME NEW i \in 1..(Len(q) + 1)
        PROVE  Append(q, x)[i] = "establish" <=> i = 1 /\ s = "Connecting"
    <3>1. CASE i \in 1..Len(q)
      BY <1>d, <2>2, <3>1
    <3>2. CASE i = Len(q) + 1
      BY <2>1, <2>3, <3>2
    <3> QED BY <2>1, <3>1, <3>2
  <2>5. Append(q, x) # <<>>
    OBVIOUS
  <2> QED BY <2>1, <2>4, <2>5
<1>e. ASSUME NEW q \in Seq(Fs), NEW s, NEW s2, InFront(q, s), q # <<>>, s2 # "Connecting"
      PROVE  InFront(Tail(q), s2)
  <2>1. \A i \in 1..Len(Tail(q)) : i + 1 \in 1..Len(q) /\ i + 1 # 1 /\ Tail(q)[i] = q[i + 1]
    BY <1>e
  <2> QED BY <1>e, <2>1
<1>1. CASE MainDrops
  <2>1. PICK S \in SUBSET Held(connections) : Drops(S)
    BY <1>1 DEF MainDrops
  <2>2. ioQ'[d] \in {ioQ[d], Append(ioQ[d], "destroy")} /\ UNCHANGED <<st, life>>
    BY <1>1, <2>1 DEF MainDrops, Drops, QueueDestroy
  <2>3. InFront(ioQ'[d], st[d]) /\ (st[d] = "Connecting" => ioQ'[d] # <<>>)
    <3>1. /\ ioQ[d] \in Seq(Fs) /\ InFront(ioQ[d], st[d])
          /\ st[d] = "Connecting" => ioQ[d] # <<>>
      BY <1>1, <1>a, <1>b DEF MainDrops
    <3>2. /\ InFront(Append(ioQ[d], "destroy"), st[d])
          /\ Append(ioQ[d], "destroy") # <<>>
      <4>1. "destroy" \in Fs \ {"establish"}
        OBVIOUS
      <4> HIDE DEF Fs, InFront
      <4> QED BY <1>d, <3>1, <4>1
    <3>3. CASE ioQ'[d] = ioQ[d]
      BY <3>1, <3>3
    <3>4. CASE ioQ'[d] = Append(ioQ[d], "destroy")
      BY <3>2, <3>4
    <3> QED BY <2>2, <3>3, <3>4
  <2>4. st[d] = "Connecting" => storing'[d] = "no"
    BY <1>1, <1>b DEF MainDrops, Decides
  <2> QED BY <2>2, <2>3, <2>4
<1>2. CASE MainRests
  <2>1. st[d] = "Connecting" => storing'[d] = "no"
    BY <1>2, <1>b DEF MainRests, Decides
  <2>2. UNCHANGED <<st, ioQ>> /\ (life = "gone" => life' = "gone")
    BY <1>2 DEF MainRests
  <2> QED BY <1>b, <2>1, <2>2, ZenonT(60)
<1>3. CASE JoinSubLoops
  <2>1. ioQ'[d] = <<>> /\ life' = "gone" /\ UNCHANGED <<st, storing>>
    BY <1>3 DEF JoinSubLoops
  <2> QED BY <1>b, <2>1
<1>4. ASSUME NEW f \in Fds, HandleNewConnection(f) PROVE Ready(d)'
  <2>1. total + 1 \in Conns /\ storing[total + 1] = "no"
    BY <1>4, NewConnection
  <2>2. UNCHANGED <<storing, life>>
    BY <1>4 DEF HandleNewConnection
  <2>3. CASE d = total + 1
    <3>1. st'[d] = "Connecting" /\ ioQ'[d] = <<"establish">>
      BY <1>4, <1>a, <2>1, <2>3 DEF HandleNewConnection
    <3> QED BY <2>1, <2>2, <2>3, <3>1
  <2>4. CASE d # total + 1
    BY <1>4, <1>a, <1>b, <2>1, <2>2, <2>4 DEF HandleNewConnection
  <2> QED BY <2>3, <2>4
<1>5. ASSUME NEW c \in Conns, StoreState(c) PROVE Ready(d)'
  <2>1. CASE d = c
    <3>1. st[d] # "Connecting" /\ storing[d] \in Fs \ {"establish"}
      BY <1>5, <1>a, <1>b, <2>1 DEF StoreState
    <3>2. ioQ'[d] = Append(ioQ[d], storing[d]) /\ st'[d] = "Disconnecting"
      BY <1>5, <1>a, <2>1 DEF StoreState
    <3>3. InFront(Append(ioQ[d], storing[d]), st[d])
      BY <1>a, <1>b, <1>d, <3>1
    <3> QED BY <3>1, <3>2, <3>3
  <2>2. CASE d # c
    BY <1>5, <1>a, <1>b, <2>2 DEF StoreState
  <2> QED BY <2>1, <2>2
<1>6. ASSUME NEW c \in Conns, IoStep(c) PROVE Ready(d)'
  <2>1. IoEffect(c)
    BY <1>6, IoEffects
  <2>2. UNCHANGED <<storing, life>>
    BY <2>1 DEF IoEffect
  <2>3. CASE d # c
    BY <1>b, <2>1, <2>2, <2>3 DEF IoEffect
  <2>4. CASE d = c /\ st[d] = "Connecting" /\ st'[d] # "Connecting"
    <3>1. ioQ[d] # <<>> /\ ioQ'[d] = Tail(ioQ[d])
      BY <2>1, <2>4 DEF IoEffect
    <3>2. InFront(Tail(ioQ[d]), st'[d])
      BY <1>a, <1>b, <1>e, <2>4, <3>1
    <3> QED BY <2>4, <3>1, <3>2
  <2>5. CASE d = c /\ ~(st[d] = "Connecting" /\ st'[d] # "Connecting")
    <3>1. /\ st'[d] = "Connecting" <=> st[d] = "Connecting"
          /\ \/ ioQ'[d] = ioQ[d]
             \/ st[d] # "Connecting" /\ ioQ[d] # <<>> /\ ioQ'[d] = Tail(ioQ[d])
      BY <2>1, <2>5 DEF IoEffect
    <3>2. CASE ioQ'[d] = ioQ[d]
      BY <1>b, <2>2, <3>1, <3>2
    <3>3. CASE st[d] # "Connecting" /\ ioQ[d] # <<>> /\ ioQ'[d] = Tail(ioQ[d])
      <4>1. InFront(Tail(ioQ[d]), st'[d])
        BY <1>a, <1>b, <1>e, <3>1, <3>3
      <4> QED BY <3>1, <3>3, <4>1
    <3> QED BY <3>1, <3>2, <3>3
  <2> QED BY <2>3, <2>4, <2>5
<1> QED BY <1>1, <1>2, <1>3, <1>4, <1>5, <1>6, ConnSteps

\* Two connections never have the same open socket, and a closed one has none.
LEMMA SocketStep ==
  TypeOK /\ UnbornInv /\ EstablishFirst /\ SocketInv /\ EntryInv /\ [Next]_vars => SocketInv'
<1> SUFFICES ASSUME TypeOK, UnbornInv, EstablishFirst, SocketInv, EntryInv, [Next]_vars
             PROVE  SocketInv'
  OBVIOUS
<1> USE Nobody
<1>a. /\ st \in [Conns -> {"none", "Connecting", "Connected", "Disconnecting", "Disconnected"}]
      /\ fd \in [Conns -> Fds \cup {NoFd}]
  BY DEF TypeOK, ConnType
<1>1. CASE MainDrops
  BY <1>1 DEF MainDrops, SocketInv
<1>2. CASE MainRests
  BY <1>2 DEF MainRests, SocketInv
<1>3. CASE JoinSubLoops
  <2>1. /\ \A c \in Conns : fd'[c] \in {fd[c], NoFd}
        /\ UNCHANGED <<st, closing, exited>>
    BY <1>3 DEF JoinSubLoops
  <2> QED BY <2>1 DEF SocketInv
<1>4. ASSUME NEW f \in Fds, HandleNewConnection(f) PROVE SocketInv'
  <2>1. total + 1 \in Conns /\ \A d \in Conns : fd[d] # f
    BY <1>4, NewConnection
  <2>2. /\ st' = [st EXCEPT ![total + 1] = "Connecting"]
        /\ fd' = [fd EXCEPT ![total + 1] = f]
        /\ UNCHANGED <<closing, exited>>
    BY <1>4 DEF HandleNewConnection
  <2> QED BY <1>a, <2>1, <2>2 DEF SocketInv
<1>5. ASSUME NEW c \in Conns, StoreState(c) PROVE SocketInv'
  BY <1>5, <1>a DEF StoreState, SocketInv
<1>6. ASSUME NEW c \in Conns, IoStep(c) PROVE SocketInv'
  <2>1. IoEffect(c)
    BY <1>6, IoEffects
  <2>2. closing \in SUBSET Conns /\ closing' \in SUBSET Conns
    BY <1>6 DEF TypeOK, ConnType, IoStep, HandleClose, UserForceClose, IoFunctor, SocketClose,
                ConnectEstablished, ShutdownInLoop, ForceCloseInLoop, ConnectDestroyed, BeginClose
  <2>3. \A d \in Conns : fd'[d] \in {fd[d], NoFd}
    BY <2>1 DEF IoEffect
  <2>4. \A d \in Conns : st'[d] = "Disconnected" /\ d \notin closing' => fd'[d] = NoFd
    BY <2>1 DEF IoEffect, SocketInv
  <2>5. closing' \cap exited' = {}
    BY <2>1, <2>2 DEF IoEffect, SocketInv
  <2> QED BY <2>3, <2>4, <2>5 DEF SocketInv
<1> QED BY <1>1, <1>2, <1>3, <1>4, <1>5, <1>6, ConnSteps

\* m_connections and the sockets agree, and nothing is destroyed twice.
LEMMA EntryStep ==
  TypeOK /\ UnbornInv /\ EstablishFirst /\ SocketInv /\ EntryInv /\ [Next]_vars => EntryInv'
<1> SUFFICES ASSUME TypeOK, UnbornInv, EstablishFirst, SocketInv, EntryInv, [Next]_vars
             PROVE  EntryInv'
  OBVIOUS
<1> USE Nobody
<1>a. /\ connections \in [Fds -> Conns \cup {NoConn}]
      /\ fd \in [Conns -> Fds \cup {NoFd}]
      /\ destroys \in [Conns -> Nat]
  BY DEF TypeOK, ConnType, CountType
<1>1. CASE MainDrops
  <2>1. PICK S \in SUBSET Held(connections) : Drops(S)
    BY <1>1 DEF MainDrops
  <2>2. /\ \A f \in Fds : connections'[f] = IF connections[f] \in S THEN NoConn ELSE connections[f]
        /\ \A c \in Conns : destroys'[c] = IF c \in S THEN destroys[c] + 1 ELSE destroys[c]
    BY <2>1 DEF Drops, CountDestroy
  <2>3. \A c \in S : c \in Conns /\ destroys[c] = 0
    <3>1. \A c \in S : c \in Conns /\ \E f \in Fds : connections[f] = c
      BY DroppedAreBorn
    <3>2. \A f \in Fds : \A c \in Conns : connections[f] = c => destroys[c] = 0
      BY DEF EntryInv
    <3> QED BY <3>1, <3>2
  <2>4. UNCHANGED fd
    BY <1>1 DEF MainDrops
  <2>5. \A c \in Conns : fd'[c] # NoFd => connections'[fd'[c]] \in {c, NoConn}
    BY <1>a, <2>2, <2>4 DEF EntryInv
  <2>6. \A f \in Fds : \A c \in Conns :
          connections'[f] = c => fd'[c] \in {f, NoFd} /\ destroys'[c] = 0
    BY <1>a, <2>2, <2>4 DEF EntryInv
  <2>7. \A c \in Conns : destroys'[c] \in {0, 1}
    BY <1>a, <2>2, <2>3 DEF EntryInv
  <2> QED BY <2>5, <2>6, <2>7 DEF EntryInv
<1>2. CASE MainRests
  BY <1>2 DEF MainRests, EntryInv
<1>3. CASE JoinSubLoops
  <2>1. /\ \A f \in Fds : connections'[f] = NoConn
        /\ \A c \in Conns : fd'[c] \in {fd[c], NoFd}
        /\ UNCHANGED destroys
    BY <1>3 DEF JoinSubLoops
  <2> QED BY <1>a, <2>1 DEF EntryInv
<1>4. ASSUME NEW f \in Fds, HandleNewConnection(f) PROVE EntryInv'
  <2>1. /\ total + 1 \in Conns /\ destroys[total + 1] = 0 /\ \A d \in Conns : fd[d] # f
        /\ \A g \in Fds : connections[g] # total + 1
    BY <1>4, NewConnection
  <2>2. /\ connections' = [connections EXCEPT ![f] = total + 1]
        /\ fd' = [fd EXCEPT ![total + 1] = f]
        /\ UNCHANGED destroys
    BY <1>4 DEF HandleNewConnection
  <2>3. /\ connections'[f] = total + 1 /\ fd'[total + 1] = f
        /\ \A g \in Fds \ {f} : connections'[g] = connections[g]
        /\ \A d \in Conns \ {total + 1} : fd'[d] = fd[d]
    BY <1>a, <2>1, <2>2
  <2>4. \A c \in Conns : fd'[c] # NoFd => connections'[fd'[c]] \in {c, NoConn}
    BY <1>a, <2>1, <2>3 DEF EntryInv
  <2>5. \A g \in Fds : \A c \in Conns :
          connections'[g] = c => fd'[c] \in {g, NoFd} /\ destroys'[c] = 0
    <3> SUFFICES ASSUME NEW g \in Fds, NEW c \in Conns, connections'[g] = c
                 PROVE  fd'[c] \in {g, NoFd} /\ destroys'[c] = 0
      OBVIOUS
    <3>1. CASE g = f
      BY <2>1, <2>2, <2>3, <3>1
    <3>2. CASE g # f
      BY <2>1, <2>2, <2>3, <3>2 DEF EntryInv
    <3> QED BY <3>1, <3>2
  <2> QED BY <2>2, <2>4, <2>5 DEF EntryInv
<1>5. ASSUME NEW c \in Conns, StoreState(c) PROVE EntryInv'
  BY <1>5 DEF StoreState, EntryInv
<1>6. ASSUME NEW c \in Conns, IoStep(c) PROVE EntryInv'
  <2>1. IoEffect(c)
    BY <1>6, IoEffects
  <2>2. (\A d \in Conns : fd'[d] \in {fd[d], NoFd}) /\ UNCHANGED <<connections, destroys>>
    BY <2>1 DEF IoEffect
  <2> QED BY <1>a, <2>2 DEF EntryInv
<1> QED BY <1>1, <1>2, <1>3, <1>4, <1>5, <1>6, ConnSteps

\* A queued ConnectDestroyed survives whatever is queued behind it, and every
\* functor that runs before it.
LEMMA DestroyStays ==
  ASSUME NEW S, NEW q \in Seq(S), \E i \in 1..Len(q) : q[i] = "destroy"
  PROVE  /\ \A x \in S : \E i \in 1..Len(Append(q, x)) : Append(q, x)[i] = "destroy"
         /\ Head(q) # "destroy" => \E i \in 1..Len(Tail(q)) : Tail(q)[i] = "destroy"
<1>1. PICK k \in 1..Len(q) : q[k] = "destroy"
  OBVIOUS
<1>2. ASSUME NEW x \in S PROVE k \in 1..Len(Append(q, x)) /\ Append(q, x)[k] = "destroy"
  BY <1>1
<1>3. ASSUME Head(q) # "destroy" PROVE k - 1 \in 1..Len(Tail(q)) /\ Tail(q)[k - 1] = "destroy"
  <2>1. q # <<>> /\ Head(q) = q[1]
    BY <1>1
  <2>2. k # 1
    BY <1>1, <1>3, <2>1
  <2>3. Len(Tail(q)) = Len(q) - 1 /\ k - 1 \in 1..(Len(q) - 1)
    BY <1>1, <2>1, <2>2
  <2>4. \A j \in 1..(Len(q) - 1) : Tail(q)[j] = q[j + 1]
    BY <2>1
  <2> QED BY <1>1, <2>3, <2>4
<1> QED BY <1>2, <1>3

\* No socket is forgotten, whatever is dropped, closed and reused meanwhile.
LEMMA TrackedStep ==
  TypeOK /\ UnbornInv /\ EstablishFirst /\ SocketInv /\ EntryInv /\ OpenIsTracked /\ [Next]_vars
    => OpenIsTracked'
<1> SUFFICES ASSUME TypeOK, UnbornInv, EstablishFirst, SocketInv, EntryInv, OpenIsTracked,
                    [Next]_vars, NEW d \in Conns, fd'[d] # NoFd
             PROVE  connections'[fd'[d]] = d \/ d \in closing' \/ Destroying(d)'
  BY DEF OpenIsTracked
<1> USE Nobody
<1> DEFINE Fs == {"establish", "shutdown", "force", "destroy"}
<1>a. /\ connections \in [Fds -> Conns \cup {NoConn}]
      /\ fd \in [Conns -> Fds \cup {NoFd}]
      /\ ioQ \in [Conns -> Seq(Fs)] /\ ioQ[d] \in Seq(Fs)
  BY DEF TypeOK, ConnType
<1>b. fd[d] # NoFd => fd[d] \in Fds /\ (connections[fd[d]] = d \/ d \in closing \/ Destroying(d))
  BY <1>a DEF OpenIsTracked
<1>c. Destroying(d) => /\ \A x \in Fs : \E i \in 1..Len(Append(ioQ[d], x)) :
                                          Append(ioQ[d], x)[i] = "destroy"
                       /\ Head(ioQ[d]) # "destroy" =>
                            \E i \in 1..Len(Tail(ioQ[d])) : Tail(ioQ[d])[i] = "destroy"
  <2> HIDE DEF Fs
  <2> QED BY <1>a, DestroyStays DEF Destroying
<1>1. CASE MainDrops
  <2>1. PICK S \in SUBSET Held(connections) : Drops(S)
    BY <1>1 DEF MainDrops
  <2>2. UNCHANGED <<fd, closing>>
    BY <1>1 DEF MainDrops
  <2>3. /\ \A f \in Fds : connections'[f] = IF connections[f] \in S THEN NoConn ELSE connections[f]
        /\ ioQ'[d] = IF d \in S THEN Append(ioQ[d], "destroy") ELSE ioQ[d]
    BY <2>1 DEF Drops, QueueDestroy
  <2>4. CASE d \in S
    <3>1. ioQ'[d] = Append(ioQ[d], "destroy")
      BY <2>3, <2>4
    <3>2. Len(ioQ[d]) + 1 \in 1..Len(ioQ'[d]) /\ ioQ'[d][Len(ioQ[d]) + 1] = "destroy"
      BY <1>a, <3>1
    <3> QED BY <3>2 DEF Destroying
  <2>5. CASE d \notin S
    <3>1. ioQ'[d] = ioQ[d]
      BY <2>3, <2>5
    <3>2. connections[fd[d]] = d => connections'[fd[d]] = d
      BY <1>b, <2>2, <2>3, <2>5
    <3> QED BY <1>b, <2>2, <3>1, <3>2 DEF Destroying
  <2> QED BY <2>4, <2>5
<1>2. CASE MainRests
  BY <1>2, <1>b DEF MainRests, Destroying
<1>3. CASE JoinSubLoops
  <2>1. closing = {}
    BY <1>3 DEF JoinSubLoops, SocketInv, TypeOK, ConnType
  <2>2. fd[d] # NoFd /\ d \notin Held(connections) /\ ioQ[d] = <<>>
    BY <1>3 DEF JoinSubLoops
  <2>3. connections[fd[d]] # d
    BY <1>b, <2>2 DEF Held
  <2>4. ~Destroying(d)
    BY <2>2 DEF Destroying
  <2> QED BY <1>b, <2>1, <2>2, <2>3, <2>4
<1>4. ASSUME NEW f \in Fds, HandleNewConnection(f)
      PROVE  connections'[fd'[d]] = d \/ d \in closing' \/ Destroying(d)'
  <2>1. total + 1 \in Conns /\ \A e \in Conns : fd[e] # f
    BY <1>4, NewConnection
  <2>2. CASE d = total + 1
    BY <1>4, <1>a, <2>1, <2>2 DEF HandleNewConnection
  <2>3. CASE d # total + 1
    <3>1. fd'[d] = fd[d] /\ ioQ'[d] = ioQ[d] /\ UNCHANGED closing
      BY <1>4, <1>a, <2>3 DEF HandleNewConnection
    <3>2. fd[d] \in Fds /\ connections'[fd[d]] = connections[fd[d]]
      BY <1>4, <1>a, <1>b, <2>1, <3>1 DEF HandleNewConnection
    <3> QED BY <1>b, <3>1, <3>2 DEF Destroying
  <2> QED BY <2>2, <2>3
<1>5. ASSUME NEW c \in Conns, StoreState(c)
      PROVE  connections'[fd'[d]] = d \/ d \in closing' \/ Destroying(d)'
  <2>1. UNCHANGED <<connections, fd, closing>>
    BY <1>5 DEF StoreState
  <2>2. PICK x \in Fs : ioQ'[d] = Append(ioQ[d], x) \/ ioQ'[d] = ioQ[d]
    BY <1>5, <1>a DEF StoreState, TypeOK, ConnType
  <2>3. Destroying(d) => Destroying(d)'
    BY <1>c, <2>2 DEF Destroying
  <2> QED BY <1>b, <2>1, <2>3
<1>6. ASSUME NEW c \in Conns, IoStep(c)
      PROVE  connections'[fd'[d]] = d \/ d \in closing' \/ Destroying(d)'
  <2>1. IoEffect(c)
    BY <1>6, IoEffects
  <2>2. /\ fd'[d] = fd[d] /\ UNCHANGED connections
        /\ d \in closing => d \in closing'
        /\ \/ ioQ'[d] = ioQ[d]
           \/ Head(ioQ[d]) # "destroy" /\ ioQ'[d] = Tail(ioQ[d])
    BY <2>1 DEF IoEffect
  <2>3. Destroying(d) => Destroying(d)'
    BY <1>c, <2>2 DEF Destroying
  <2> QED BY <1>b, <2>2, <2>3
<1> QED BY <1>1, <1>2, <1>3, <1>4, <1>5, <1>6, ConnSteps

-----------------------------------------------------------------------------
(* The flags and the counters.                                             *)

\* FinalizeGracefulStop ends the stop only on an empty map.
LEMMA FinalizeFlags ==
  ASSUME ConnType, NEW force \in BOOLEAN, force \/ Empty(connections),
         FinalizeGracefulStop(force, connections, ioQ, {})
  PROVE  \/ Complete /\ Empty(connections')
         \/ UNCHANGED <<started, stopping, waiting, completed>>
<1>1. CASE force
  BY <1>1 DEF FinalizeGracefulStop
<1>2. CASE ~force
  <2>1. connections' = connections /\ Complete
    BY <1>2, FinalizeEmpty DEF ConnType
  <2> QED BY <1>2, <2>1 DEF Empty, Held
<1> QED BY <1>1, <1>2

\* A map that only loses entries stays empty.
LEMMA EmptyStays ==
  ASSUME ConnType, NEW S, Drops(S), Empty(connections) PROVE Empty(connections')
<1>1. \A f \in Fds : connections[f] = NoConn
  BY DEF Empty, Held
<1>2. \A f \in Fds : connections'[f] = NoConn
  BY <1>1 DEF Drops
<1> QED BY <1>2 DEF Empty, Held

\* The flags agree with the acceptor, the destructor and m_connections.
LEMMA FlagStep ==
  TypeOK /\ FlagInv /\ UnbornInv /\ EstablishFirst /\ SocketInv /\ EntryInv /\ [Next]_vars => FlagInv'
<1> SUFFICES ASSUME TypeOK, FlagInv, UnbornInv, EstablishFirst, SocketInv, EntryInv, [Next]_vars
             PROVE  FlagInv'
  OBVIOUS
<1>a. ServerType /\ ConnType /\ CountType
  BY DEF TypeOK
<1>b. Empty(connections) /\ UNCHANGED connections => Empty(connections')
  BY DEF Empty, Held
<1>1. CASE Start
  BY <1>1, <1>b DEF Start, Listen, MainIdle, FlagInv
<1>2. CASE StopGracefully
  BY <1>2, <1>b DEF StopGracefully, StopListening, FlagInv
<1>3. CASE StopAgain \/ QuitSubLoops \/ UNCHANGED vars
  BY <1>3, <1>b DEF StopAgain, QuitSubLoops, FlagInv
<1>4. CASE ShutdownCheck \/ ShutdownDeadline
  <2>1. UNCHANGED <<listening, life>> /\ stopping
    BY <1>4 DEF ShutdownCheck, ShutdownDeadline
  <2>2. CASE UNCHANGED <<connections, started, stopping>>
    BY <1>b, <2>1, <2>2 DEF FlagInv
  <2>3. ASSUME NEW force \in BOOLEAN, force \/ Empty(connections),
               FinalizeGracefulStop(force, connections, ioQ, {})
        PROVE  FlagInv'
    <3>1. \E S \in SUBSET Held(connections) : Drops(S)
      BY <1>a, <2>3, FinalizeDrops
    <3>2. Empty(connections) => Empty(connections')
      BY <1>a, <3>1, EmptyStays
    <3>3. CASE Complete /\ Empty(connections')
      BY <2>1, <3>3 DEF Complete, FlagInv
    <3>4. CASE UNCHANGED <<started, stopping>>
      BY <2>1, <3>2, <3>4 DEF FlagInv
    <3> QED BY <1>a, <2>3, <3>3, <3>4, FinalizeFlags
  <2> QED BY <1>4, <2>2, <2>3 DEF ShutdownCheck, ShutdownDeadline
<1>5. CASE HandleRemoveConnection
  <2>1. UNCHANGED life
    BY <1>5 DEF HandleRemoveConnection
  <2>2. CASE UNCHANGED <<serverVars, connections>>
    BY <1>b, <2>1, <2>2 DEF FlagInv
  <2>3. ASSUME NEW c, Drops({c}), UNCHANGED listening,
               \/ Complete /\ stopping /\ Empty(connections')
               \/ UNCHANGED <<started, stopping>>
        PROVE  FlagInv'
    <3>1. Empty(connections) => Empty(connections')
      BY <1>a, <2>3, EmptyStays
    <3> QED BY <2>1, <2>3, <3>1 DEF Complete, FlagInv
  <2> QED BY <1>5, <2>2, <2>3, RemoveDrops
<1>6. CASE Destroy
  BY <1>6, <1>b DEF Destroy, StopListening, FlagInv
<1>7. ASSUME NEW c \in Conns, LeaveLoop(c) PROVE FlagInv'
  BY <1>7, <1>b DEF LeaveLoop, FlagInv
<1>8. CASE JoinSubLoops
  <2>1. Empty(connections')
    BY <1>8 DEF JoinSubLoops, Empty, Held
  <2> QED BY <1>8, <2>1 DEF JoinSubLoops, FlagInv
<1>9. ASSUME NEW f \in Fds, HandleNewConnection(f) PROVE FlagInv'
  BY <1>9 DEF HandleNewConnection, HandleAccept, FlagInv
<1>10. ASSUME NEW S \in SUBSET Conns, ScanIdleConnections(S) PROVE FlagInv'
  BY <1>10, <1>b DEF ScanIdleConnections, FlagInv
<1>11. ASSUME NEW c \in Conns, StoreState(c) \/ IoStep(c) PROVE FlagInv'
  <2>1. UNCHANGED <<serverVars, connections, life>>
    BY <1>11 DEF StoreState, IoStep, HandleClose, UserForceClose, IoFunctor, SocketClose,
                 ConnectEstablished, ShutdownInLoop, ForceCloseInLoop, ConnectDestroyed,
                 RunFunctor, Unserved
  <2> QED BY <1>b, <2>1 DEF FlagInv
<1> QED BY <1>1, <1>2, <1>3, <1>4, <1>5, <1>6, <1>7, <1>8, <1>9, <1>10, <1>11
        DEF Next, MainTimers, Destructor, IoStep

\* The connections ConnectDestroyed was queued for.
Dropped == {c \in Conns : destroys[c] > 0}

\* There are at most MaxConns of them, and dropping more never loses one.
LEMMA DroppedGrow ==
  ASSUME CountType
  PROVE  /\ IsFiniteSet(Dropped) /\ Cardinality(Dropped) \in 0..MaxConns
         /\ \A S : destroys' = CountDestroy(S) => Dropped' = Dropped \cup (S \cap Conns)
<1>1. IsFiniteSet(Conns) /\ Cardinality(Conns) = MaxConns
  BY FS_Interval, ServerAssumption DEF Conns
<1>2. Dropped \in SUBSET Conns
  BY DEF Dropped
<1>3. IsFiniteSet(Dropped) /\ Cardinality(Dropped) <= MaxConns
  BY <1>1, <1>2, FS_Subset
<1>4. Cardinality(Dropped) \in 0..MaxConns
  BY <1>3, FS_CardinalityType, ServerAssumption
<1>5. ASSUME NEW S, destroys' = CountDestroy(S) PROVE Dropped' = Dropped \cup (S \cap Conns)
  <2>1. \A c \in Conns : destroys[c] \in Nat /\ destroys[c] + 1 > 0
    BY DEF CountType
  <2>2. \A c \in Conns : destroys'[c] = IF c \in S THEN destroys[c] + 1 ELSE destroys[c]
    BY <1>5 DEF CountDestroy
  <2>3. \A c \in Conns : destroys'[c] > 0 <=> destroys[c] > 0 \/ c \in S
    BY <2>1, <2>2
  <2> QED BY <2>3 DEF Dropped
<1> QED BY <1>3, <1>4, <1>5

\* What a step may do to the counters: an end of a stop uses its callback up, a
\* removal is the first time its connection is destroyed.
Completes ==
  \/ UNCHANGED <<stops, completed, waiting>>
  \/ UNCHANGED stops /\ Complete
  \/ stops' = stops + 1 /\ completed' = completed + 1 /\ UNCHANGED waiting
  \/ stops' = stops + 1 /\ completed' = completed /\ waiting' = TRUE

Removes ==
  \/ UNCHANGED <<closed, destroys>>
  \/ UNCHANGED closed /\ \E S \in SUBSET Held(connections) : destroys' = CountDestroy(S)
  \/ closed' = closed + 1 /\ \E c \in Conns : destroys[c] = 0 /\ destroys' = CountDestroy({c})

\* How the counters of stops, completions and removals move.
LEMMA CountSteps ==
  ASSUME TypeOK, EntryInv, [Next]_vars
  PROVE  Completes /\ Removes /\ (UNCHANGED stops \/ (stops < MaxStops /\ stops' = stops + 1))
<1>a. ServerType /\ ConnType /\ CountType
  BY DEF TypeOK
<1>b. UNCHANGED <<stops, completed, waiting>> => Completes
  BY Zenon DEF Completes
<1>c. UNCHANGED <<closed, destroys>> => Removes
  BY Zenon DEF Removes
<1>1. CASE Start \/ QuitSubLoops \/ JoinSubLoops \/ Destroy \/ UNCHANGED vars
  BY <1>1, <1>b, <1>c DEF Start, QuitSubLoops, JoinSubLoops, Destroy
<1>2. CASE StopGracefully
  BY <1>2 DEF StopGracefully, Completes, Removes
<1>3. CASE StopAgain
  <2>1. stops < MaxStops /\ stops' = stops + 1 /\ UNCHANGED <<closed, destroys>>
    BY <1>3 DEF StopAgain
  <2>2. CASE started
    <3>1. completed' = completed + 0 /\ waiting' = TRUE
      BY <1>3, <2>2 DEF StopAgain
    <3>2. completed + 0 = completed
      BY <1>a DEF CountType
    <3> QED BY <2>1, <3>1, <3>2 DEF Completes, Removes
  <2>3. CASE ~started
    <3>1. completed' = completed + 1
      BY <1>3, <2>3 DEF StopAgain
    <3>2. waiting' = waiting
      BY <1>3, <1>a, <2>3, Zenon DEF StopAgain, ServerType
    <3> QED BY <2>1, <3>1, <3>2 DEF Completes, Removes
  <2> QED BY <2>2, <2>3
<1>4. CASE ShutdownCheck \/ ShutdownDeadline
  <2>1. UNCHANGED <<stops, closed>>
    BY <1>4 DEF ShutdownCheck, ShutdownDeadline
  <2>2. CASE UNCHANGED <<destroys, waiting, completed>>
    BY <1>b, <1>c, <2>1, <2>2
  <2>3. ASSUME NEW force \in BOOLEAN, force \/ Empty(connections),
               FinalizeGracefulStop(force, connections, ioQ, {})
        PROVE  Completes /\ Removes
    <3>1. \E S \in SUBSET Held(connections) : destroys' = CountDestroy(S)
      BY <1>a, <2>3, FinalizeDrops DEF Drops
    <3>2. Complete \/ UNCHANGED <<completed, waiting>>
      BY <1>a, <2>3, FinalizeFlags
    <3> QED BY <2>1, <3>1, <3>2 DEF Completes, Removes
  <2> QED BY <1>4, <2>1, <2>2, <2>3 DEF ShutdownCheck, ShutdownDeadline
<1>5. CASE HandleRemoveConnection
  <2>1. UNCHANGED stops
    BY <1>5 DEF HandleRemoveConnection
  <2>2. CASE UNCHANGED <<waiting, closed, completed, destroys>>
    BY <1>b, <1>c, <2>1, <2>2
  <2>3. ASSUME NEW c \in Held(connections), Drops({c}), closed' = closed + 1,
               Complete \/ UNCHANGED <<waiting, completed>>
        PROVE  Completes /\ Removes
    <3>1. c \in Conns /\ \E f \in Fds : connections[f] = c
      BY <1>a, Nobody DEF Held, ConnType
    <3>2. destroys[c] = 0
      BY <3>1 DEF EntryInv
    <3> QED BY <2>1, <2>3, <3>1, <3>2 DEF Drops, Completes, Removes
  <2> QED BY <1>5, <2>1, <2>2, <2>3, RemoveDrops
<1>6. ASSUME NEW c \in Conns, LeaveLoop(c) \/ StoreState(c) \/ IoStep(c)
      PROVE  UNCHANGED <<stops, completed, waiting, closed, destroys>>
  BY <1>6 DEF LeaveLoop, StoreState, IoStep, HandleClose, UserForceClose, IoFunctor, SocketClose,
              ConnectEstablished, ShutdownInLoop, ForceCloseInLoop, ConnectDestroyed,
              RunFunctor, Unserved
<1>7. ASSUME NEW f \in Fds, HandleNewConnection(f)
      PROVE  UNCHANGED <<stops, completed, waiting, closed, destroys>>
  BY <1>7 DEF HandleNewConnection
<1>8. ASSUME NEW S \in SUBSET Conns, ScanIdleConnections(S)
      PROVE  UNCHANGED <<stops, completed, waiting, closed, destroys>>
  BY <1>8 DEF ScanIdleConnections
<1>9. CASE UNCHANGED <<stops, completed, waiting, closed, destroys>>
  BY <1>b, <1>c, <1>9
<1> QED BY <1>1, <1>2, <1>3, <1>4, <1>5, <1>6, <1>7, <1>8, <1>9
        DEF Next, MainTimers, Destructor, IoStep

\* No stop completes twice, and no connection is counted as closed twice.
LEMMA CountStep ==
  TypeOK /\ CountInv /\ EntryInv /\ [Next]_vars => CountInv' /\ CountType'
<1> SUFFICES ASSUME TypeOK, CountInv, EntryInv, [Next]_vars PROVE CountInv' /\ CountType'
  OBVIOUS
<1>a. ServerType /\ ConnType /\ CountType
  BY DEF TypeOK
<1>b. Completes /\ Removes /\ (UNCHANGED stops \/ (stops < MaxStops /\ stops' = stops + 1))
  BY CountSteps
<1>c. /\ MaxStops \in Nat /\ MaxConns \in Nat /\ stops \in 0..MaxStops
      /\ completed \in Nat /\ closed \in Nat /\ waiting \in BOOLEAN
  BY <1>a, ServerAssumption DEF CountType, ServerType
<1>1. stops' \in 0..MaxStops
  BY <1>b, <1>c
<1>2. completed' \in Nat /\ completed' + (IF waiting' THEN 1 ELSE 0) <= stops'
  <2>1. CASE UNCHANGED <<stops, completed, waiting>>
    BY <1>c, <2>1 DEF CountInv
  <2>2. CASE UNCHANGED stops /\ Complete
    <3>1. CASE waiting
      <4>1. completed + 1 <= stops
        BY <3>1 DEF CountInv
      <4>2. completed' = completed + 1 /\ ~waiting' /\ stops' = stops
        BY <2>2, <3>1 DEF Complete
      <4> QED BY <1>c, <4>1, <4>2
    <3>2. CASE ~waiting
      <4>1. completed + 0 <= stops
        BY <3>2 DEF CountInv
      <4>2. completed' = completed + 0 /\ ~waiting' /\ stops' = stops
        BY <2>2, <3>2 DEF Complete
      <4> QED BY <1>c, <4>1, <4>2
    <3> QED BY <3>1, <3>2
  <2>3. CASE stops' = stops + 1 /\ completed' = completed + 1 /\ UNCHANGED waiting
    BY <1>c, <2>3 DEF CountInv
  <2>4. CASE stops' = stops + 1 /\ completed' = completed /\ waiting' = TRUE
    <3>1. completed <= stops
      BY <1>c DEF CountInv
    <3> QED BY <1>c, <2>4, <3>1
  <2> QED BY <1>b, <2>1, <2>2, <2>3, <2>4 DEF Completes
<1>3. completed' \in 0..MaxStops
  <2>0. completed' \in Nat /\ stops' \in Nat
    BY <1>1, <1>2, <1>c
  <2>1. completed' <= stops'
    <3>1. \A x, y \in Nat : \A b \in {0, 1} : x + b <= y => x <= y
      OBVIOUS
    <3>2. (IF waiting' THEN 1 ELSE 0) \in {0, 1}
      OBVIOUS
    <3> QED BY <1>2, <2>0, <3>1, <3>2
  <2> QED BY <1>1, <1>c, <2>0, <2>1
<1>4. destroys' \in [Conns -> Nat]
  BY <1>a, <1>b DEF Removes, CountDestroy, CountType
<1>5. closed <= Cardinality(Dropped)
  BY DEF CountInv, Dropped
<1>6. /\ IsFiniteSet(Dropped) /\ Cardinality(Dropped) \in 0..MaxConns
      /\ \A S : destroys' = CountDestroy(S) => Dropped' = Dropped \cup (S \cap Conns)
  BY <1>a, DroppedGrow
<1>7. IsFiniteSet(Dropped') /\ Cardinality(Dropped') \in 0..MaxConns
  <2>1. IsFiniteSet(Conns) /\ Cardinality(Conns) = MaxConns
    BY FS_Interval, ServerAssumption DEF Conns
  <2>2. Dropped' \in SUBSET Conns
    BY DEF Dropped
  <2>3. IsFiniteSet(Dropped') /\ Cardinality(Dropped') <= MaxConns
    BY <2>1, <2>2, FS_Subset
  <2> QED BY <1>c, <2>3, FS_CardinalityType
<1>8. closed' \in Nat /\ closed' <= Cardinality(Dropped')
  <2>1. CASE UNCHANGED <<closed, destroys>>
    BY <1>c, <1>5, <2>1 DEF Dropped
  <2>2. ASSUME UNCHANGED closed, NEW S, destroys' = CountDestroy(S)
        PROVE  closed' \in Nat /\ closed' <= Cardinality(Dropped')
    <3>1. Dropped \in SUBSET Dropped'
      BY <1>6, <2>2
    <3>2. Cardinality(Dropped) <= Cardinality(Dropped')
      BY <1>7, <3>1, FS_Subset
    <3> QED BY <1>c, <1>5, <1>6, <1>7, <2>2, <3>2
  <2>3. ASSUME closed' = closed + 1, NEW c \in Conns, destroys[c] = 0, destroys' = CountDestroy({c})
        PROVE  closed' \in Nat /\ closed' <= Cardinality(Dropped')
    <3>0. Dropped' = Dropped \cup ({c} \cap Conns)
      <4>1. \A S : destroys' = CountDestroy(S) => Dropped' = Dropped \cup (S \cap Conns)
        BY ONLY <1>6
      <4> QED BY ONLY <2>3, <4>1
    <3>1. Dropped' = Dropped \cup {c} /\ c \notin Dropped
      <4>1. c \notin Dropped
        BY <2>3 DEF Dropped
      <4> HIDE DEF Dropped
      <4> QED BY ONLY <2>3, <3>0, <4>1
    <3>2. Cardinality(Dropped') = Cardinality(Dropped) + 1
      BY <1>6, <3>1, FS_AddElement
    <3> QED BY <1>c, <1>5, <1>6, <2>3, <3>2
  <2> QED BY <1>b, <2>1, <2>2, <2>3 DEF Removes
<1>9. closed' \in 0..MaxConns
  BY <1>c, <1>7, <1>8
<1>10. total' \in 0..MaxConns
  <2>1. UNCHANGED total \/ (total < MaxConns /\ total' = total + 1)
    <3>1. ASSUME NEW f \in Fds, HandleNewConnection(f) PROVE total < MaxConns /\ total' = total + 1
      BY <3>1 DEF HandleNewConnection
    <3>2. ASSUME NEW c \in Conns, StoreState(c) \/ IoStep(c) PROVE UNCHANGED total
      BY <3>2 DEF StoreState, IoStep, HandleClose, UserForceClose, IoFunctor, SocketClose,
              ConnectEstablished, ShutdownInLoop, ForceCloseInLoop, ConnectDestroyed,
              RunFunctor, Unserved
    <3>3. CASE MainDrops \/ MainRests \/ JoinSubLoops
      BY <3>3 DEF MainDrops, MainRests, JoinSubLoops
    <3> QED BY <3>1, <3>2, <3>3, ConnSteps
  <2> QED BY <1>a, <1>c, <2>1 DEF CountType
<1> QED BY <1>1, <1>2, <1>3, <1>4, <1>8, <1>9, <1>10 DEF CountInv, CountType, Dropped

\* A step keeps the types of the flags and of what a connection consists of.
LEMMA TypeStep ==
  TypeOK /\ UnbornInv /\ EstablishFirst /\ SocketInv /\ EntryInv /\ [Next]_vars
    => ServerType' /\ ConnType' /\ LifeType'
<1> SUFFICES ASSUME TypeOK, UnbornInv, EstablishFirst, SocketInv, EntryInv, [Next]_vars
             PROVE  ServerType' /\ ConnType' /\ LifeType'
  OBVIOUS
<1> USE Nobody
<1> DEFINE Fs == {"establish", "shutdown", "force", "destroy"}
<1>a. ServerType /\ ConnType /\ LifeType /\ CountType
  BY DEF TypeOK
<1>b. /\ connections \in [Fds -> Conns \cup {NoConn}] /\ mainQ \in Seq(Conns)
      /\ storing \in [Conns -> {"no", "shutdown", "force"}]
      /\ st \in [Conns -> {"none", "Connecting", "Connected", "Disconnecting", "Disconnected"}]
      /\ fd \in [Conns -> Fds \cup {NoFd}] /\ ioQ \in [Conns -> Seq(Fs)]
      /\ closing \in SUBSET Conns
  BY <1>a DEF ConnType
<1>c. \A q \in Seq(Fs) : \A x \in Fs : Append(q, x) \in Seq(Fs)
  OBVIOUS
<1>d. \A q \in Seq(Fs) : q # <<>> => Tail(q) \in Seq(Fs)
  OBVIOUS
<1>e. \A c \in Conns : Append(mainQ, c) \in Seq(Conns)
  BY <1>b
<1>1. ServerType'
  <2>1. CASE Start \/ StopGracefully \/ StopAgain \/ Destroy \/ Destructor \/ UNCHANGED vars
    BY <1>a, <2>1, Zenon
       DEF ServerType, Start, Listen, StopGracefully, StopListening, ArmTimers, StopAgain,
           Destroy, Destructor, QuitSubLoops, LeaveLoop, JoinSubLoops
  <2>2. CASE MainTimers
    BY <1>a, <2>2, Zenon
       DEF ServerType, MainTimers, ShutdownCheck, ShutdownDeadline, FinalizeGracefulStop, Complete
  <2>3. CASE HandleRemoveConnection
    BY <1>a, <2>3, Zenon
       DEF ServerType, HandleRemoveConnection, FinalizeGracefulStop, Complete
  <2>4. ASSUME NEW f \in Fds, HandleNewConnection(f) PROVE UNCHANGED serverVars
    BY <2>4 DEF HandleNewConnection
  <2>5. ASSUME NEW S \in SUBSET Conns, ScanIdleConnections(S) PROVE UNCHANGED serverVars
    BY <2>5 DEF ScanIdleConnections
  <2>6. ASSUME NEW c \in Conns, StoreState(c) \/ IoStep(c) PROVE UNCHANGED serverVars
    BY <2>6 DEF StoreState, IoStep, HandleClose, UserForceClose, IoFunctor, SocketClose,
                ConnectEstablished, ShutdownInLoop, ForceCloseInLoop, ConnectDestroyed,
                RunFunctor, Unserved
  <2>7. CASE UNCHANGED serverVars
    BY <1>a, <2>7, Zenon DEF ServerType
  <2> QED BY <2>1, <2>2, <2>3, <2>4, <2>5, <2>6, <2>7 DEF Next, IoStep
<1>2. mainQ' \in Seq(Conns)
  <2>1. CASE HandleRemoveConnection
    <3>1. mainQ # <<>> /\ mainQ' = Tail(mainQ)
      BY <2>1 DEF HandleRemoveConnection
    <3> QED BY <1>b, <3>1
  <2>2. CASE Start \/ StopGracefully \/ StopAgain \/ MainTimers \/ Destroy \/ Destructor
               \/ UNCHANGED vars
    BY <1>b, <2>2
       DEF Start, StopGracefully, StopAgain, MainTimers, ShutdownCheck, ShutdownDeadline,
           Destroy, Destructor, QuitSubLoops, LeaveLoop, JoinSubLoops
  <2>3. ASSUME NEW f \in Fds, HandleNewConnection(f) PROVE UNCHANGED mainQ
    BY <2>3 DEF HandleNewConnection
  <2>4. ASSUME NEW S \in SUBSET Conns, ScanIdleConnections(S) PROVE UNCHANGED mainQ
    BY <2>4 DEF ScanIdleConnections
  <2>5. ASSUME NEW c \in Conns, StoreState(c) \/ IoStep(c)
        PROVE  mainQ' = mainQ \/ mainQ' = Append(mainQ, c)
    BY <2>5 DEF StoreState, IoStep, HandleClose, UserForceClose, IoFunctor, SocketClose,
                ConnectEstablished, ShutdownInLoop, ForceCloseInLoop, ConnectDestroyed,
                BeginClose, CloseNow
  <2> QED BY <1>b, <1>e, <2>1, <2>2, <2>3, <2>4, <2>5 DEF Next, IoStep
<1>3. ConnType' /\ LifeType'
  <2>1. CASE MainDrops
    <3>1. PICK S \in SUBSET Held(connections) : Drops(S)
      BY <2>1 DEF MainDrops
    <3>2. connections' \in [Fds -> Conns \cup {NoConn}]
      BY <1>b, <3>1 DEF Drops
    <3>3. ioQ' \in [Conns -> Seq(Fs)]
      BY <1>b, <1>c, <3>1 DEF Drops, QueueDestroy
    <3> QED BY <1>a, <1>2, <2>1, <3>2, <3>3 DEF MainDrops, Decides, ConnType, LifeType
  <2>2. CASE MainRests
    <3>1. ConnType'
      BY <1>a, <1>2, <2>2 DEF MainRests, Decides, ConnType
    <3>2. exited' \in SUBSET Conns
      BY <1>a, <2>2 DEF MainRests, LifeType
    <3>3. life' \in {"alive", "closing", "joining", "gone"}
      <4>1. ASSUME NEW c \in Conns, StoreState(c) \/ IoStep(c) PROVE UNCHANGED life
        BY <4>1 DEF StoreState, IoStep, HandleClose, UserForceClose, IoFunctor, SocketClose,
                ConnectEstablished, ShutdownInLoop, ForceCloseInLoop, ConnectDestroyed,
                RunFunctor, Unserved
      <4> QED BY <1>a, <4>1 DEF LifeType, Next, IoStep, Start, StopGracefully, StopAgain,
                 MainTimers, ShutdownCheck, ShutdownDeadline, HandleRemoveConnection, Destroy,
                 Destructor, QuitSubLoops, LeaveLoop, JoinSubLoops, HandleNewConnection,
                 ScanIdleConnections
    <3> QED BY <3>1, <3>2, <3>3 DEF LifeType
  <2>3. CASE JoinSubLoops
    BY <1>a, <1>2, <2>3 DEF JoinSubLoops, ConnType, LifeType
  <2>4. ASSUME NEW f \in Fds, HandleNewConnection(f) PROVE ConnType' /\ LifeType'
    <3>1. total + 1 \in Conns
      BY <2>4, NewConnection
    <3>2. <<"establish">> \in Seq(Fs)
      OBVIOUS
    <3> QED BY <1>a, <1>2, <2>4, <3>1, <3>2 DEF HandleNewConnection, ConnType, LifeType
  <2>5. ASSUME NEW c \in Conns, StoreState(c) PROVE ConnType' /\ LifeType'
    <3>1. Append(ioQ[c], storing[c]) \in Seq(Fs)
      <4>1. storing[c] \in Fs /\ ioQ[c] \in Seq(Fs)
        BY <1>b, <2>5 DEF StoreState
      <4> QED BY <4>1
    <3> QED BY <1>a, <1>2, <2>5, <3>1 DEF StoreState, ConnType, LifeType
  <2>6. ASSUME NEW c \in Conns, IoStep(c) PROVE ConnType' /\ LifeType'
    <3>1. UNCHANGED <<connections, storing, lifeVars>>
      BY <2>6, IoEffects DEF IoEffect
    <3>2. st' \in [Conns -> {"none", "Connecting", "Connected", "Disconnecting", "Disconnected"}]
      BY <1>b, <2>6 DEF IoStep, HandleClose, UserForceClose, IoFunctor, SocketClose,
                ConnectEstablished, ShutdownInLoop, ForceCloseInLoop, ConnectDestroyed,
                BeginClose, CloseNow
    <3>3. fd' \in [Conns -> Fds \cup {NoFd}] /\ closing' \in SUBSET Conns
      BY <1>b, <2>6 DEF IoStep, HandleClose, UserForceClose, IoFunctor, SocketClose,
                ConnectEstablished, ShutdownInLoop, ForceCloseInLoop, ConnectDestroyed,
                BeginClose, CloseNow
    <3>4. ioQ' \in [Conns -> Seq(Fs)]
      <4>1. \/ UNCHANGED ioQ
            \/ ioQ[c] # <<>> /\ ioQ' = [ioQ EXCEPT ![c] = Tail(@)]
        BY <2>6 DEF IoStep, HandleClose, UserForceClose, IoFunctor, SocketClose,
                ConnectEstablished, ShutdownInLoop, ForceCloseInLoop, ConnectDestroyed, RunFunctor
      <4>2. ioQ[c] # <<>> => Tail(ioQ[c]) \in Seq(Fs)
        <5>1. ioQ[c] \in Seq(Fs)
          BY <1>b
        <5> HIDE DEF Fs
        <5> QED BY <1>d, <5>1
      <4> HIDE DEF Fs
      <4> QED BY <1>b, <4>1, <4>2
    <3> QED BY <1>a, <1>2, <3>1, <3>2, <3>3, <3>4 DEF ConnType, LifeType
  <2> QED BY <2>1, <2>2, <2>3, <2>4, <2>5, <2>6, ConnSteps
<1> QED BY <1>1, <1>3

-----------------------------------------------------------------------------
(* The theorems.                                                           *)

\* A new server satisfies the invariant.
LEMMA IInvInit == Init => IInv
<1> SUFFICES ASSUME Init PROVE IInv
  OBVIOUS
<1> USE Nobody, ServerAssumption DEF Init
<1>1. TypeOK
  <2>1. ServerType /\ LifeType
    BY DEF ServerType, LifeType
  <2>2. <<>> \in Seq(Conns) /\ <<>> \in Seq({"establish", "shutdown", "force", "destroy"})
    OBVIOUS
  <2>3. ConnType
    BY <2>2 DEF ConnType
  <2>4. CountType
    BY DEF CountType
  <2> QED BY <2>1, <2>3, <2>4 DEF TypeOK
<1>2. CountInv
  <2>1. {c \in Conns : destroys[c] > 0} = {}
    OBVIOUS
  <2>2. closed <= Cardinality({c \in Conns : destroys[c] > 0})
    <3>1. closed = 0 /\ Cardinality({}) = 0
      BY FS_EmptySet
    <3> QED BY ONLY <2>1, <3>1
  <2>3. completed + (IF waiting THEN 1 ELSE 0) <= stops
    <3>1. completed = 0 /\ stops = 0 /\ ~waiting
      OBVIOUS
    <3> QED BY ONLY <3>1
  <2> QED BY <2>2, <2>3 DEF CountInv
<1>3. FlagInv
  BY DEF FlagInv, Empty, Held
<1>4. UnbornInv
  BY DEF UnbornInv, Conns, NoConn
<1>5. EstablishFirst /\ SocketInv /\ EntryInv /\ OpenIsTracked
  BY DEF EstablishFirst, SocketInv, EntryInv, OpenIsTracked
<1> QED BY <1>1, <1>2, <1>3, <1>4, <1>5 DEF IInv

\* The inductive invariant: the flags, the counters, m_connections, the sockets
\* and the functors queued for the connections agree after every step of the
\* main loop, of an io loop or of ~TcpServer.
THEOREM IInvHolds == Spec => []IInv
<1>1. IInv /\ [Next]_vars => IInv'
  BY FlagStep, CountStep, TypeStep, UnbornStep, EstablishStep, SocketStep, EntryStep, TrackedStep
     DEF IInv, TypeOK
<1> QED BY <1>1, IInvInit, PTL DEF Spec

\* Type correctness.
THEOREM TypeCorrect == Spec => []TypeOK
<1>1. IInv => TypeOK
  BY DEF IInv
<1> QED BY <1>1, IInvHolds, PTL

\* No socket is forgotten: an open connection is in m_connections under its fd
\* or its io loop closes it, whatever numbers the kernel hands out again between
\* HandleClose and HandleRemoveConnection.
THEOREM OpenTracked == Spec => []OpenIsTracked
<1>1. IInv => OpenIsTracked
  BY DEF IInv
<1> QED BY <1>1, IInvHolds, PTL

\* HandleRemoveConnection and FinalizeGracefulStop never queue ConnectDestroyed
\* twice for one connection.
THEOREM DestroyedAtMostOnce == Spec => []DestroyedOnce
<1>1. IInv => DestroyedOnce
  BY DEF IInv, EntryInv, DestroyedOnce
<1> QED BY <1>1, IInvHolds, PTL

\* A server that reports the end of its stop has no connection left that nobody
\* is closing: FinalizeGracefulStop never completes over an entry.
THEOREM StopLeavesNoSocket == Spec => []NoSocketOutlivesStop
<1>1. IInv => NoSocketOutlivesStop
  <2> SUFFICES ASSUME IInv, ~started, NEW c \in Conns, fd[c] # NoFd
               PROVE  c \in closing \/ Destroying(c)
    BY DEF NoSocketOutlivesStop
  <2>1. fd[c] \in Fds
    BY DEF IInv, TypeOK, ConnType
  <2>2. connections[fd[c]] # c
    BY <2>1, Nobody DEF IInv, FlagInv, Empty, Held
  <2> QED BY <2>2 DEF IInv, OpenIsTracked
<1> QED BY <1>1, IInvHolds, PTL

-----------------------------------------------------------------------------
(* What leaves m_connections.                                              *)

Over == {"Disconnecting", "Disconnected"}

\* A connection whose removal is queued, whose socket HandleClose is about to close, or
\* whose socket is closed, is over: it does not become Connected again.
ClosedInv ==
  /\ \A i \in 1..Len(mainQ) : st[mainQ[i]] \in Over
  /\ \A c \in closing : st[c] \in Over
  /\ life # "gone" => \A c \in Conns : fd[c] = NoFd => st[c] \in Over \cup {"none"}

\* A step of the io loop of c brings c nearer to its end, never back.
LEMMA IoCloses ==
  ASSUME TypeOK, UnbornInv, EstablishFirst, SocketInv, ClosedInv, NEW c \in Conns, IoStep(c)
  PROVE  /\ mainQ' = mainQ \/ (mainQ' = Append(mainQ, c) /\ st'[c] = "Disconnected")
         /\ closing' \subseteq closing \cup {c} /\ (c \in closing' => st'[c] \in Over)
         /\ st[c] \in Over => st'[c] \in Over
         /\ fd'[c] = NoFd => fd[c] = NoFd \/ st'[c] \in Over
<1> USE Nobody DEF Unserved, Over
<1>a. /\ st \in [Conns -> {"none", "Connecting", "Connected", "Disconnecting", "Disconnected"}]
      /\ fd \in [Conns -> Fds \cup {NoFd}]
      /\ ioQ \in [Conns -> Seq({"establish", "shutdown", "force", "destroy"})]
      /\ closing \in SUBSET Conns
  BY DEF TypeOK, ConnType
<1>b. c \in closing => st[c] \in Over
  BY DEF ClosedInv
<1>c. ioQ[c] # <<>> /\ Head(ioQ[c]) = "establish" => st[c] = "Connecting"
  <2>1. ASSUME ioQ[c] # <<>> PROVE 1 \in 1..Len(ioQ[c]) /\ Head(ioQ[c]) = ioQ[c][1]
    BY <1>a, <2>1
  <2> QED BY <2>1 DEF EstablishFirst
<1>1. CASE HandleClose(c)
  BY <1>1, <1>a DEF HandleClose, BeginClose
<1>2. CASE UserForceClose(c)
  BY <1>2, <1>a DEF UserForceClose, CloseNow
<1>3. CASE SocketClose(c)
  BY <1>3, <1>a, <1>b DEF SocketClose
<1>4. CASE ConnectEstablished(c)
  BY <1>4, <1>a, <1>c DEF ConnectEstablished, RunFunctor
<1>5. CASE ShutdownInLoop(c)
  BY <1>5, <1>a DEF ShutdownInLoop, RunFunctor, BeginClose
<1>6. CASE ForceCloseInLoop(c)
  BY <1>6, <1>a DEF ForceCloseInLoop, RunFunctor, CloseNow
<1>7. CASE ConnectDestroyed(c)
  BY <1>7, <1>a DEF ConnectDestroyed, RunFunctor
<1> QED BY <1>1, <1>2, <1>3, <1>4, <1>5, <1>6, <1>7 DEF IoStep, IoFunctor

\* The main loop takes removals from the front of its queue, the io loops add to it.
LEMMA RemovalSteps ==
  ASSUME [Next]_vars
  PROVE  \/ mainQ' = mainQ \/ (mainQ # <<>> /\ mainQ' = Tail(mainQ))
         \/ \E c \in Conns : IoStep(c)
BY DEF Next, MainTimers, Destructor, IoStep, Start, StopGracefully, StopAgain, ShutdownCheck,
       ShutdownDeadline, HandleRemoveConnection, Destroy, QuitSubLoops, LeaveLoop, JoinSubLoops,
       HandleNewConnection, ScanIdleConnections, StoreState

\* What is over stays over.
LEMMA ClosedStep ==
  ASSUME IInv, ClosedInv, [Next]_vars
  PROVE  ClosedInv'
<1> USE Nobody
<1>0. TypeOK /\ UnbornInv /\ EstablishFirst /\ SocketInv /\ EntryInv
  BY DEF IInv
<1>a. /\ st \in [Conns -> {"none", "Connecting", "Connected", "Disconnecting", "Disconnected"}]
      /\ fd \in [Conns -> Fds \cup {NoFd}] /\ mainQ \in Seq(Conns) /\ closing \in SUBSET Conns
  BY <1>0 DEF TypeOK, ConnType
<1>b. ASSUME mainQ' = mainQ \/ (mainQ # <<>> /\ mainQ' = Tail(mainQ))
      PROVE  \A i \in 1..Len(mainQ') : \E j \in 1..Len(mainQ) : mainQ'[i] = mainQ[j]
  <2>1. CASE mainQ' = mainQ
    BY <2>1
  <2>2. CASE mainQ # <<>> /\ mainQ' = Tail(mainQ)
    <3>1. \A i \in 1..Len(Tail(mainQ)) : i + 1 \in 1..Len(mainQ) /\ Tail(mainQ)[i] = mainQ[i + 1]
      BY <1>a, <2>2
    <3> QED BY <2>2, <3>1
  <2> QED BY <1>b, <2>1, <2>2
<1>c. ASSUME mainQ' = mainQ \/ (mainQ # <<>> /\ mainQ' = Tail(mainQ)),
             \A c \in Conns : st[c] \in Over => st'[c] \in Over
      PROVE  \A i \in 1..Len(mainQ') : st'[mainQ'[i]] \in Over
  <2>1. \A j \in 1..Len(mainQ) : mainQ[j] \in Conns /\ st[mainQ[j]] \in Over
    BY <1>a DEF ClosedInv
  <2> QED BY <1>b, <1>c, <2>1
<1>1. ASSUME NEW c \in Conns, IoStep(c) PROVE ClosedInv'
  <2>1. /\ mainQ' = mainQ \/ (mainQ' = Append(mainQ, c) /\ st'[c] = "Disconnected")
        /\ closing' \subseteq closing \cup {c} /\ (c \in closing' => st'[c] \in Over)
        /\ st[c] \in Over => st'[c] \in Over
        /\ fd'[c] = NoFd => fd[c] = NoFd \/ st'[c] \in Over
    BY <1>0, <1>1, IoCloses
  <2>2. /\ \A d \in Conns \ {c} : st'[d] = st[d] /\ fd'[d] = fd[d]
        /\ c <= total /\ life' = life
    BY <1>0, <1>1, IoEffects DEF IoEffect
  <2>3. \A d \in Conns : st[d] \in Over => st'[d] \in Over
    BY <2>1, <2>2
  <2>4. \A i \in 1..Len(mainQ') : st'[mainQ'[i]] \in Over
    <3>1. CASE mainQ' = mainQ
      BY <1>c, <2>3, <3>1
    <3>2. CASE mainQ' = Append(mainQ, c) /\ st'[c] = "Disconnected"
      <4> SUFFICES ASSUME NEW i \in 1..Len(mainQ') PROVE st'[mainQ'[i]] \in Over
        OBVIOUS
      <4>1. mainQ'[i] = c \/ (i \in 1..Len(mainQ) /\ mainQ'[i] = mainQ[i] /\ mainQ[i] \in Conns)
        BY <1>a, <3>2
      <4> QED BY <2>3, <3>2, <4>1 DEF ClosedInv, Over
    <3> QED BY <2>1, <3>1, <3>2
  <2>5. \A d \in closing' : st'[d] \in Over
    BY <1>a, <2>1, <2>3 DEF ClosedInv
  <2>6. st[c] # "none"
    <3>1. c \in Nat /\ total \in Nat
      BY <1>0, ServerAssumption DEF TypeOK, CountType
    <3> QED BY <1>0, <2>2, <3>1 DEF UnbornInv
  <2>7. ASSUME life' # "gone", NEW d \in Conns, fd'[d] = NoFd PROVE st'[d] \in Over \cup {"none"}
    BY <2>1, <2>2, <2>6, <2>7 DEF ClosedInv
  <2> QED BY <2>4, <2>5, <2>7 DEF ClosedInv
<1>2. ASSUME mainQ' = mainQ \/ (mainQ # <<>> /\ mainQ' = Tail(mainQ)),
             \A c \in Conns : st[c] \in Over => st'[c] \in Over, closing' = closing,
             life' # "gone" => life # "gone"
                               /\ \A c \in Conns : fd'[c] = NoFd => fd[c] = NoFd /\ st'[c] \in Over \cup {st[c]}
      PROVE  ClosedInv'
  BY <1>2, <1>a, <1>c DEF ClosedInv
<1>3. CASE (MainDrops \/ MainRests) /\ (mainQ' = mainQ \/ (mainQ # <<>> /\ mainQ' = Tail(mainQ)))
  <2>1. UNCHANGED <<st, fd, closing>> /\ (life' # "gone" => life # "gone")
    BY <1>3 DEF MainDrops, MainRests
  <2> QED BY <1>2, <1>3, <2>1
<1>4. CASE JoinSubLoops
  BY <1>2, <1>4 DEF JoinSubLoops
<1>5. ASSUME NEW f \in Fds, HandleNewConnection(f) PROVE ClosedInv'
  <2>1. total + 1 \in Conns /\ st[total + 1] = "none"
    BY <1>0, <1>5, NewConnection
  <2>2. /\ st' = [st EXCEPT ![total + 1] = "Connecting"] /\ fd' = [fd EXCEPT ![total + 1] = f]
        /\ UNCHANGED <<mainQ, closing, life>>
    BY <1>5 DEF HandleNewConnection
  <2>3. \A c \in Conns : st[c] \in Over => st'[c] \in Over
    BY <1>a, <2>1, <2>2 DEF Over
  <2>4. \A c \in Conns : fd'[c] = NoFd => fd[c] = NoFd /\ st'[c] = st[c]
    BY <1>a, <2>1, <2>2
  <2> QED BY <1>2, <2>2, <2>3, <2>4
<1>6. ASSUME NEW c \in Conns, StoreState(c) PROVE ClosedInv'
  <2>1. st' = [st EXCEPT ![c] = "Disconnecting"] /\ UNCHANGED <<mainQ, closing, life, fd>>
    BY <1>6 DEF StoreState
  <2>2. \A d \in Conns : st'[d] \in Over \cup {st[d]}
    BY <1>a, <2>1 DEF Over
  <2> QED BY <1>2, <2>1, <2>2
<1> QED BY <1>0, <1>1, <1>3, <1>4, <1>5, <1>6, ConnSteps, RemovalSteps

\* What leaves m_connections is over, and is destroyed or has been closed.
LEMMA LeaveStep ==
  ASSUME IInv, ClosedInv, [Next]_vars, NEW f \in Fds,
         connections[f] # NoConn, connections'[f] # connections[f], life' # "gone"
  PROVE  LET c == connections[f] IN
         st[c] # "Connected" /\ (fd[c] = NoFd \/ destroys'[c] = destroys[c] + 1)
<1> DEFINE c == connections[f]
<1> USE Nobody
<1>0. TypeOK /\ UnbornInv /\ EstablishFirst /\ SocketInv /\ EntryInv
  BY DEF IInv
<1>a. c \in Conns /\ mainQ \in Seq(Conns)
  BY <1>0 DEF TypeOK, ConnType
<1>1. CASE MainDrops
  <2>1. PICK S \in SUBSET Held(connections) : Drops(S) /\ \A d \in S : Droppable(d)
    BY <1>1 DEF MainDrops
  <2>2. c \in S
    BY <2>1 DEF Drops
  <2>3. destroys'[c] = destroys[c] + 1
    BY <1>a, <2>1, <2>2 DEF Drops, CountDestroy
  <2>4. mainQ # <<>> => st[Head(mainQ)] \in Over
    <3>1. ASSUME mainQ # <<>> PROVE 1 \in 1..Len(mainQ) /\ Head(mainQ) = mainQ[1]
      BY <1>a, <3>1
    <3> QED BY <3>1 DEF ClosedInv
  <2>5. st[c] # "Connected"
    BY <2>1, <2>2, <2>4 DEF Droppable, Over
  <2> QED BY <2>3, <2>5
<1>2. CASE MainRests
  BY <1>2 DEF MainRests
<1>3. CASE JoinSubLoops
  BY <1>3 DEF JoinSubLoops
<1>4. ASSUME NEW g \in Fds, HandleNewConnection(g)
      PROVE  st[c] # "Connected" /\ fd[c] = NoFd
  <2>1. life = "alive" /\ connections' = [connections EXCEPT ![g] = total + 1]
    BY <1>4 DEF HandleNewConnection, MainIdle
  <2>2. g = f /\ fd[c] # g
    BY <1>0, <1>4, <1>a, <2>1, NewConnection DEF TypeOK, ConnType
  <2>3. fd[c] = NoFd
    BY <1>0, <1>a, <2>2 DEF EntryInv
  <2> QED BY <1>a, <2>1, <2>3 DEF ClosedInv, Over
<1>5. ASSUME NEW d \in Conns, StoreState(d) PROVE FALSE
  BY <1>5 DEF StoreState
<1>6. ASSUME NEW d \in Conns, IoStep(d) PROVE FALSE
  BY <1>0, <1>6, IoEffects DEF IoEffect
<1> QED BY <1>0, <1>1, <1>2, <1>3, <1>4, <1>5, <1>6, ConnSteps

\* ConnectDestroyed is queued for a connection as it leaves m_connections, and once.
LEMMA DestroyStep ==
  ASSUME IInv, [Next]_vars, NEW c \in Conns, destroys'[c] # destroys[c]
  PROVE  destroys[c] = 0 /\ c \in Held(connections) \ Held(connections')
<1> USE Nobody
<1>0. TypeOK /\ UnbornInv /\ EstablishFirst /\ SocketInv /\ EntryInv
  BY DEF IInv
<1>1. CASE MainDrops
  <2>1. PICK S \in SUBSET Held(connections) : Drops(S)
    BY <1>1 DEF MainDrops
  <2>2. c \in S
    BY <2>1 DEF Drops, CountDestroy
  <2>3. destroys[c] = 0
    BY <1>0, <2>2 DEF EntryInv, Held
  <2>4. \A f \in Fds : connections'[f] # c
    BY <2>1, <2>2 DEF Drops
  <2> QED BY <2>2, <2>3, <2>4 DEF Held
<1>2. CASE MainRests \/ JoinSubLoops
  BY <1>2 DEF MainRests, JoinSubLoops
<1>3. ASSUME NEW f \in Fds, HandleNewConnection(f) PROVE FALSE
  BY <1>3 DEF HandleNewConnection
<1>4. ASSUME NEW d \in Conns, StoreState(d) PROVE FALSE
  BY <1>4 DEF StoreState
<1>5. ASSUME NEW d \in Conns, IoStep(d) PROVE FALSE
  BY <1>0, <1>5, IoEffects DEF IoEffect
<1> QED BY <1>0, <1>1, <1>2, <1>3, <1>4, <1>5, ConnSteps

\* However removals by number, stops and the reuse of numbers are mixed, a connection that
\* is Connected never leaves m_connections before the destructor is done, and the one for
\* which ConnectDestroyed is queued is the one that leaves, once (HandleNewConnection,
\* HandleRemoveConnection and FinalizeGracefulStop in src/src/tcpserver.cpp).
THEOREM OnlyClosedLeave == Spec => EntriesLeaveClosed
<1>1. Init => ClosedInv
  BY DEF Init, ClosedInv
<1>2. IInv /\ ClosedInv /\ [Next]_vars => ClosedInv'
  BY ClosedStep
<1>3. IInv /\ ClosedInv /\ [Next]_vars =>
        [/\ \A f \in Fds : LET c == connections[f] IN
              c # NoConn /\ connections'[f] # c /\ life' # "gone" =>
                st[c] # "Connected" /\ (fd[c] = NoFd \/ destroys'[c] = destroys[c] + 1)
         /\ \A c \in Conns : destroys'[c] # destroys[c] =>
              destroys[c] = 0 /\ c \in Held(connections) \ Held(connections')]_vars
  BY LeaveStep, DestroyStep
<1> QED BY <1>1, <1>2, <1>3, IInvHolds, PTL DEF Spec, EntriesLeaveClosed
=============================================================================
