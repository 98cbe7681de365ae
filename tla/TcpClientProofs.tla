-------------------------- MODULE TcpClientProofs --------------------------
(***************************************************************************)
(* Proofs about TcpClient for any number of fds, attempts and calls:       *)
(* however Connect and Disconnect are called from callbacks, every open    *)
(* socket has one owner, and nobody is told of an fd who is not there.     *)
(***************************************************************************)
EXTENDS TcpClient, SequenceTheorems, TLAPS

USE DEF vars, bounds

-----------------------------------------------------------------------------
(* The inductive invariant.                                                *)

\* Nothing is known of an attempt that was not made, and a connection has a socket.
FreshInv ==
  /\ \A k \in Attempts : k > attempts => conn[k].st = "none" /\ temp[k] = NoFd
  /\ \A k \in Attempts : conn[k].st = "none" <=> conn[k].fd = NoFd

\* m_connection holds the one connection that is not Disconnected.
CurrentInv ==
  \A k \in Attempts : conn[k].st \in {"Connected", "Disconnecting"} <=> client.current = k

\* A connection is closed once, and only the first callback of a round can be one
\* that a temporary channel led to.
StackInv ==
  /\ \A i, j \in 1..Len(stack) :
       stack[i].at = "closecb" /\ stack[j].at = "closecb" /\ stack[i].conn = stack[j].conn => i = j
  /\ \A i \in 1..Len(stack) : stack[i].temp # 0 => i = 1 /\ stack[i].at = "conncb"

ClosingInv == \A k \in Closing : conn[k].st = "Disconnected"

\* A channel is registered under its own fd; a temporary channel knows that it is, and
\* believes it only if it was.
MapInv ==
  \A f \in Fds, k \in Attempts :
    /\ poller.map[f] = Temp(k) => temp[k] = f /\ Temp(k) \in poller.added
    /\ poller.map[f] = Conn(k) => conn[k].fd = f

AddedInv == \A k \in Attempts : Temp(k) \in poller.added => temp[k] # NoFd

\* What the kernel watches is open and known to the poller, and if it is known as a
\* connection, as that in m_connection.
WatchInv ==
  \A f \in Fds : poller.set[f] # {} =>
    /\ net[f] # "closed" /\ poller.map[f] # None
    /\ \A k \in Attempts : poller.map[f] = Conn(k) => client.current = k

\* The temporary channel of attempt k called the handler the thread is in.
Below(k) == stack # <<>> /\ stack[1].temp = k

\* A temporary channel that has handed a socket over is about to be removed.
HandedInv ==
  \A f \in Fds, k \in Attempts : poller.map[f] = Temp(k) /\ conn[k].st # "none" => Below(k)

\* Each channel is at most once in the round, a connection only if nothing has been
\* called yet that could close it, and a temporary channel before it is used.
ActiveInv ==
  /\ \A a, b \in active : a.channel = b.channel => a = b
  /\ \A a \in active, k \in Attempts :
       /\ a.channel = Conn(k) => stack = <<>> /\ client.current = k
       /\ a.channel = Temp(k) => temp[k] # NoFd /\ conn[k].st = "none"

\* OneOwner, fd by fd.
Owner(k) == client.current = k \/ k \in Closing
OwnInv ==
  /\ \A f \in Fds : net[f] # "closed" <=>
       client.sock = f \/ \E k \in Attempts : Owner(k) /\ conn[k].fd = f
  /\ \A k \in Attempts : Owner(k) => conn[k].fd # client.sock
  /\ \A j, k \in Attempts : Owner(j) /\ Owner(k) /\ conn[j].fd = conn[k].fd => j = k

Core == /\ FreshInv /\ CurrentInv /\ StackInv /\ ClosingInv /\ MapInv /\ AddedInv /\ WatchInv
        /\ HandedInv /\ ActiveInv /\ OwnInv

IInv == TypeOK /\ (~aborted => Core)

-----------------------------------------------------------------------------
(* Channels.                                                               *)

\* Temporary channels and those of connections are different, for different attempts too.
LEMMA Tags ==
  /\ \A j, k : Temp(j) # Conn(k) /\ Temp(j) # None /\ Conn(j) # None
  /\ \A j, k : (Temp(j) = Temp(k) => j = k) /\ (Conn(j) = Conn(k) => j = k)
  /\ \A k \in Attempts : Temp(k) \in Channels /\ Conn(k) \in Channels
  /\ None \notin Channels
  /\ \A c \in Channels : \E k \in Attempts : c = Temp(k) \/ c = Conn(k)
BY DEF Temp, Conn, None, Channels

\* No fd and no attempt is the number that stands for none.
LEMMA NoFdIsNone == NoFd \notin Fds /\ 0 \notin Attempts /\ Attempts \subseteq Nat
BY ClientAssumption DEF NoFd, Attempts

-----------------------------------------------------------------------------
(* EpollPoller.                                                            *)

PollerRecord == [map : [Fds -> Channels \cup {None}], set : [Fds -> SUBSET {"read", "write"}],
                 added : SUBSET Channels, room : Nat]

\* Closing a socket.
LEMMA Closed ==
  ASSUME NEW p \in PollerRecord, NEW f \in Fds \cup {NoFd}
  PROVE  LET q == CloseWatch(p, f) IN
         /\ q \in PollerRecord /\ q.map = p.map /\ q.added = p.added
         /\ \A g \in Fds : q.set[g] = IF g = f THEN {} ELSE p.set[g]
<1>1. CASE f = NoFd
  BY <1>1, NoFdIsNone DEF CloseWatch
<1>2. CASE f # NoFd
  <2> DEFINE v == [p.set EXCEPT ![f] = {}]
             q == CloseWatch(p, f)
  <2>1. v \in [Fds -> SUBSET {"read", "write"}] /\ \A g \in Fds : v[g] = IF g = f THEN {} ELSE p.set[g]
    BY <1>2 DEF PollerRecord
  <2>2. q = [p EXCEPT !.set = v]
    BY <1>2 DEF CloseWatch, EpollClosed
  <2> HIDE DEF v, q
  <2>3. q \in PollerRecord /\ q.map = p.map /\ q.added = p.added /\ q.set = v
    BY <2>1, <2>2 DEF PollerRecord
  <2> QED BY <2>1, <2>3 DEF q
<1> QED BY <1>1, <1>2

\* RemoveChannel: whatever is registered under the fd is not any more.
LEMMA Forgets ==
  ASSUME NEW p \in PollerRecord, NEW c \in Channels, NEW f \in Fds,
         p.set[f] # {} => p.map[f] # None
  PROVE  LET q == EpollRemove(p, c, f) IN
         /\ q \in PollerRecord /\ q.added \subseteq p.added /\ p.added \ {c} \subseteq q.added
         /\ \A g \in Fds : /\ q.map[g] = IF g = f THEN None ELSE p.map[g]
                           /\ q.set[g] = IF g = f THEN {} ELSE p.set[g]
<1>1. CASE p.map[f] = None
  BY <1>1 DEF EpollRemove
<1>2. CASE p.map[f] # None
  <2> DEFINE v == [p.set EXCEPT ![f] = {}]
             m == [p.map EXCEPT ![f] = None]
             q1 == EpollCtl("DEL", p, f, {})
             q == EpollRemove(p, c, f)
  <2>1. /\ v \in [Fds -> SUBSET {"read", "write"}] /\ \A g \in Fds : v[g] = IF g = f THEN {} ELSE p.set[g]
        /\ m \in [Fds -> Channels \cup {None}] /\ \A g \in Fds : m[g] = IF g = f THEN None ELSE p.map[g]
    BY DEF PollerRecord
  <2>2. q1 = [p EXCEPT !.set = v]
    <3>1. p.set[f] = {} => v = [p.set EXCEPT ![f] = p.set[f]]
      OBVIOUS
    <3> QED BY <3>1 DEF EpollCtl
  <2> HIDE DEF v, m
  <2>3. q1 \in PollerRecord /\ q1.map = p.map /\ q1.added = p.added /\ q1.set = v
    BY <2>1, <2>2 DEF PollerRecord
  <2>4. q = [q1 EXCEPT !.map = m, !.added = p.added \ {c}]
    BY <1>2, <2>3 DEF EpollRemove, m
  <2> HIDE DEF q1, q
  <2>5. q \in PollerRecord /\ q.map = m /\ q.added = p.added \ {c} /\ q.set = v
    BY <2>1, <2>3, <2>4 DEF PollerRecord
  <2> QED BY <2>1, <2>5 DEF q
<1> QED BY <1>1, <1>2

\* UpdateChannel with an interest: a known fd keeps its channel, and is watched only if
\* it was; an unknown one gets this channel.
LEMMA Learns ==
  ASSUME NEW p \in PollerRecord, NEW c \in Channels, NEW f \in Fds,
         NEW ev \in SUBSET {"read", "write"}, ev # {}
  PROVE  LET q == EpollUpdate(p, c, f, ev) IN
         /\ q \in PollerRecord
         /\ q.added = IF p.map[f] = None THEN p.added \cup {c} ELSE p.added
         /\ q.map[f] = IF p.map[f] = None THEN c ELSE p.map[f]
         /\ q.set[f] # {} => p.map[f] = None \/ p.set[f] # {}
         /\ \A g \in Fds : g # f => q.map[g] = p.map[g] /\ q.set[g] = p.set[g]
<1> DEFINE q == EpollUpdate(p, c, f, ev)
<1>1. CASE p.map[f] # None
  <2> DEFINE v == [p.set EXCEPT ![f] = IF p.set[f] = {} THEN {} ELSE ev]
  <2>1. /\ v \in [Fds -> SUBSET {"read", "write"}] /\ (v[f] # {} => p.set[f] # {})
        /\ \A g \in Fds : g # f => v[g] = p.set[g]
    BY DEF PollerRecord
  <2>2. q = [p EXCEPT !.set = v]
    <3>1. CASE p.set[f] = {}
      BY <1>1, <3>1 DEF EpollUpdate, EpollCtl
    <3>2. CASE p.set[f] # {}
      BY <1>1, <3>2 DEF EpollUpdate, EpollCtl
    <3> QED BY <3>1, <3>2
  <2> HIDE DEF v, q
  <2>3. q \in PollerRecord /\ q.map = p.map /\ q.added = p.added /\ q.set = v
    BY <2>1, <2>2 DEF PollerRecord
  <2> QED BY <1>1, <2>1, <2>3 DEF q
<1>2. CASE p.map[f] = None
  <2> DEFINE now == IF p.set[f] # {} THEN p.set[f] ELSE ev
             v == [p.set EXCEPT ![f] = now]
             m == [p.map EXCEPT ![f] = c]
             q1 == EpollCtl("ADD", p, f, ev)
  <2>1. /\ v \in [Fds -> SUBSET {"read", "write"}] /\ \A g \in Fds : g # f => v[g] = p.set[g]
        /\ m \in [Fds -> Channels \cup {None}] /\ m[f] = c /\ \A g \in Fds : g # f => m[g] = p.map[g]
    BY DEF PollerRecord
  <2>2. q1 = [p EXCEPT !.set = v]
    <3>1. CASE p.set[f] = {}
      BY <3>1 DEF EpollCtl
    <3>2. CASE p.set[f] # {}
      BY <3>2 DEF EpollCtl
    <3> QED BY <3>1, <3>2
  <2> HIDE DEF v, m
  <2>3. q1 \in PollerRecord /\ q1.map = p.map /\ q1.added = p.added /\ q1.set = v
    BY <2>1, <2>2 DEF PollerRecord
  <2>4. q = [q1 EXCEPT !.map = m, !.added = p.added \cup {c}]
    BY <1>2, <2>3 DEF EpollUpdate, EpollKnow, m
  <2> HIDE DEF q1, q
  <2>5. q \in PollerRecord /\ q.map = m /\ q.added = p.added \cup {c} /\ q.set = v
    BY <2>1, <2>3, <2>4 DEF PollerRecord
  <2> QED BY <1>2, <2>1, <2>5 DEF q
<1> QED BY <1>1, <1>2

-----------------------------------------------------------------------------
(* The stack.                                                              *)

Frame == [at : Callbacks, conn : Attempts, temp : Attempts \cup {0}]

\* A callback is entered; a temporary channel does so only at the bottom.
LEMMA Enters ==
  ASSUME stack \in Seq(Frame), StackInv, NEW at \in Callbacks, NEW k \in Attempts,
         NEW j \in Attempts \cup {0}, j # 0 => at = "conncb" /\ stack = <<>>,
         at = "closecb" => k \notin Closing, stack' = Append(stack, Callback(at, k, j))
  PROVE  /\ stack' \in Seq(Frame) /\ StackInv' /\ stack' # <<>>
         /\ Closing' = IF at = "closecb" THEN Closing \cup {k} ELSE Closing
         /\ \A i : Below(i) => Below(i)'
         /\ stack = <<>> => Below(j)'
<1> DEFINE e == Callback(at, k, j)
           n == Len(stack)
<1>1. e \in Frame /\ e.at = at /\ e.conn = k /\ e.temp = j
  BY DEF Callback, Frame
<1> HIDE DEF e
<1>2. /\ stack' \in Seq(Frame) /\ n \in Nat /\ Len(stack') = n + 1 /\ stack'[n + 1] = e
      /\ \A i \in 1..n : stack'[i] = stack[i]
  BY <1>1 DEF e
<1>3. stack' # <<>> /\ (stack = <<>> => n = 0) /\ (stack # <<>> => 1 \in 1..n)
  BY <1>2
<1>4. \A i \in 1..(n + 1) : i \in 1..n \/ i = n + 1
  BY <1>2
<1>5. n + 1 \in 1..(n + 1) /\ \A i \in 1..n : i \in 1..(n + 1) /\ i # n + 1
  BY <1>2
<1>6. Closing = {stack[i].conn : i \in {m \in 1..n : stack[m].at = "closecb"}}
  BY DEF Closing
<1>7. Closing' = {stack'[i].conn : i \in {m \in 1..(n + 1) : stack'[m].at = "closecb"}}
  BY <1>2 DEF Closing
<1> HIDE DEF n
<1>8. Closing' = IF at = "closecb" THEN Closing \cup {k} ELSE Closing
  <2>1. Closing \subseteq Closing'
    BY <1>2, <1>5, <1>6, <1>7
  <2>2. CASE at = "closecb"
    <3>1. Closing' \subseteq Closing \cup {k}
      BY <1>1, <1>2, <1>4, <1>6, <1>7
    <3>2. k \in Closing'
      BY <1>1, <1>2, <1>5, <1>7, <2>2
    <3> QED BY <2>1, <2>2, <3>1, <3>2
  <2>3. CASE at # "closecb"
    <3>1. Closing' \subseteq Closing
      BY <1>1, <1>2, <1>4, <1>6, <1>7, <2>3
    <3> QED BY <2>1, <2>3, <3>1
  <2> QED BY <2>2, <2>3
<1>9. StackInv'
  <2>1. ASSUME NEW i \in 1..(n + 1), NEW m \in 1..(n + 1),
               stack'[i].at = "closecb", stack'[m].at = "closecb", stack'[i].conn = stack'[m].conn
        PROVE  i = m
    <3>1. CASE i \in 1..n /\ m \in 1..n
      BY <1>2, <2>1, <3>1 DEF StackInv, n
    <3>2. \A l \in 1..n : at = "closecb" => ~(stack'[l].at = "closecb" /\ stack'[l].conn = k)
      BY <1>2, <1>6
    <3>3. CASE i = n + 1 /\ m \in 1..n
      BY <1>1, <1>2, <2>1, <3>2, <3>3
    <3>4. CASE m = n + 1 /\ i \in 1..n
      BY <1>1, <1>2, <2>1, <3>2, <3>4
    <3> QED BY <1>4, <3>1, <3>3, <3>4
  <2>2. ASSUME NEW i \in 1..(n + 1), stack'[i].temp # 0 PROVE i = 1 /\ stack'[i].at = "conncb"
    <3>1. CASE i \in 1..n
      BY <1>2, <2>2, <3>1 DEF StackInv, n
    <3>2. CASE i = n + 1
      <4>1. j # 0
        BY <1>1, <1>2, <2>2, <3>2
      <4>2. n = 0
        BY <1>3, <4>1
      <4> QED BY <1>1, <1>2, <3>2, <4>1, <4>2
    <3> QED BY <1>4, <3>1, <3>2
  <2> QED BY <1>2, <2>1, <2>2 DEF StackInv
<1>10. \A i : Below(i) => Below(i)'
  BY <1>2, <1>3 DEF Below
<1>11. stack = <<>> => Below(j)'
  <2> SUFFICES ASSUME stack = <<>> PROVE Below(j)'
    OBVIOUS
  <2>1. n + 1 = 1
    BY <1>3
  <2> QED BY <1>1, <1>2, <1>3, <2>1 DEF Below
<1> QED BY <1>2, <1>3, <1>8, <1>9, <1>10, <1>11

\* The stack without the innermost callback.
LEMMA WhatIsLeft ==
  ASSUME stack \in Seq(Frame), stack # <<>>
  PROVE  /\ Returned \in Seq(Frame) /\ Len(Returned) = Len(stack) - 1
         /\ \A i \in 1..(Len(stack) - 1) : Returned[i] = stack[i]
<1> DEFINE n == Len(stack)
<1>1. n \in Nat /\ n \in 1..n
  OBVIOUS
<1>2. \A i \in 1..(n - 1) : stack[i] \in Frame
  <2>1. \A i \in 1..(n - 1) : i \in 1..n
    BY <1>1
  <2>2. \A i \in 1..n : stack[i] \in Frame
    BY ElementOfSeq
  <2> QED BY ONLY <2>1, <2>2
<1>3. /\ SubSeq(stack, 1, n - 1) \in Seq(Frame)
      /\ Len(SubSeq(stack, 1, n - 1)) = IF 1 <= n - 1 THEN (n - 1) - 1 + 1 ELSE 0
      /\ \A i \in 1..((n - 1) - 1 + 1) : SubSeq(stack, 1, n - 1)[i] = stack[1 + i - 1]
  <2>1. n - 1 \in Int
    BY <1>1
  <2> HIDE DEF n
  <2> QED BY <1>2, <2>1, SubSeqProperties
<1>4. (n - 1) - 1 + 1 = n - 1 /\ (~(1 <= n - 1) => n - 1 = 0) /\ \A i \in 1..(n - 1) : 1 + i - 1 = i
  <2>1. n \in Nat /\ 1 <= n
    BY <1>1
  <2> HIDE DEF n
  <2> QED BY ONLY <2>1
<1>5. Returned = SubSeq(stack, 1, n - 1)
  BY DEF Returned
<1> HIDE DEF n
<1>6. /\ Returned \in Seq(Frame) /\ Len(Returned) = n - 1
      /\ \A i \in 1..(n - 1) : Returned[i] = stack[i]
  BY <1>3, <1>4, <1>5
<1> QED BY <1>6 DEF n

\* A callback is left.
LEMMA Leaves ==
  ASSUME stack \in Seq(Frame), StackInv, stack # <<>>, stack' = Returned
  PROVE  /\ stack' \in Seq(Frame) /\ StackInv' /\ Innermost \in Frame
         /\ Closing' = IF Innermost.at = "closecb" THEN Closing \ {Innermost.conn} ELSE Closing
         /\ Innermost.at = "closecb" => Innermost.conn \in Closing /\ Innermost.temp = 0
         /\ \A i \in Attempts : Below(i) => Below(i)' \/ Innermost.temp = i
<1> DEFINE n == Len(stack)
           e == Innermost
<1>1. n \in Nat /\ n \in 1..n /\ e = stack[n] /\ e \in Frame
  <2>1. n \in Nat /\ n \in 1..n
    OBVIOUS
  <2> QED BY <2>1, ElementOfSeq DEF Innermost
<1>2. /\ stack' \in Seq(Frame) /\ Len(stack') = n - 1
      /\ \A i \in 1..(n - 1) : stack'[i] = stack[i]
  BY WhatIsLeft
<1>3. \A i \in 1..n : i \in 1..(n - 1) \/ i = n
  BY <1>1
<1>4. \A i \in 1..(n - 1) : i \in 1..n /\ i # n
  BY <1>1
<1>5. Closing = {stack[i].conn : i \in {m \in 1..n : stack[m].at = "closecb"}}
  BY DEF Closing
<1>6. Closing' = {stack'[i].conn : i \in {m \in 1..(n - 1) : stack'[m].at = "closecb"}}
  BY <1>2 DEF Closing
<1>7. /\ \A i, m \in 1..n :
           stack[i].at = "closecb" /\ stack[m].at = "closecb" /\ stack[i].conn = stack[m].conn => i = m
      /\ \A i \in 1..n : stack[i].temp # 0 => i = 1 /\ stack[i].at = "conncb"
  BY DEF StackInv
<1> HIDE DEF n, e
<1>8. Closing' = IF e.at = "closecb" THEN Closing \ {e.conn} ELSE Closing
  <2>1. Closing' \subseteq Closing
    BY <1>2, <1>4, <1>5, <1>6
  <2>2. CASE e.at = "closecb"
    <3>1. e.conn \notin Closing'
      BY <1>1, <1>2, <1>4, <1>6, <1>7, <2>2
    <3>2. Closing \ {e.conn} \subseteq Closing'
      BY <1>1, <1>2, <1>3, <1>5, <1>6
    <3> QED BY <2>1, <2>2, <3>1, <3>2
  <2>3. CASE e.at # "closecb"
    <3>1. Closing \subseteq Closing'
      BY <1>1, <1>2, <1>3, <1>5, <1>6, <2>3
    <3> QED BY <2>1, <2>3, <3>1
  <2> QED BY <2>2, <2>3
<1>9. e.at = "closecb" => e.conn \in Closing /\ e.temp = 0
  BY <1>1, <1>5, <1>7
<1>10. StackInv'
  BY <1>2, <1>4, <1>7 DEF StackInv
<1>11. \A i \in Attempts : Below(i) => Below(i)' \/ e.temp = i
  <2> SUFFICES ASSUME NEW i \in Attempts, Below(i), ~(e.temp = i) PROVE Below(i)'
    OBVIOUS
  <2>1. stack[1].temp = i /\ n # 1
    BY <1>1 DEF Below
  <2>2. 1 \in 1..(n - 1)
    BY <1>1, <2>1
  <2>3. stack'[1] = stack[1] /\ stack' # <<>>
    BY <1>2, <2>2
  <2> QED BY <2>1, <2>3 DEF Below
<1> QED BY <1>1, <1>2, <1>8, <1>9, <1>10, <1>11 DEF e

\* Connections are closed, not something else.
LEMMA ClosingType ==
  ASSUME TypeOK
  PROVE  Closing \subseteq Attempts
<1>1. stack \in Seq(Frame)
  BY DEF TypeOK, Frame
<1>2. \A i \in 1..Len(stack) : stack[i] \in Frame
  BY <1>1, ElementOfSeq
<1> QED BY <1>2 DEF Closing, Frame

-----------------------------------------------------------------------------
(* What a step does to the owners of the sockets and to those the poller   *)
(* reports to, whichever action it is.                                     *)

\* No close callback is entered or left, no other callback entered while the event of a
\* connection is still to be handled, and no temporary channel done with.
StackQuiet ==
  /\ StackInv' /\ Closing' = Closing
  /\ \A k \in Attempts : Below(k) => Below(k)'
  /\ stack' = stack \/ \A a \in active', k \in Attempts : a.channel # Conn(k)

\* The callbacks the thread is in stay the same.
LEMMA Still ==
  ASSUME Core, stack' = stack
  PROVE  StackQuiet
BY DEF StackQuiet, Core, StackInv, Closing, Below

\* Only the interest in the connection in m_connection may be announced, and
\* registrations dropped.
LEMMA Quiet ==
  ASSUME TypeOK, Core, StackQuiet,
         client'.current = client.current, client'.sock = client.sock,
         temp' = temp, attempts' = attempts, active' \subseteq active,
         \A k \in Attempts :
           /\ conn'[k].fd = conn[k].fd
           /\ \/ conn'[k].st = conn[k].st
              \/ conn[k].st = "Connected" /\ conn'[k].st = "Disconnecting",
         \A f \in Fds : net'[f] = "closed" <=> net[f] = "closed",
         \A f \in Fds :
           \/ /\ poller'.map[f] \in {poller.map[f], None}
              /\ poller'.set[f] # {} => poller'.map[f] # None /\ poller.set[f] # {}
           \/ /\ poller.map[f] = None
              /\ \E k \in Attempts : client.current = k /\ conn[k].fd = f /\ poller'.map[f] = Conn(k),
         \A f \in Fds, k \in Attempts : poller'.map[f] = Temp(k) => Temp(k) \in poller'.added,
         \A k \in Attempts : Temp(k) \in poller'.added => Temp(k) \in poller.added
  PROVE  Core'
<1>1. Closing' = Closing /\ \A k \in Attempts : Below(k) => Below(k)'
  BY DEF StackQuiet
<1>2. FreshInv'
  BY DEF Core, FreshInv
<1>3. CurrentInv'
  BY DEF Core, CurrentInv
<1>4. StackInv'
  BY DEF StackQuiet
<1>5. ClosingInv'
  BY <1>1, ClosingType DEF Core, ClosingInv
<1>6. MapInv' /\ AddedInv'
  BY Tags DEF Core, MapInv, AddedInv
<1>7. \A f \in Fds : (\E k \in Attempts : client.current = k /\ conn[k].fd = f) => net[f] # "closed"
  BY DEF Core, OwnInv, Owner
<1>8. WatchInv'
  BY <1>7, Tags DEF Core, WatchInv
<1>9. HandedInv'
  BY <1>1, Tags DEF Core, HandedInv
<1>10. ActiveInv'
  BY DEF Core, ActiveInv, StackQuiet
<1>11. OwnInv'
  BY <1>1 DEF Core, OwnInv, Owner
<1> QED BY <1>2, <1>3, <1>4, <1>5, <1>6, <1>8, <1>9, <1>10, <1>11 DEF Core

\* The socket in m_socket is closed.
LEMMA SockGone ==
  ASSUME TypeOK, Core,
         client'.current = client.current, client'.sock = NoFd,
         temp' = temp, conn' = conn, active' = active,
         attempts \in Nat, attempts' \in Nat, attempts <= attempts',
         StackInv', Closing' = Closing, stack = <<>> => stack' = <<>>,
         \A f \in Fds : net'[f] = "closed" <=> net[f] = "closed" \/ f = client.sock,
         \A f \in Fds :
           /\ poller'.map[f] \in {poller.map[f], None}
           /\ poller'.set[f] # {} => /\ poller'.map[f] # None /\ poller.set[f] # {}
                                     /\ f # client.sock,
         \A f \in Fds, k \in Attempts : poller'.map[f] = Temp(k) =>
           Temp(k) \in poller'.added /\ (Below(k) => Below(k)'),
         \A k \in Attempts : Temp(k) \in poller'.added => Temp(k) \in poller.added
  PROVE  Core'
<1>2. FreshInv'
  <2>1. \A k \in Attempts : k \in Nat
    BY NoFdIsNone
  <2>2. \A k \in Attempts : k > attempts' => k > attempts
    BY <2>1
  <2> QED BY <2>2 DEF Core, FreshInv
<1>3. CurrentInv'
  BY DEF Core, CurrentInv
<1>5. ClosingInv'
  BY DEF Core, ClosingInv
<1>6. MapInv' /\ AddedInv'
  BY Tags DEF Core, MapInv, AddedInv
<1>8. WatchInv'
  BY Tags DEF Core, WatchInv
<1>9. HandedInv'
  BY Tags DEF Core, HandedInv
<1>10. ActiveInv'
  BY DEF Core, ActiveInv
<1>11. OwnInv'
  <2>1. \A k \in Attempts : Owner(k)' <=> Owner(k)
    BY DEF Owner
  <2>2. \A k \in Attempts : Owner(k) => conn[k].fd # NoFd
    BY NoFdIsNone DEF Core, Owner, CurrentInv, ClosingInv, FreshInv
  <2> HIDE DEF Owner
  <2>3. \A f \in Fds : net'[f] # "closed" <=>
          client'.sock = f \/ \E k \in Attempts : Owner(k)' /\ conn'[k].fd = f
    BY <2>1, NoFdIsNone DEF Core, OwnInv
  <2>4. \A k \in Attempts : Owner(k)' => conn'[k].fd # client'.sock
    BY <2>1, <2>2
  <2>5. \A j, k \in Attempts : Owner(j)' /\ Owner(k)' /\ conn'[j].fd = conn'[k].fd => j = k
    BY <2>1 DEF Core, OwnInv
  <2> QED BY <2>3, <2>4, <2>5 DEF OwnInv
<1> QED BY <1>2, <1>3, <1>5, <1>6, <1>8, <1>9, <1>10, <1>11 DEF Core

\* A new socket f is stored in m_socket and waited for by a temporary channel.
LEMMA Opens ==
  ASSUME TypeOK, Core, NEW k \in Attempts, k = attempts + 1, NEW f \in Fds, net[f] = "closed",
         client'.current = client.current, client'.sock = f,
         temp' = [temp EXCEPT ![k] = f], conn' = conn, active' = active, stack' = stack,
         attempts' = attempts + 1,
         \A g \in Fds : net'[g] = "closed" <=> g # f /\ (net[g] = "closed" \/ g = client.sock),
         poller'.map[f] = IF poller.map[f] = None THEN Temp(k) ELSE poller.map[f],
         poller'.set[f] # {} => poller.map[f] = None \/ poller.set[f] # {},
         \A g \in Fds \ {f} :
           /\ poller'.map[g] = poller.map[g]
           /\ poller'.set[g] # {} => poller.set[g] # {} /\ g # client.sock,
         poller.added \subseteq poller'.added,
         poller.map[f] = None => Temp(k) \in poller'.added,
         \A i \in Attempts \ {k} : Temp(i) \in poller'.added => Temp(i) \in poller.added
  PROVE  Core'
<1>0. /\ conn[k].st = "none" /\ temp[k] = NoFd /\ attempts \in Nat
      /\ \A i \in Attempts : i \in Nat
  BY NoFdIsNone DEF TypeOK, Core, FreshInv
<1>1. Closing' = Closing /\ \A i : Below(i)' <=> Below(i)
  BY DEF Closing, Below
<1>t. temp'[k] = f /\ \A i \in Attempts \ {k} : temp'[i] = temp[i]
  BY DEF TypeOK
<1>2. FreshInv'
  <2>1. \A i \in Attempts : i > attempts' => i > attempts /\ i # k
    BY <1>0
  <2> QED BY <1>t, <2>1 DEF Core, FreshInv
<1>3. CurrentInv'
  BY DEF Core, CurrentInv
<1>4. StackInv'
  BY DEF Core, StackInv
<1>5. ClosingInv'
  BY <1>1 DEF Core, ClosingInv
<1>6. MapInv' /\ AddedInv'
  <2>1. \A g \in Fds : poller.map[g] # Temp(k)
    BY <1>0, NoFdIsNone DEF Core, MapInv
  <2>2. \A i \in Attempts : poller'.map[f] = Conn(i) => poller.map[f] = Conn(i)
    BY Tags
  <2>3. \A i \in Attempts : poller'.map[f] = Temp(i) => i = k \/ poller.map[f] = Temp(i)
    BY Tags
  <2>4. \A i \in Attempts : poller'.map[f] = Temp(i) => temp'[i] = f /\ Temp(i) \in poller'.added
    <3> SUFFICES ASSUME NEW i \in Attempts, poller'.map[f] = Temp(i)
                 PROVE  temp'[i] = f /\ Temp(i) \in poller'.added
      OBVIOUS
    <3>1. CASE poller.map[f] = None
      BY <1>t, <3>1, Tags
    <3>2. CASE poller.map[f] # None
      BY <1>t, <2>1, <3>2, Tags DEF Core, MapInv
    <3> QED BY <3>1, <3>2
  <2>5. \A g \in Fds \ {f}, i \in Attempts : poller'.map[g] = Temp(i) =>
          temp'[i] = g /\ Temp(i) \in poller'.added
    BY <1>t, <2>1 DEF Core, MapInv
  <2>6. \A g \in Fds, i \in Attempts : poller'.map[g] = Conn(i) => conn'[i].fd = g
    BY <2>2 DEF Core, MapInv
  <2>7. AddedInv'
    BY <1>t, NoFdIsNone DEF Core, AddedInv
  <2> QED BY <2>4, <2>5, <2>6, <2>7 DEF MapInv
<1>8. WatchInv'
  <2>1. poller.set[f] = {}
    BY DEF Core, WatchInv
  <2>2. poller'.set[f] # {} => net'[f] # "closed" /\ poller'.map[f] = Temp(k)
    BY <2>1
  <2> QED BY <2>2, Tags DEF Core, WatchInv
<1>9. HandedInv'
  <2>1. \A g \in Fds, i \in Attempts : poller'.map[g] = Temp(i) => i = k \/ poller.map[g] = Temp(i)
    BY Tags
  <2> QED BY <1>0, <1>1, <2>1 DEF Core, HandedInv
<1>10. ActiveInv'
  BY <1>0, <1>t DEF Core, ActiveInv
<1>11. OwnInv'
  <2>1. \A i \in Attempts : Owner(i)' <=> Owner(i)
    BY <1>1 DEF Owner
  <2> HIDE DEF Owner
  <2>2. client.sock # f /\ \A i \in Attempts : Owner(i) => conn[i].fd # f
    BY DEF Core, OwnInv
  <2>3. \A g \in Fds : net'[g] # "closed" <=>
          client'.sock = g \/ \E i \in Attempts : Owner(i)' /\ conn'[i].fd = g
    BY <2>1, <2>2 DEF Core, OwnInv
  <2>4. \A i \in Attempts : Owner(i)' => conn'[i].fd # client'.sock
    BY <2>1, <2>2
  <2>5. \A j, i \in Attempts : Owner(j)' /\ Owner(i)' /\ conn'[j].fd = conn'[i].fd => j = i
    BY <2>1 DEF Core, OwnInv
  <2> QED BY <2>3, <2>4, <2>5 DEF OwnInv
<1> QED BY <1>2, <1>3, <1>4, <1>5, <1>6, <1>8, <1>9, <1>10, <1>11 DEF Core

\* A connection k is made of the socket f and stored in m_connection; the socket is a new
\* one, or the one in m_socket.
LEMMA HandsOver ==
  ASSUME TypeOK, Core, NEW k \in Attempts, NEW f \in Fds,
         conn[k].st = "none", client.current = 0, f = client.sock \/ net[f] = "closed",
         client'.current = k, client'.sock = NoFd, temp' = temp,
         conn' = [conn EXCEPT ![k] = [st |-> "Connected", fd |-> f, ev |-> {"read"}, out |-> FALSE]],
         attempts \in Nat, attempts' \in Nat, attempts <= attempts', k <= attempts',
         stack' # <<>>, StackInv', Closing' = Closing, \A i : Below(i) => Below(i)',
         active' \subseteq active, \A a \in active' : a.channel # Temp(k),
         \A g \in Fds : poller.map[g] = Temp(k) => Below(k)',
         \A g \in Fds : net'[g] = "closed" <=> g # f /\ (net[g] = "closed" \/ g = client.sock),
         poller'.map[f] = IF poller.map[f] = None THEN Conn(k) ELSE poller.map[f],
         poller'.set[f] # {} => poller.map[f] = None \/ poller.set[f] # {},
         \A g \in Fds \ {f} :
           /\ poller'.map[g] = poller.map[g]
           /\ poller'.set[g] # {} => poller.set[g] # {} /\ g # client.sock,
         poller.added \subseteq poller'.added,
         \A i \in Attempts : Temp(i) \in poller'.added => Temp(i) \in poller.added
  PROVE  Core'
<1>1. /\ conn'[k].st = "Connected" /\ conn'[k].fd = f
      /\ \A i \in Attempts \ {k} : conn'[i] = conn[i]
  BY DEF TypeOK
<1>2. \A i \in Attempts : client.current # i
  BY NoFdIsNone
<1>3. k \notin Closing /\ Closing \subseteq Attempts
  BY ClosingType DEF Core, ClosingInv
<1>4. \A g \in Fds, i \in Attempts :
        /\ poller'.map[g] = Temp(i) => poller.map[g] = Temp(i)
        /\ poller'.map[g] = Conn(i) => poller.map[g] = Conn(i) \/ (g = f /\ i = k)
  BY Tags
<1>5. FreshInv'
  <2>1. \A i \in Attempts : i \in Nat
    BY NoFdIsNone
  <2>2. \A i \in Attempts : i > attempts' => i > attempts /\ i # k
    BY <2>1
  <2> QED BY <1>1, <2>2, NoFdIsNone DEF Core, FreshInv
<1>6. CurrentInv'
  BY <1>1, <1>2 DEF Core, CurrentInv
<1>7. ClosingInv'
  BY <1>1, <1>3 DEF Core, ClosingInv
<1>8. MapInv' /\ AddedInv'
  <2>1. \A g \in Fds, i \in Attempts : poller'.map[g] = Temp(i) => temp'[i] = g /\ Temp(i) \in poller'.added
    BY <1>4 DEF Core, MapInv
  <2>2. \A g \in Fds : poller.map[g] # Conn(k)
    BY NoFdIsNone DEF Core, MapInv, FreshInv
  <2>3. \A g \in Fds, i \in Attempts : poller'.map[g] = Conn(i) => conn'[i].fd = g
    BY <1>1, <1>4, <2>2 DEF Core, MapInv
  <2> QED BY <2>1, <2>3 DEF Core, MapInv, AddedInv
<1>9. WatchInv'
  <2>1. \A g \in Fds : poller.set[g] # {} =>
          net[g] # "closed" /\ poller.map[g] # None /\ \A i \in Attempts : poller.map[g] # Conn(i)
    BY <1>2 DEF Core, WatchInv
  <2>2. \A g \in Fds \ {f} : poller'.set[g] # {} =>
          net'[g] # "closed" /\ poller'.map[g] # None /\ \A i \in Attempts : poller'.map[g] # Conn(i)
    BY <2>1
  <2>3. poller'.set[f] # {} =>
          /\ net'[f] # "closed" /\ poller'.map[f] # None
          /\ \A i \in Attempts : poller'.map[f] = Conn(i) => i = k
    BY <2>1, Tags
  <2> QED BY <2>2, <2>3 DEF WatchInv
<1>10. HandedInv'
  BY <1>1, <1>4 DEF Core, HandedInv
<1>11. ActiveInv'
  <2>1. \A a \in active', i \in Attempts : a.channel # Conn(i)
    BY <1>2 DEF Core, ActiveInv
  <2>2. \A a \in active', i \in Attempts : a.channel = Temp(i) => temp'[i] # NoFd /\ conn'[i].st = "none"
    BY <1>1 DEF Core, ActiveInv
  <2> QED BY <2>1, <2>2 DEF Core, ActiveInv
<1>12. OwnInv'
  <2>1. \A i \in Attempts : (Owner(i) <=> i \in Closing) /\ (Owner(i)' <=> i = k \/ i \in Closing)
    BY <1>2 DEF Owner
  <2>2. \A i \in Attempts : Owner(i) => conn[i].fd # f /\ conn[i].fd # client.sock
    BY DEF Core, OwnInv
  <2>3. \A i \in Attempts : i \in Closing => conn'[i].fd = conn[i].fd /\ conn[i].fd # f
    BY <1>1, <1>3, <2>1, <2>2
  <2>4. \A i \in Attempts : i \in Closing => conn[i].fd # NoFd
    BY NoFdIsNone DEF Core, ClosingInv, FreshInv
  <2> HIDE DEF Owner
  <2>5. \A g \in Fds : net'[g] # "closed" <=>
          client'.sock = g \/ \E i \in Attempts : Owner(i)' /\ conn'[i].fd = g
    <3> SUFFICES ASSUME NEW g \in Fds
                 PROVE  net'[g] # "closed" <=> \E i \in Attempts : Owner(i)' /\ conn'[i].fd = g
      BY NoFdIsNone
    <3>1. CASE g = f
      BY <1>1, <2>1, <3>1
    <3>2. CASE g # f
      <4>1. net'[g] # "closed" <=> \E i \in Attempts : i \in Closing /\ conn[i].fd = g
        BY <2>1, <2>2, <3>2 DEF Core, OwnInv
      <4> QED BY <1>1, <2>1, <2>3, <3>2, <4>1
    <3> QED BY <3>1, <3>2
  <2>6. \A i \in Attempts : Owner(i)' => conn'[i].fd # client'.sock
    BY <1>1, <2>1, <2>3, <2>4, NoFdIsNone
  <2>7. \A j, i \in Attempts : Owner(j)' /\ Owner(i)' /\ conn'[j].fd = conn'[i].fd => j = i
    BY <1>1, <2>1, <2>3 DEF Core, OwnInv
  <2> QED BY <2>5, <2>6, <2>7 DEF OwnInv
<1> QED BY <1>5, <1>6, <1>7, <1>8, <1>9, <1>10, <1>11, <1>12 DEF Core

\* HandleClose: m_connection is dropped and no longer registered, and closes next.
LEMMA Closes ==
  ASSUME TypeOK, Core, NEW k \in Attempts, client.current = k,
         client'.current = 0, client'.sock = client.sock,
         temp' = temp, attempts' = attempts,
         conn'[k].st = "Disconnected", conn'[k].fd = conn[k].fd,
         \A i \in Attempts \ {k} : conn'[i] = conn[i],
         \A f \in Fds : net'[f] = net[f],
         stack' # <<>>, StackInv', Closing' = Closing \cup {k}, \A i : Below(i) => Below(i)',
         active' \subseteq active, \A a \in active', i \in Attempts : a.channel # Conn(i),
         \A g \in Fds : /\ poller'.map[g] = IF g = conn[k].fd THEN None ELSE poller.map[g]
                        /\ poller'.set[g] = IF g = conn[k].fd THEN {} ELSE poller.set[g],
         \A i \in Attempts : Temp(i) \in poller'.added <=> Temp(i) \in poller.added
  PROVE  Core'
<1>1. conn[k].st \in {"Connected", "Disconnecting"} /\ k # 0
  BY NoFdIsNone DEF Core, CurrentInv
<1>2. \A g \in Fds : poller'.set[g] # {} => poller.set[g] # {} /\ g # conn[k].fd
  OBVIOUS
<1>3. \A g \in Fds, c \in Channels : poller'.map[g] = c => poller.map[g] = c /\ g # conn[k].fd
  BY Tags
<1>4. FreshInv'
  <2>1. conn[k].st # "none"
    BY <1>1
  <2> QED BY <2>1 DEF Core, FreshInv
<1>5. CurrentInv'
  BY NoFdIsNone DEF Core, CurrentInv
<1>6. ClosingInv'
  BY ClosingType DEF Core, ClosingInv
<1>7. MapInv' /\ AddedInv'
  BY <1>3, Tags DEF Core, MapInv, AddedInv
<1>8. WatchInv'
  <2>1. \A g \in Fds : poller'.set[g] # {} =>
          net'[g] # "closed" /\ poller'.map[g] # None /\ poller'.map[g] = poller.map[g]
    BY <1>2 DEF Core, WatchInv
  <2>2. \A g \in Fds, i \in Attempts : poller'.set[g] # {} => poller'.map[g] # Conn(i)
    BY <1>2, <2>1 DEF Core, WatchInv, MapInv
  <2> QED BY <2>1, <2>2 DEF WatchInv
<1>9. HandedInv'
  BY <1>1, <1>3, Tags DEF Core, HandedInv
<1>10. ActiveInv'
  <2>1. \A a \in active, i \in Attempts : a.channel = Temp(i) => i # k
    BY <1>1 DEF Core, ActiveInv
  <2> QED BY <2>1 DEF Core, ActiveInv
<1>11. OwnInv'
  <2>1. \A i \in Attempts : Owner(i)' <=> Owner(i)
    BY NoFdIsNone DEF Owner
  <2>2. \A i \in Attempts : conn'[i].fd = conn[i].fd
    OBVIOUS
  <2> HIDE DEF Owner
  <2> QED BY <2>1, <2>2 DEF Core, OwnInv
<1> QED BY <1>4, <1>5, <1>6, <1>7, <1>8, <1>9, <1>10, <1>11 DEF Core

\* The end of HandleClose: the socket of a connection that is closing is closed.
LEMMA CloseEnds ==
  ASSUME TypeOK, Core, NEW k \in Closing, stack # <<>>,
         client'.current = client.current, client'.sock = client.sock,
         temp' = temp, attempts' = attempts, conn' = conn, active' = active,
         StackInv', Closing' = Closing \ {k}, \A i \in Attempts : Below(i) => Below(i)',
         \A g \in Fds : net'[g] = "closed" <=> net[g] = "closed" \/ g = conn[k].fd,
         poller'.map = poller.map, poller'.added = poller.added,
         \A g \in Fds : poller'.set[g] # {} => poller.set[g] # {} /\ g # conn[k].fd
  PROVE  Core'
<1>1. k \in Attempts /\ client.current # k
  BY ClosingType DEF Core, ClosingInv, CurrentInv
<1>2. FreshInv' /\ CurrentInv' /\ MapInv' /\ AddedInv'
  BY DEF Core, FreshInv, CurrentInv, MapInv, AddedInv
<1>3. ClosingInv'
  BY DEF Core, ClosingInv
<1>4. WatchInv'
  BY DEF Core, WatchInv
<1>5. HandedInv'
  BY DEF Core, HandedInv
<1>6. ActiveInv'
  BY DEF Core, ActiveInv
<1>7. OwnInv'
  <2>1. \A i \in Attempts : Owner(i)' <=> Owner(i) /\ i # k
    BY <1>1 DEF Owner
  <2>2. Owner(k)
    BY DEF Owner
  <2> HIDE DEF Owner
  <2>3. \A f \in Fds : net'[f] # "closed" <=>
          client'.sock = f \/ \E i \in Attempts : Owner(i)' /\ conn'[i].fd = f
    BY <1>1, <2>1, <2>2 DEF Core, OwnInv
  <2> QED BY <2>1, <2>3 DEF Core, OwnInv
<1> QED BY <1>2, <1>3, <1>4, <1>5, <1>6, <1>7 DEF Core

\* ~TcpClient, outside the callbacks: every socket is closed.
LEMMA Destroys ==
  ASSUME TypeOK, Core, stack = <<>>, stack' = stack, active = {}, active' = active,
         client'.current = 0, client'.sock = NoFd, temp' = temp, attempts' = attempts,
         \A i \in Attempts :
           /\ conn'[i].fd = conn[i].fd
           /\ conn'[i].st = IF client.current = i THEN "Disconnected" ELSE conn[i].st,
         \A g \in Fds : net'[g] = "closed" <=> \/ net[g] = "closed" \/ g = client.sock
                                               \/ \E i \in Attempts : client.current = i /\ g = conn[i].fd,
         \A g \in Fds : /\ poller'.map[g] \in {poller.map[g], None}
                        /\ poller'.set[g] # {} => net'[g] # "closed" /\ poller.set[g] # {},
         \A i \in Attempts : Temp(i) \in poller'.added <=> Temp(i) \in poller.added
  PROVE  Core'
<1>1. Closing = {} /\ Closing' = {} /\ \A i : ~Below(i)
  BY DEF Closing, Below
<1>2. \A g \in Fds : net'[g] = "closed"
  BY <1>1 DEF Core, OwnInv, Owner
<1>3. \A i \in Attempts : conn[i].st = "none" => client.current # i
  BY DEF Core, CurrentInv
<1>4. FreshInv'
  BY <1>3 DEF Core, FreshInv
<1>5. CurrentInv'
  BY NoFdIsNone DEF Core, CurrentInv
<1>6. StackInv' /\ ClosingInv'
  BY <1>1 DEF Core, StackInv, ClosingInv
<1>7. MapInv' /\ AddedInv'
  BY Tags DEF Core, MapInv, AddedInv
<1>8. WatchInv'
  BY <1>2 DEF WatchInv
<1>9. HandedInv'
  <2>1. \A f \in Fds, i \in Attempts : poller.map[f] = Temp(i) => conn[i].st = "none"
    BY <1>1 DEF Core, HandedInv
  <2> QED BY <1>3, <2>1, Tags DEF HandedInv
<1>10. ActiveInv'
  BY DEF ActiveInv
<1>11. OwnInv'
  BY <1>1, <1>2, NoFdIsNone DEF OwnInv, Owner
<1> QED BY <1>4, <1>5, <1>6, <1>7, <1>8, <1>9, <1>10, <1>11 DEF Core

\* A round begins: a channel is reported for the fd it is registered under.
LEMMA Polls ==
  ASSUME TypeOK, Core, Poll
  PROVE  TypeOK' /\ Core'
<1>1. ASSUME NEW a \in active'
      PROVE  \E f \in Fds : /\ poller.set[f] # {} /\ poller.map[f] # None
                            /\ a = [channel |-> poller.map[f],
                                    revents |-> EpollEvents(poller, f, ReadyNow[f])]
  <2>1. PICK got \in EpollAnswers(poller, ReadyNow) : a \in EpollActive(poller, ReadyNow, got)
    BY <1>1 DEF Poll, Reported
  <2>2. got \subseteq {f \in Fds : EpollEvents(poller, f, ReadyNow[f]) # {}}
    BY <2>1 DEF EpollAnswers
  <2>3. PICK f \in got : /\ poller.map[f] # None
                         /\ a = [channel |-> poller.map[f],
                                 revents |-> EpollEvents(poller, f, ReadyNow[f])]
    BY <2>1 DEF EpollActive
  <2>4. f \in Fds /\ poller.set[f] # {}
    BY <2>2 DEF EpollEvents
  <2> QED BY <2>3, <2>4
<1>2. active' \in SUBSET [channel : Channels, revents : SUBSET {"read", "write", "err", "hup"}]
  <2> SUFFICES ASSUME NEW a \in active'
               PROVE  a \in [channel : Channels, revents : SUBSET {"read", "write", "err", "hup"}]
    OBVIOUS
  <2>1. PICK f \in Fds : /\ poller.set[f] # {} /\ poller.map[f] # None
                         /\ a = [channel |-> poller.map[f],
                                 revents |-> EpollEvents(poller, f, ReadyNow[f])]
    BY <1>1
  <2>2. poller.map[f] \in Channels /\ poller.set[f] \in SUBSET {"read", "write"}
    BY <2>1 DEF TypeOK
  <2>3. EpollEvents(poller, f, ReadyNow[f]) \in SUBSET {"read", "write", "err", "hup"}
    BY <2>2 DEF EpollEvents
  <2> QED BY <2>1, <2>2, <2>3
<1>3. TypeOK'
  BY <1>2 DEF Poll, TypeOK
<1>4. \A a \in active' : \E f \in Fds, k \in Attempts :
        /\ poller.set[f] # {} /\ poller.map[f] = a.channel
        /\ a.revents = EpollEvents(poller, f, ReadyNow[f])
        /\ a.channel = Temp(k) \/ a.channel = Conn(k)
        /\ a.channel = Temp(k) => temp[k] = f
        /\ a.channel = Conn(k) => conn[k].fd = f
  <2> SUFFICES ASSUME NEW a \in active'
               PROVE  \E f \in Fds, k \in Attempts :
                        /\ poller.set[f] # {} /\ poller.map[f] = a.channel
                        /\ a.revents = EpollEvents(poller, f, ReadyNow[f])
                        /\ a.channel = Temp(k) \/ a.channel = Conn(k)
                        /\ a.channel = Temp(k) => temp[k] = f
                        /\ a.channel = Conn(k) => conn[k].fd = f
    OBVIOUS
  <2>1. PICK f \in Fds : /\ poller.set[f] # {} /\ poller.map[f] # None
                         /\ a = [channel |-> poller.map[f],
                                 revents |-> EpollEvents(poller, f, ReadyNow[f])]
    BY <1>1
  <2>2. a.channel = poller.map[f] /\ a.revents = EpollEvents(poller, f, ReadyNow[f])
    BY <2>1
  <2>3. PICK k \in Attempts : a.channel = Temp(k) \/ a.channel = Conn(k)
    BY <1>2, Tags
  <2> QED BY <2>1, <2>2, <2>3 DEF Core, MapInv
<1>5. stack = <<>> /\ \A k : ~Below(k)
  BY DEF Poll, Below
<1>6. ActiveInv'
  <2>1. \A a \in active', k \in Attempts : a.channel = Conn(k) => client.current = k
    BY <1>4 DEF Core, WatchInv
  <2>2. \A a \in active', k \in Attempts : a.channel = Temp(k) => temp[k] # NoFd /\ conn[k].st = "none"
    BY <1>4, <1>5, NoFdIsNone, Tags DEF Core, HandedInv
  <2>3. ASSUME NEW a \in active', NEW b \in active', a.channel = b.channel PROVE a = b
    <3>1. PICK f \in Fds, k \in Attempts :
            /\ poller.map[f] = a.channel /\ a.revents = EpollEvents(poller, f, ReadyNow[f])
            /\ a.channel = Temp(k) \/ a.channel = Conn(k)
            /\ a.channel = Temp(k) => temp[k] = f
            /\ a.channel = Conn(k) => conn[k].fd = f
      BY <1>4
    <3>2. PICK g \in Fds, j \in Attempts :
            /\ poller.map[g] = b.channel /\ b.revents = EpollEvents(poller, g, ReadyNow[g])
            /\ b.channel = Temp(j) \/ b.channel = Conn(j)
            /\ b.channel = Temp(j) => temp[j] = g
            /\ b.channel = Conn(j) => conn[j].fd = g
      BY <1>4
    <3>3. j = k
      BY <2>3, <3>1, <3>2, Tags
    <3>4. f = g
      BY <2>3, <3>1, <3>2, <3>3
    <3> QED BY <1>2, <2>3, <3>1, <3>2, <3>4
  <2> QED BY <1>5, <2>1, <2>2, <2>3 DEF Poll, ActiveInv
<1>7. UNCHANGED <<client, conn, temp, poller, net, stack, attempts>>
  BY DEF Poll
<1>8. Closing' = Closing /\ \A k : Below(k)' <=> Below(k)
  BY <1>7 DEF Closing, Below
<1>9. FreshInv' /\ CurrentInv' /\ StackInv' /\ ClosingInv'
  BY <1>7, <1>8 DEF Core, FreshInv, CurrentInv, StackInv, ClosingInv
<1>10. MapInv' /\ AddedInv' /\ WatchInv' /\ HandedInv'
  BY <1>7, <1>8 DEF Core, MapInv, AddedInv, WatchInv, HandedInv
<1>11. OwnInv'
  BY <1>7, <1>8 DEF Core, OwnInv, Owner
<1> QED BY <1>3, <1>6, <1>9, <1>10, <1>11 DEF Core

-----------------------------------------------------------------------------
(* Steps of the code.                                                      *)

NetState == {"closed", "syn", "up", "data", "eof", "error"}

\* Closing a socket, seen from the kernel.
LEMMA NetCloses ==
  ASSUME NEW n \in [Fds -> NetState], NEW f \in Fds \cup {NoFd}
  PROVE  /\ CloseFd(n, f) \in [Fds -> NetState]
         /\ \A g \in Fds : CloseFd(n, f)[g] = IF g = f THEN "closed" ELSE n[g]
<1>1. CASE f = NoFd
  BY <1>1, NoFdIsNone DEF CloseFd
<1>2. CASE f # NoFd
  BY <1>2 DEF CloseFd, NetState
<1> QED BY <1>1, <1>2

\* The connection in m_connection has a socket, which is open.
LEMMA CurrentIsOpen ==
  ASSUME TypeOK, Core, NEW k \in Attempts, client.current = k
  PROVE  /\ conn[k].fd \in Fds /\ net[conn[k].fd] # "closed"
         /\ conn[k].st \in {"Connected", "Disconnecting"} /\ k \notin Closing
<1>1. conn[k].st \in {"Connected", "Disconnecting"}
  BY DEF Core, CurrentInv
<1>2. conn[k].fd \in Fds
  BY <1>1 DEF Core, FreshInv, TypeOK, Connection
<1>3. net[conn[k].fd] # "closed"
  BY <1>2 DEF Core, OwnInv, Owner
<1> QED BY <1>1, <1>2, <1>3 DEF Core, ClosingInv

\* Nothing is said to the poller.
LEMMA Same ==
  ASSUME TypeOK, Core, StackQuiet,
         client'.current = client.current, client'.sock = client.sock,
         temp' = temp, attempts' = attempts, active' \subseteq active, conn' = conn,
         \A f \in Fds : net'[f] = "closed" <=> net[f] = "closed", poller' = poller
  PROVE  Core'
<1>1. \A f \in Fds :
        /\ poller'.map[f] \in {poller.map[f], None}
        /\ poller'.set[f] # {} => poller'.map[f] # None /\ poller.set[f] # {}
  BY DEF Core, WatchInv
<1>2. \A f \in Fds, k \in Attempts : poller'.map[f] = Temp(k) => Temp(k) \in poller'.added
  BY DEF Core, MapInv
<1> QED BY <1>1, <1>2, Quiet

\* The interest of the connection in m_connection is announced.
LEMMA Announces ==
  ASSUME TypeOK, Core, StackQuiet, NEW k \in Attempts, client.current = k,
         NEW ev \in SUBSET {"read", "write"}, ev # {},
         poller' = EpollUpdate(poller, Conn(k), conn[k].fd, ev),
         client'.current = client.current, client'.sock = client.sock,
         temp' = temp, attempts' = attempts, active' \subseteq active,
         \A i \in Attempts :
           /\ conn'[i].fd = conn[i].fd
           /\ \/ conn'[i].st = conn[i].st
              \/ conn[i].st = "Connected" /\ conn'[i].st = "Disconnecting",
         \A f \in Fds : net'[f] = "closed" <=> net[f] = "closed"
  PROVE  Core' /\ poller' \in PollerRecord
<1> DEFINE f == conn[k].fd
<1>1. f \in Fds /\ poller \in PollerRecord /\ Conn(k) \in Channels
  BY CurrentIsOpen, Tags DEF TypeOK, PollerRecord
<1> HIDE DEF f
<1>2. /\ poller' \in PollerRecord
      /\ poller'.added = IF poller.map[f] = None THEN poller.added \cup {Conn(k)} ELSE poller.added
      /\ poller'.map[f] = IF poller.map[f] = None THEN Conn(k) ELSE poller.map[f]
      /\ poller'.set[f] # {} => poller.map[f] = None \/ poller.set[f] # {}
      /\ \A g \in Fds : g # f => poller'.map[g] = poller.map[g] /\ poller'.set[g] = poller.set[g]
  <2>1. poller' = EpollUpdate(poller, Conn(k), f, ev)
    BY DEF f
  <2>2. ev \in SUBSET {"read", "write"} /\ ev # {}
    OBVIOUS
  <2> QED BY ONLY <1>1, <2>1, <2>2, Learns, ZenonT(60)
<1>3. \A g \in Fds : poller.set[g] # {} => poller.map[g] # None
  BY DEF Core, WatchInv
<1>4. \A g \in Fds :
        \/ /\ poller'.map[g] \in {poller.map[g], None}
           /\ poller'.set[g] # {} => poller'.map[g] # None /\ poller.set[g] # {}
        \/ /\ poller.map[g] = None
           /\ \E i \in Attempts : client.current = i /\ conn[i].fd = g /\ poller'.map[g] = Conn(i)
  <2> SUFFICES ASSUME NEW g \in Fds
               PROVE  \/ /\ poller'.map[g] \in {poller.map[g], None}
                         /\ poller'.set[g] # {} => poller'.map[g] # None /\ poller.set[g] # {}
                      \/ /\ poller.map[g] = None
                         /\ \E i \in Attempts : client.current = i /\ conn[i].fd = g /\ poller'.map[g] = Conn(i)
    OBVIOUS
  <2>1. CASE g = f /\ poller.map[g] = None
    BY <1>2, <2>1 DEF f
  <2>2. CASE ~(g = f /\ poller.map[g] = None)
    BY <1>2, <1>3, <2>2
  <2> QED BY <2>1, <2>2
<1>5. \A g \in Fds, i \in Attempts : poller'.map[g] = Temp(i) => poller.map[g] = Temp(i)
  BY <1>2, Tags
<1>6. \A g \in Fds, i \in Attempts : poller'.map[g] = Temp(i) => Temp(i) \in poller'.added
  BY <1>2, <1>5 DEF Core, MapInv
<1>7. \A i \in Attempts : Temp(i) \in poller'.added => Temp(i) \in poller.added
  BY <1>2, Tags
<1>8. Core'
  BY <1>4, <1>6, <1>7, Quiet
<1> QED BY <1>2, <1>8

\* HandleConnect keeps the types, also when it meets a connection and aborts.
LEMMA HandleConnectType ==
  ASSUME TypeOK, NEW k \in Attempts, NEW f \in Fds, NEW j \in Attempts \cup {0},
         NEW p \in PollerRecord, NEW c \in Client, HandleConnect(k, f, j, p, c)
  PROVE  /\ client' \in Client /\ conn' \in [Attempts -> Connection] /\ poller' \in PollerRecord
         /\ stack' \in Seq(Frame) /\ aborted' \in BOOLEAN
<1>1. stack \in Seq(Frame) /\ poller \in PollerRecord
  BY DEF TypeOK, PollerRecord, Frame
<1>2. CASE client.current # 0
  BY <1>1, <1>2 DEF HandleConnect, TypeOK
<1>3. CASE client.current = 0
  <2>1. client' \in Client /\ conn' \in [Attempts -> Connection] /\ aborted' \in BOOLEAN
    <3>1. [st |-> "Connected", fd |-> f, ev |-> {"read"}, out |-> FALSE] \in Connection
      BY DEF Connection
    <3>2. conn' \in [Attempts -> Connection]
      BY <1>3, <3>1 DEF HandleConnect, TypeOK
    <3>3. client' \in Client
      BY <1>3 DEF HandleConnect, Client
    <3>4. aborted' \in BOOLEAN
      BY <1>3 DEF HandleConnect, TypeOK
    <3> QED BY <3>2, <3>3, <3>4
  <2>2. Callback("conncb", k, j) \in Frame
    BY DEF Callback, Callbacks, Frame
  <2>3. stack' = Append(stack, Callback("conncb", k, j)) /\ poller' = EpollUpdate(p, Conn(k), f, {"read"})
    BY <1>3 DEF HandleConnect
  <2>4. stack' \in Seq(Frame)
    BY <1>1, <2>2, <2>3
  <2>5. poller' \in PollerRecord
    <3>1. Conn(k) \in Channels /\ {"read"} \in SUBSET {"read", "write"} /\ {"read"} # {}
      BY Tags
    <3> QED BY <2>3, <3>1, Learns, ZenonT(60)
  <2> QED BY <2>1, <2>4, <2>5
<1> QED BY <1>2, <1>3

\* HandleConnect for a socket f, new or in m_socket, when there is no connection.
LEMMA HandleConnectStep ==
  ASSUME TypeOK, Core, NEW k \in Attempts, NEW f \in Fds, NEW j \in {0, k},
         NEW p \in PollerRecord, NEW c \in Client, HandleConnect(k, f, j, p, c),
         client.current = 0, conn[k].st = "none", f = client.sock \/ net[f] = "closed",
         p.map = poller.map, p.added = poller.added, p.set[f] = poller.set[f],
         \A g \in Fds \ {f} : p.set[g] # {} => poller.set[g] # {} /\ g # client.sock,
         j = 0 => \A g \in Fds : poller.map[g] # Temp(k),
         j = k => stack = <<>>,
         temp' = temp, active' \subseteq active, \A a \in active' : a.channel # Temp(k),
         attempts' \in Nat, attempts <= attempts', k <= attempts',
         \A g \in Fds : net'[g] = "closed" <=> g # f /\ (net[g] = "closed" \/ g = client.sock)
  PROVE  Core'
<1>1. /\ client' = [c EXCEPT !.connecting = FALSE, !.sock = NoFd, !.current = k]
      /\ conn' = [conn EXCEPT ![k] = [st |-> "Connected", fd |-> f, ev |-> {"read"}, out |-> FALSE]]
      /\ poller' = EpollUpdate(p, Conn(k), f, {"read"})
      /\ stack' = Append(stack, Callback("conncb", k, j))
  BY DEF HandleConnect
<1>2. client'.current = k /\ client'.sock = NoFd
  BY <1>1 DEF Client
<1>3. /\ stack' \in Seq(Frame) /\ StackInv' /\ stack' # <<>> /\ Closing' = Closing
      /\ \A i : Below(i) => Below(i)'
      /\ stack = <<>> => Below(j)'
  <2>1. stack \in Seq(Frame) /\ StackInv /\ j \in Attempts \cup {0} /\ k # 0
    BY NoFdIsNone DEF TypeOK, Frame, Core
  <2>2. j # 0 => stack = <<>>
    OBVIOUS
  <2>3. "conncb" \in Callbacks
    BY DEF Callbacks
  <2> QED BY <1>1, <2>1, <2>2, <2>3, Enters
<1>4. /\ poller'.added = IF p.map[f] = None THEN p.added \cup {Conn(k)} ELSE p.added
      /\ poller'.map[f] = IF p.map[f] = None THEN Conn(k) ELSE p.map[f]
      /\ poller'.set[f] # {} => p.map[f] = None \/ p.set[f] # {}
      /\ \A g \in Fds : g # f => poller'.map[g] = p.map[g] /\ poller'.set[g] = p.set[g]
  <2> DEFINE ev == {"read"}
  <2>1. Conn(k) \in Channels /\ ev \in SUBSET {"read", "write"} /\ ev # {}
    BY Tags
  <2>2. p \in PollerRecord /\ f \in Fds /\ poller' = EpollUpdate(p, Conn(k), f, ev)
    BY <1>1
  <2> HIDE DEF ev
  <2>4. LET q == EpollUpdate(p, Conn(k), f, ev) IN
        /\ q \in PollerRecord
        /\ q.added = IF p.map[f] = None THEN p.added \cup {Conn(k)} ELSE p.added
        /\ q.map[f] = IF p.map[f] = None THEN Conn(k) ELSE p.map[f]
        /\ q.set[f] # {} => p.map[f] = None \/ p.set[f] # {}
        /\ \A g \in Fds : g # f => q.map[g] = p.map[g] /\ q.set[g] = p.set[g]
    BY ONLY <2>1, <2>2, Learns, ZenonT(60)
  <2> QED BY ONLY <2>2, <2>4
<1>5. \A g \in Fds : poller.map[g] = Temp(k) => Below(k)'
  BY <1>3
<1>6. attempts \in Nat
  BY DEF TypeOK
<1>7. \A i \in Attempts : Temp(i) \in poller'.added => Temp(i) \in poller.added
  BY <1>4, Tags
<1>8. poller.added \subseteq poller'.added
  BY <1>4
<1>9. \A g \in Fds \ {f} :
        /\ poller'.map[g] = poller.map[g]
        /\ poller'.set[g] # {} => poller.set[g] # {} /\ g # client.sock
  BY <1>4
<1>10. /\ poller'.map[f] = IF poller.map[f] = None THEN Conn(k) ELSE poller.map[f]
       /\ poller'.set[f] # {} => poller.map[f] = None \/ poller.set[f] # {}
  BY <1>4
<1> QED BY <1>1, <1>2, <1>3, <1>5, <1>6, <1>7, <1>8, <1>9, <1>10, HandsOver

\* HandleClose of the connection in m_connection.
LEMMA HandleCloseStep ==
  ASSUME TypeOK, Core, NEW k \in Attempts, client.current = k,
         NEW c \in Client, c.sock = client.sock, HandleClose(k, c),
         temp' = temp, attempts' = attempts, net' = net,
         active' \subseteq active, \A a \in active', i \in Attempts : a.channel # Conn(i)
  PROVE  /\ Core' /\ client' \in Client /\ conn' \in [Attempts -> Connection]
         /\ poller' \in PollerRecord /\ stack' \in Seq(Frame)
<1> DEFINE f == conn[k].fd
<1>1. /\ conn' = [conn EXCEPT ![k] = [conn[k] EXCEPT !.st = "Disconnected", !.ev = {}]]
      /\ poller' = EpollRemove(poller, Conn(k), f)
      /\ client' = [c EXCEPT !.current = 0]
      /\ stack' = Append(stack, Callback("closecb", k, 0))
  BY DEF HandleClose, EpollUpdate
<1>2. client' \in Client /\ client'.current = 0 /\ client'.sock = client.sock
  BY <1>1 DEF Client
<1>3. conn[k] \in Connection /\ conn \in [Attempts -> Connection]
  BY DEF TypeOK
<1>4. [conn[k] EXCEPT !.st = "Disconnected", !.ev = {}] \in Connection
  BY <1>3 DEF Connection
<1>5. /\ conn' \in [Attempts -> Connection] /\ conn'[k].st = "Disconnected" /\ conn'[k].fd = conn[k].fd
      /\ \A i \in Attempts \ {k} : conn'[i] = conn[i]
  <2>1. conn'[k] = [conn[k] EXCEPT !.st = "Disconnected", !.ev = {}]
    BY <1>1, <1>3
  <2>2. conn' \in [Attempts -> Connection] /\ \A i \in Attempts \ {k} : conn'[i] = conn[i]
    BY <1>1, <1>3, <1>4
  <2>3. conn'[k].st = "Disconnected" /\ conn'[k].fd = conn[k].fd
    BY <1>3, <2>1 DEF Connection
  <2> QED BY <2>2, <2>3
<1>6. f \in Fds /\ k \notin Closing
  BY CurrentIsOpen
<1>7. /\ stack' \in Seq(Frame) /\ StackInv' /\ stack' # <<>> /\ Closing' = Closing \cup {k}
      /\ \A i : Below(i) => Below(i)'
  <2>1. stack \in Seq(Frame) /\ StackInv
    BY DEF TypeOK, Frame, Core
  <2>2. "closecb" \in Callbacks
    BY DEF Callbacks
  <2> QED BY <1>1, <1>6, <2>1, <2>2, Enters
<1>8. /\ poller' \in PollerRecord /\ poller'.added \subseteq poller.added
      /\ poller.added \ {Conn(k)} \subseteq poller'.added
      /\ \A g \in Fds : /\ poller'.map[g] = IF g = f THEN None ELSE poller.map[g]
                        /\ poller'.set[g] = IF g = f THEN {} ELSE poller.set[g]
  <2>1. /\ poller \in PollerRecord /\ Conn(k) \in Channels
        /\ poller.set[f] # {} => poller.map[f] # None
    BY <1>6, Tags DEF TypeOK, PollerRecord, Core, WatchInv
  <2> HIDE DEF f
  <2> QED BY ONLY <1>1, <1>6, <2>1, Forgets
<1>9. \A i \in Attempts : Temp(i) \in poller'.added <=> Temp(i) \in poller.added
  BY <1>8, Tags
<1>10. \A g \in Fds : net'[g] = net[g]
  OBVIOUS
<1>11. Core'
  BY <1>2, <1>5, <1>7, <1>8, <1>9, <1>10, Closes
<1> QED BY <1>2, <1>5, <1>7, <1>8, <1>11

-----------------------------------------------------------------------------
(* The actions.                                                            *)

\* What a step of the user's code finds.
LEMMA CallFinds ==
  ASSUME IInv, Call
  PROVE  /\ TypeOK /\ Core /\ ~aborted /\ (stack # <<>> \/ active = {})
         /\ \A a \in active, i \in Attempts : a.channel # Conn(i)
BY DEF IInv, Call, UserCode, Core, ActiveInv

\* SetAutoReconnect keeps the invariant.
LEMMA SetAutoReconnectStep ==
  ASSUME IInv, SetAutoReconnect
  PROVE  IInv'
<1>1. TypeOK /\ Core
  BY CallFinds DEF SetAutoReconnect
<1>2. /\ client' = [client EXCEPT !.auto = ~@]
      /\ UNCHANGED <<conn, temp, poller, net, active, stack, aborted, gone, attempts>>
  BY DEF SetAutoReconnect
<1>3. client' \in Client /\ client'.current = client.current /\ client'.sock = client.sock
  <2>1. client \in Client
    BY <1>1 DEF TypeOK
  <2> QED BY <1>2, <2>1 DEF Client
<1>4. TypeOK'
  BY <1>1, <1>2, <1>3 DEF TypeOK
<1>5. Core'
  BY <1>1, <1>2, <1>3, Still, Same
<1> QED BY <1>4, <1>5 DEF IInv

\* Connect past its test of m_started.
LEMMA StartConnectStep ==
  ASSUME TypeOK, Core, ~aborted, NEW f \in Fds, net[f] = "closed",
         attempts < MaxAttempts, attempts' = attempts + 1,
         StartConnect(attempts + 1, f, client), active' = active, gone' = gone,
         active # {} => stack # <<>>
  PROVE  IInv'
<1> DEFINE k == attempts + 1
           p == CloseWatch(poller, client.sock)
           n == CloseFd(net, client.sock)
           c == [client EXCEPT !.started = TRUE, !.connecting = TRUE, !.sock = f]
<1>1. k \in Attempts /\ attempts \in Nat /\ attempts' \in 0..MaxAttempts /\ attempts' \in Nat /\ attempts <= attempts' /\ k <= attempts' /\ k > attempts
  BY ClientAssumption DEF TypeOK, Attempts
<1>2. /\ p \in PollerRecord /\ p.map = poller.map /\ p.added = poller.added
      /\ \A g \in Fds : p.set[g] = IF g = client.sock THEN {} ELSE poller.set[g]
  <2>1. poller \in PollerRecord /\ client.sock \in Fds \cup {NoFd}
    BY DEF TypeOK, PollerRecord, Client
  <2> QED BY <2>1, Closed
<1>3. n \in [Fds -> NetState] /\ \A g \in Fds : n[g] = IF g = client.sock THEN "closed" ELSE net[g]
  <2>1. net \in [Fds -> NetState] /\ client.sock \in Fds \cup {NoFd}
    BY DEF TypeOK, NetState, Client
  <2> QED BY <2>1, NetCloses
<1>4. c \in Client /\ c.current = client.current /\ c.sock = f
  BY DEF TypeOK, Client
<1>5. conn[k].st = "none" /\ temp[k] = NoFd
  BY <1>1 DEF Core, FreshInv
<1>6. f # client.sock /\ poller.set[f] = {}
  BY DEF Core, OwnInv, WatchInv
<1>7. \A g \in Fds : p.set[g] # {} => poller.set[g] # {} /\ g # client.sock /\ poller.map[g] # None
  BY <1>2 DEF Core, WatchInv
<1>8. \/ /\ HandleConnect(k, f, 0, p, c) /\ net' = [n EXCEPT ![f] = "up"] /\ temp' = temp
      \/ /\ temp' = [temp EXCEPT ![k] = f] /\ poller' = EpollUpdate(p, Temp(k), f, {"write"})
         /\ net' = [n EXCEPT ![f] = "syn"] /\ client' = c /\ UNCHANGED <<conn, stack, aborted>>
      \/ /\ client' = [c EXCEPT !.started = FALSE, !.connecting = FALSE, !.sock = NoFd]
         /\ poller' = p /\ net' = n /\ UNCHANGED <<conn, temp, stack, aborted>>
  BY DEF StartConnect
<1>9. \A s \in {"up", "syn"} : [n EXCEPT ![f] = s] \in [Fds -> NetState] /\
        \A g \in Fds : [n EXCEPT ![f] = s][g] = "closed" <=> g # f /\ (net[g] = "closed" \/ g = client.sock)
  BY <1>3 DEF NetState
<1> HIDE DEF k, p, n, c
<1>10. CASE HandleConnect(k, f, 0, p, c) /\ net' = [n EXCEPT ![f] = "up"] /\ temp' = temp
  <2>1. /\ client' \in Client /\ conn' \in [Attempts -> Connection] /\ poller' \in PollerRecord
        /\ stack' \in Seq(Frame) /\ aborted' \in BOOLEAN
    BY <1>1, <1>2, <1>4, <1>10, HandleConnectType
  <2>2. /\ net' \in [Fds -> NetState]
        /\ \A g \in Fds : net'[g] = "closed" <=> g # f /\ (net[g] = "closed" \/ g = client.sock)
    BY <1>9, <1>10
  <2>3. TypeOK'
    BY <1>1, <1>10, <2>1, <2>2 DEF TypeOK, PollerRecord, NetState, Frame
  <2>4. ASSUME ~aborted' PROVE Core'
    <3>1. client.current = 0
      BY <1>10, <2>4 DEF HandleConnect
    <3>2. \A g \in Fds : poller.map[g] # Temp(k)
      BY <1>1, <1>5, NoFdIsNone DEF Core, MapInv
    <3>3. \A a \in active' : a.channel # Temp(k)
      BY <1>1, <1>5 DEF Core, ActiveInv
    <3>4. p.set[f] = poller.set[f]
      BY <1>2, <1>6
    <3>5. 0 \in {0, k} /\ 0 # k
      BY <1>1, NoFdIsNone
    <3> QED BY <1>1, <1>2, <1>4, <1>5, <1>7, <1>10, <2>2, <3>1, <3>2, <3>3, <3>4, <3>5, HandleConnectStep
  <2> QED BY <2>3, <2>4 DEF IInv
<1>11. CASE /\ temp' = [temp EXCEPT ![k] = f] /\ poller' = EpollUpdate(p, Temp(k), f, {"write"})
            /\ net' = [n EXCEPT ![f] = "syn"] /\ client' = c /\ UNCHANGED <<conn, stack, aborted>>
  <2>1. LET q == EpollUpdate(p, Temp(k), f, {"write"}) IN
        /\ q \in PollerRecord
        /\ q.added = IF p.map[f] = None THEN p.added \cup {Temp(k)} ELSE p.added
        /\ q.map[f] = IF p.map[f] = None THEN Temp(k) ELSE p.map[f]
        /\ q.set[f] # {} => p.map[f] = None \/ p.set[f] # {}
        /\ \A g \in Fds : g # f => q.map[g] = p.map[g] /\ q.set[g] = p.set[g]
    <3> DEFINE ev == {"write"}
    <3>1. Temp(k) \in Channels /\ ev \in SUBSET {"read", "write"} /\ ev # {}
      BY <1>1, Tags
    <3>2. f \in Fds /\ p \in PollerRecord
      BY <1>2
    <3> HIDE DEF ev
    <3>3. LET q == EpollUpdate(p, Temp(k), f, ev) IN
          /\ q \in PollerRecord
          /\ q.added = IF p.map[f] = None THEN p.added \cup {Temp(k)} ELSE p.added
          /\ q.map[f] = IF p.map[f] = None THEN Temp(k) ELSE p.map[f]
          /\ q.set[f] # {} => p.map[f] = None \/ p.set[f] # {}
          /\ \A g \in Fds : g # f => q.map[g] = p.map[g] /\ q.set[g] = p.set[g]
      BY ONLY <3>1, <3>2, Learns, ZenonT(60)
    <3> QED BY <3>3 DEF ev
  <2>2. /\ poller' \in PollerRecord
        /\ poller'.added = IF poller.map[f] = None THEN poller.added \cup {Temp(k)} ELSE poller.added
        /\ poller'.map[f] = IF poller.map[f] = None THEN Temp(k) ELSE poller.map[f]
        /\ poller'.set[f] # {} => poller.map[f] = None \/ p.set[f] # {}
        /\ \A g \in Fds : g # f => poller'.map[g] = poller.map[g] /\ poller'.set[g] = p.set[g]
    BY ONLY <1>2, <1>11, <2>1
  <2>3. /\ net' \in [Fds -> NetState]
        /\ \A g \in Fds : net'[g] = "closed" <=> g # f /\ (net[g] = "closed" \/ g = client.sock)
    BY <1>9, <1>11
  <2>4. temp' \in [Attempts -> Fds \cup {NoFd}] /\ client' \in Client
    BY <1>4, <1>11 DEF TypeOK
  <2>5. TypeOK'
    BY <1>1, <1>11, <2>2, <2>3, <2>4 DEF TypeOK, PollerRecord, NetState
  <2>6. \A g \in Fds \ {f} :
          /\ poller'.map[g] = poller.map[g]
          /\ poller'.set[g] # {} => poller.set[g] # {} /\ g # client.sock
    BY <1>7, <2>2
  <2>7. poller'.set[f] # {} => poller.map[f] = None \/ poller.set[f] # {}
    BY <1>7, <2>2
  <2>8. /\ poller.added \subseteq poller'.added
        /\ poller.map[f] = None => Temp(k) \in poller'.added
        /\ \A i \in Attempts \ {k} : Temp(i) \in poller'.added => Temp(i) \in poller.added
    BY <2>2, Tags
  <2>9. client'.current = client.current /\ client'.sock = f /\ k = attempts + 1
    BY <1>4, <1>11 DEF k
  <2>10. Core'
    <3>1. /\ TypeOK /\ Core /\ k \in Attempts /\ f \in Fds /\ net[f] = "closed"
          /\ temp' = [temp EXCEPT ![k] = f] /\ conn' = conn /\ active' = active /\ stack' = stack
          /\ attempts' = attempts + 1
          /\ poller'.map[f] = IF poller.map[f] = None THEN Temp(k) ELSE poller.map[f]
          /\ \A g \in Fds : net'[g] = "closed" <=> g # f /\ (net[g] = "closed" \/ g = client.sock)
      BY <1>1, <1>11, <2>2, <2>3
    <3> QED BY ONLY <2>6, <2>7, <2>8, <2>9, <3>1, Opens, ZenonT(60)
  <2> QED BY <2>5, <2>10 DEF IInv
<1>12. CASE /\ client' = [c EXCEPT !.started = FALSE, !.connecting = FALSE, !.sock = NoFd]
            /\ poller' = p /\ net' = n /\ UNCHANGED <<conn, temp, stack, aborted>>
  <2>1. client' \in Client /\ client'.current = client.current /\ client'.sock = NoFd
    BY <1>4, <1>12 DEF Client
  <2>2. TypeOK'
    BY <1>1, <1>2, <1>3, <1>12, <2>1 DEF TypeOK, PollerRecord, NetState
  <2>3. StackInv' /\ Closing' = Closing /\ \A i : Below(i) => Below(i)'
    BY <1>12 DEF Core, StackInv, Closing, Below
  <2>4. \A g \in Fds : net'[g] = "closed" <=> net[g] = "closed" \/ g = client.sock
    BY <1>3, <1>12
  <2>5. \A g \in Fds :
          /\ poller'.map[g] \in {poller.map[g], None}
          /\ poller'.set[g] # {} => poller'.map[g] # None /\ poller.set[g] # {} /\ g # client.sock
    BY <1>2, <1>7, <1>12
  <2>6. \A g \in Fds, i \in Attempts : poller'.map[g] = Temp(i) => Temp(i) \in poller'.added
    BY <1>2, <1>12 DEF Core, MapInv
  <2>7. poller'.added = poller.added
    BY <1>2, <1>12
  <2>8. Core'
    BY <1>1, <1>12, <2>1, <2>3, <2>4, <2>5, <2>6, <2>7, SockGone
  <2> QED BY <2>2, <2>8 DEF IInv
<1> QED BY <1>8, <1>10, <1>11, <1>12

\* Connect keeps the invariant, in each of its outcomes.
LEMMA ConnectStep ==
  ASSUME IInv, Connect
  PROVE  IInv'
<1>1. TypeOK /\ Core /\ ~aborted /\ (active # {} => stack # <<>>)
  BY CallFinds DEF Connect
<1>2. CASE client' = client /\ UNCHANGED <<conn, temp, poller, net, stack, aborted, attempts>>
  <2>1. UNCHANGED <<active, gone>>
    BY DEF Connect
  <2>2. TypeOK'
    BY <1>1, <1>2, <2>1 DEF TypeOK
  <2>3. Core'
    BY <1>1, <1>2, <2>1, Still, Same
  <2> QED BY <2>2, <2>3 DEF IInv
<1>3. ASSUME attempts < MaxAttempts, attempts' = attempts + 1,
             NEW f \in Fds, net[f] = "closed", StartConnect(attempts + 1, f, client)
      PROVE  IInv'
  <2>1. active' = active /\ gone' = gone
    BY DEF Connect
  <2> QED BY <1>1, <1>3, <2>1, StartConnectStep
<1> QED BY <1>2, <1>3 DEF Connect, ConnectBody

\* A connection that is still written to is also watched for writing: Disconnect and Send.
LEMMA WatchesOutput ==
  ASSUME TypeOK, Core, NEW k \in Attempts, client.current = k,
         NEW st \in {"Connected", "Disconnecting"}, conn[k].st = "Connected", NEW out \in BOOLEAN,
         conn' = [conn EXCEPT ![k] = [conn[k] EXCEPT !.st = st, !.out = out, !.ev = @ \cup {"write"}]],
         poller' = IF "write" \in conn[k].ev THEN poller
                   ELSE EpollUpdate(poller, Conn(k), conn[k].fd, conn'[k].ev),
         client'.current = client.current, client'.sock = client.sock,
         temp' = temp, stack' = stack, attempts' = attempts, active' = active, net' = net
  PROVE  Core' /\ conn' \in [Attempts -> Connection] /\ poller' \in PollerRecord
<1> DEFINE e == [conn[k] EXCEPT !.st = st, !.out = out, !.ev = @ \cup {"write"}]
<1>1. conn[k] \in Connection /\ conn \in [Attempts -> Connection]
  BY DEF TypeOK
<1>2. e \in Connection /\ e.fd = conn[k].fd /\ e.st = st /\ e.ev = conn[k].ev \cup {"write"}
  BY <1>1 DEF Connection
<1>3. conn' = [conn EXCEPT ![k] = e]
  OBVIOUS
<1> HIDE DEF e
<1>4. conn' \in [Attempts -> Connection] /\ conn'[k] = e /\ \A i \in Attempts \ {k} : conn'[i] = conn[i]
  BY <1>1, <1>2, <1>3
<1>5. \A i \in Attempts :
        /\ conn'[i].fd = conn[i].fd
        /\ conn'[i].st = conn[i].st \/ (conn[i].st = "Connected" /\ conn'[i].st = "Disconnecting")
  <2>1. conn'[k].fd = conn[k].fd /\ conn'[k].st = st
    BY <1>2, <1>4
  <2> QED BY <1>4, <2>1
<1>6. CASE "write" \in conn[k].ev
  <2>1. poller' = poller /\ poller \in PollerRecord
    BY <1>6 DEF TypeOK, PollerRecord
  <2>2. \A f \in Fds :
          /\ poller'.map[f] \in {poller.map[f], None}
          /\ poller'.set[f] # {} => poller'.map[f] # None /\ poller.set[f] # {}
    BY <2>1 DEF Core, WatchInv
  <2>3. \A f \in Fds, i \in Attempts : poller'.map[f] = Temp(i) => Temp(i) \in poller'.added
    BY <2>1 DEF Core, MapInv
  <2>4. \A f \in Fds : net'[f] = "closed" <=> net[f] = "closed"
    OBVIOUS
  <2>5. \A i \in Attempts : Temp(i) \in poller'.added => Temp(i) \in poller.added
    BY <2>1
  <2>6. Core'
    BY <1>5, <2>2, <2>3, <2>4, <2>5, Still, Quiet
  <2> QED BY <1>4, <2>1, <2>6
<1>7. CASE "write" \notin conn[k].ev
  <2>1. /\ poller' = EpollUpdate(poller, Conn(k), conn[k].fd, e.ev)
        /\ e.ev \in SUBSET {"read", "write"} /\ e.ev # {}
    BY <1>1, <1>2, <1>4, <1>7 DEF Connection
  <2>2. \A f \in Fds : net'[f] = "closed" <=> net[f] = "closed"
    OBVIOUS
  <2>3. Core' /\ poller' \in PollerRecord
    BY <1>5, <2>1, <2>2, Still, Announces
  <2> QED BY <1>4, <2>3
<1> QED BY <1>6, <1>7

\* Send keeps the invariant.
LEMMA SendStep ==
  ASSUME IInv, Send
  PROVE  IInv'
<1> DEFINE k == client.current
<1>1. TypeOK /\ Core
  BY CallFinds DEF Send
<1>2. k \in Attempts /\ conn[k].st = "Connected" /\ conn[k] \in Connection
  BY <1>1 DEF Send, IsConnected, TypeOK, Client
<1>3. /\ conn' = [conn EXCEPT ![k] = [conn[k] EXCEPT !.out = TRUE, !.ev = @ \cup {"write"}]]
      /\ poller' = IF "write" \in conn[k].ev THEN poller
                   ELSE EpollUpdate(poller, Conn(k), conn[k].fd, conn'[k].ev)
      /\ UNCHANGED <<client, temp, net, active, stack, aborted, gone, attempts>>
  BY DEF Send
<1>4. [conn[k] EXCEPT !.out = TRUE, !.ev = @ \cup {"write"}] =
      [conn[k] EXCEPT !.st = "Connected", !.out = TRUE, !.ev = @ \cup {"write"}]
  BY <1>2 DEF Connection
<1>5. client.current = k
  OBVIOUS
<1> HIDE DEF k
<1>6. Core' /\ conn' \in [Attempts -> Connection] /\ poller' \in PollerRecord
  BY <1>1, <1>2, <1>3, <1>4, <1>5, WatchesOutput
<1>7. TypeOK'
  BY <1>1, <1>3, <1>6 DEF TypeOK, PollerRecord
<1> QED BY <1>6, <1>7 DEF IInv

\* Disconnect keeps the invariant, whether it waits for output or closes at once.
LEMMA DisconnectStep ==
  ASSUME IInv, Disconnect
  PROVE  IInv'
<1> DEFINE k == client.current
           c == [client EXCEPT !.auto = FALSE, !.started = FALSE]
<1>1. TypeOK /\ Core /\ \A a \in active, i \in Attempts : a.channel # Conn(i)
  BY CallFinds DEF Disconnect
<1>2. c \in Client /\ c.current = k /\ c.sock = client.sock
  BY <1>1 DEF TypeOK, Client
<1>3. UNCHANGED <<temp, net, active, aborted, gone, attempts>>
  BY DEF Disconnect
<1>4. IsConnected => k \in Attempts /\ conn[k].st = "Connected" /\ conn[k] \in Connection
  BY <1>1 DEF IsConnected, TypeOK, Client
<1>5. \/ client' = c /\ UNCHANGED <<conn, poller, stack>>
      \/ /\ IsConnected /\ conn[k].out /\ client' = c /\ stack' = stack
         /\ conn' = [conn EXCEPT ![k] = [conn[k] EXCEPT !.st = "Disconnecting", !.ev = @ \cup {"write"}]]
         /\ poller' = IF "write" \in conn[k].ev THEN poller
                      ELSE EpollUpdate(poller, Conn(k), conn[k].fd, conn'[k].ev)
      \/ IsConnected /\ HandleClose(k, c)
  BY DEF Disconnect
<1>6. client.current = k
  OBVIOUS
<1> HIDE DEF k, c
<1>7. CASE client' = c /\ UNCHANGED <<conn, poller, stack>>
  <2>1. TypeOK'
    BY <1>1, <1>2, <1>3, <1>7 DEF TypeOK
  <2>2. Core'
    BY <1>1, <1>2, <1>3, <1>6, <1>7, Still, Same
  <2> QED BY <2>1, <2>2 DEF IInv
<1>8. CASE /\ IsConnected /\ conn[k].out /\ client' = c /\ stack' = stack
           /\ conn' = [conn EXCEPT ![k] = [conn[k] EXCEPT !.st = "Disconnecting", !.ev = @ \cup {"write"}]]
           /\ poller' = IF "write" \in conn[k].ev THEN poller
                        ELSE EpollUpdate(poller, Conn(k), conn[k].fd, conn'[k].ev)
  <2>1. conn[k].out = TRUE
    BY <1>4, <1>8 DEF Connection
  <2>2. [conn[k] EXCEPT !.st = "Disconnecting", !.ev = @ \cup {"write"}] =
        [conn[k] EXCEPT !.st = "Disconnecting", !.out = TRUE, !.ev = @ \cup {"write"}]
    BY <1>4, <1>8, <2>1 DEF Connection
  <2>3. Core' /\ conn' \in [Attempts -> Connection] /\ poller' \in PollerRecord
    BY <1>1, <1>2, <1>3, <1>4, <1>6, <1>8, <2>2, WatchesOutput
  <2>4. TypeOK'
    BY <1>1, <1>2, <1>3, <1>8, <2>3 DEF TypeOK, PollerRecord
  <2> QED BY <2>3, <2>4 DEF IInv
<1>9. CASE IsConnected /\ HandleClose(k, c)
  <2>1. /\ Core' /\ client' \in Client /\ conn' \in [Attempts -> Connection]
        /\ poller' \in PollerRecord /\ stack' \in Seq(Frame)
    BY <1>1, <1>2, <1>3, <1>4, <1>6, <1>9, HandleCloseStep
  <2>2. TypeOK'
    BY <1>1, <1>3, <2>1 DEF TypeOK, PollerRecord, Frame
  <2> QED BY <2>1, <2>2 DEF IInv
<1> QED BY <1>5, <1>7, <1>8, <1>9

\* ~TcpClient keeps the invariant.
LEMMA DestroyStep ==
  ASSUME IInv, Destroy
  PROVE  IInv'
<1> DEFINE k == client.current
           f == IF k = 0 THEN NoFd ELSE conn[k].fd
           p == IF k = 0 THEN poller ELSE EpollUpdate(poller, Conn(k), f, {})
           n == CloseFd(net, f)
           retry == k # 0 /\ client.auto /\ client.started
<1>1. TypeOK /\ Core /\ stack = <<>> /\ active = {}
  BY CallFinds DEF Destroy
<1>2. /\ UNCHANGED <<temp, active, stack, aborted, attempts>> /\ gone' = TRUE
      /\ conn' = IF k = 0 THEN conn
                 ELSE [conn EXCEPT ![k] = [conn[k] EXCEPT !.st = "Disconnected", !.ev = {}]]
      /\ poller' = CloseWatch(CloseWatch(p, f), client.sock)
      /\ net' = CloseFd(n, client.sock)
      /\ client' = [client EXCEPT !.current = 0, !.sock = NoFd,
                                  !.timers = IF retry THEN @ + 1 ELSE @]
  BY DEF Destroy
<1>3. client' \in Client /\ client'.current = 0 /\ client'.sock = NoFd
  <2>1. client \in Client /\ client.timers \in Nat /\ client.timers + 1 \in Nat
    BY <1>1 DEF TypeOK, Client
  <2>2. (IF retry THEN client.timers + 1 ELSE client.timers) \in Nat
    BY <2>1
  <2> HIDE DEF retry, k
  <2> QED BY <1>2, <2>1, <2>2 DEF Client
<1>4. (k = 0 \/ k \in Attempts) /\ client.sock \in Fds \cup {NoFd}
  BY <1>1 DEF TypeOK, Client
<1>5. k # 0 => conn[k].fd \in Fds
  BY <1>1, <1>4, CurrentIsOpen
<1>6. f \in Fds \cup {NoFd} /\ (f # NoFd <=> k # 0) /\ (k # 0 => f = conn[k].fd)
  BY <1>4, <1>5, NoFdIsNone
<1>7. client.current = k /\ (k # 0 => p = EpollRemove(poller, Conn(k), f)) /\ (k = 0 => p = poller)
  BY DEF EpollUpdate
<1> HIDE DEF k, f
<1>8. /\ conn' \in [Attempts -> Connection]
      /\ \A i \in Attempts :
           /\ conn'[i].fd = conn[i].fd
           /\ conn'[i].st = IF client.current = i THEN "Disconnected" ELSE conn[i].st
  <2>1. conn \in [Attempts -> Connection]
    BY <1>1 DEF TypeOK
  <2>2. CASE k = 0
    BY <1>2, <1>7, <2>1, <2>2, NoFdIsNone
  <2>3. CASE k # 0
    <3> DEFINE e == [conn[k] EXCEPT !.st = "Disconnected", !.ev = {}]
    <3>1. e \in Connection /\ e.fd = conn[k].fd /\ e.st = "Disconnected"
      BY <1>4, <2>1, <2>3 DEF Connection
    <3>2. conn' = [conn EXCEPT ![k] = e]
      BY <1>2, <2>3
    <3> HIDE DEF e
    <3>3. conn' \in [Attempts -> Connection] /\ conn'[k] = e /\ \A i \in Attempts \ {k} : conn'[i] = conn[i]
      BY <1>4, <2>1, <2>3, <3>1, <3>2
    <3> QED BY <1>7, <3>1, <3>3
  <2> QED BY <2>2, <2>3
<1>9. /\ net' \in [Fds -> NetState]
      /\ \A g \in Fds : net'[g] = "closed" <=> net[g] = "closed" \/ g = client.sock \/ g = f
  <2>1. net \in [Fds -> NetState]
    BY <1>1 DEF TypeOK, NetState
  <2>2. n \in [Fds -> NetState] /\ \A g \in Fds : n[g] = IF g = f THEN "closed" ELSE net[g]
    BY <1>6, <2>1, NetCloses
  <2> HIDE DEF n
  <2>3. CloseFd(n, client.sock) \in [Fds -> NetState] /\
        \A g \in Fds : CloseFd(n, client.sock)[g] = IF g = client.sock THEN "closed" ELSE n[g]
    BY <1>4, <2>2, NetCloses
  <2> QED BY <1>2, <2>2, <2>3
<1>10. /\ p \in PollerRecord
       /\ \A g \in Fds : /\ p.map[g] \in {poller.map[g], None}
                         /\ p.set[g] # {} => poller.set[g] # {}
       /\ \A i \in Attempts : Temp(i) \in p.added <=> Temp(i) \in poller.added
       /\ \A g \in Fds, i \in Attempts : p.map[g] = Temp(i) => poller.map[g] = Temp(i)
  <2>1. poller \in PollerRecord /\ \A g \in Fds : poller.set[g] # {} => poller.map[g] # None
    BY <1>1 DEF TypeOK, PollerRecord, Core, WatchInv
  <2>2. CASE k = 0
    BY <1>7, <2>1, <2>2
  <2>3. CASE k # 0
    <3>1. Conn(k) \in Channels /\ f \in Fds /\ (poller.set[f] # {} => poller.map[f] # None)
      BY <1>4, <1>5, <1>6, <2>1, <2>3, Tags
    <3>2. LET q == EpollRemove(poller, Conn(k), f) IN
          /\ q \in PollerRecord /\ q.added \subseteq poller.added
          /\ poller.added \ {Conn(k)} \subseteq q.added
          /\ \A g \in Fds : /\ q.map[g] = IF g = f THEN None ELSE poller.map[g]
                            /\ q.set[g] = IF g = f THEN {} ELSE poller.set[g]
      BY ONLY <2>1, <3>1, Forgets
    <3>3. p = EpollRemove(poller, Conn(k), f)
      BY <1>7, <2>3
    <3> HIDE DEF p
    <3> QED BY <3>2, <3>3, Tags
  <2> QED BY <2>2, <2>3
<1> HIDE DEF p, n
<1>11. /\ poller' \in PollerRecord /\ poller'.map = p.map /\ poller'.added = p.added
       /\ \A g \in Fds : poller'.set[g] # {} => p.set[g] # {} /\ g # f /\ g # client.sock
  <2> DEFINE q == CloseWatch(p, f)
  <2>1. /\ q \in PollerRecord /\ q.map = p.map /\ q.added = p.added
        /\ \A g \in Fds : q.set[g] = IF g = f THEN {} ELSE p.set[g]
    BY <1>6, <1>10, Closed
  <2>2. poller' = CloseWatch(q, client.sock)
    BY <1>2
  <2> HIDE DEF q
  <2>3. LET r == CloseWatch(q, client.sock) IN
        /\ r \in PollerRecord /\ r.map = q.map /\ r.added = q.added
        /\ \A g \in Fds : r.set[g] = IF g = client.sock THEN {} ELSE q.set[g]
    BY <1>4, <2>1, Closed
  <2> QED BY <2>1, <2>2, <2>3
<1>12. TypeOK'
  BY <1>1, <1>2, <1>3, <1>8, <1>9, <1>11 DEF TypeOK, PollerRecord, NetState
<1>13. Core'
  <2>1. \A g \in Fds : g = f <=> \E i \in Attempts : client.current = i /\ g = conn[i].fd
    BY <1>4, <1>6, <1>7, NoFdIsNone
  <2>2. \A g \in Fds : net'[g] = "closed" <=> \/ net[g] = "closed" \/ g = client.sock
                                              \/ \E i \in Attempts : client.current = i /\ g = conn[i].fd
    BY <1>9, <2>1
  <2>3. \A g \in Fds : /\ poller'.map[g] \in {poller.map[g], None}
                       /\ poller'.set[g] # {} => net'[g] # "closed" /\ poller.set[g] # {}
    <3>1. \A g \in Fds : poller.set[g] # {} => net[g] # "closed"
      BY <1>1 DEF Core, WatchInv
    <3> QED BY <1>9, <1>10, <1>11, <3>1
  <2>4. \A i \in Attempts : Temp(i) \in poller'.added <=> Temp(i) \in poller.added
    BY <1>10, <1>11
  <2>5. UNCHANGED <<temp, active, stack, attempts>>
    BY <1>2
  <2> QED BY <1>1, <1>3, <1>8, <2>2, <2>3, <2>4, <2>5, Destroys
<1> QED BY <1>12, <1>13 DEF IInv

\* The end of HandleRemoveConnection and HandleClose keeps the invariant.
LEMMA LeaveCloseCallbackStep ==
  ASSUME IInv, LeaveCloseCallback
  PROVE  IInv'
<1> DEFINE e == Innermost
           k == e.conn
           f == conn[k].fd
<1>1. TypeOK /\ Core /\ stack # <<>> /\ e.at = "closecb"
  BY DEF IInv, LeaveCloseCallback
<1>2. /\ net' = CloseFd(net, f) /\ poller' = CloseWatch(poller, f) /\ stack' = Returned
      /\ client' = IF client.auto /\ client.started
                   THEN [client EXCEPT !.connecting = FALSE, !.timers = @ + 1]
                   ELSE [client EXCEPT !.started = FALSE]
      /\ UNCHANGED <<conn, temp, active, aborted, gone, attempts>>
  BY DEF LeaveCloseCallback
<1>3. /\ stack' \in Seq(Frame) /\ StackInv' /\ e \in Frame
      /\ Closing' = Closing \ {k} /\ k \in Closing /\ e.temp = 0
      /\ \A i \in Attempts : Below(i) => Below(i)' \/ e.temp = i
  <2>1. stack \in Seq(Frame) /\ StackInv
    BY <1>1 DEF TypeOK, Frame, Core
  <2> QED BY <1>1, <1>2, <2>1, Leaves
<1>4. client' \in Client /\ client'.current = client.current /\ client'.sock = client.sock
  <2>1. client \in Client /\ client.timers + 1 \in Nat
    BY <1>1 DEF TypeOK, Client
  <2>2. CASE client.auto /\ client.started
    BY <1>2, <2>1, <2>2 DEF Client
  <2>3. CASE ~(client.auto /\ client.started)
    BY <1>2, <2>1, <2>3 DEF Client
  <2> QED BY <2>2, <2>3
<1>5. k \in Attempts /\ f \in Fds \cup {NoFd}
  BY <1>1, <1>3, ClosingType DEF TypeOK, Connection
<1> HIDE DEF k, f, e
<1>6. /\ net' \in [Fds -> NetState]
      /\ \A g \in Fds : net'[g] = "closed" <=> net[g] = "closed" \/ g = f
  <2>1. net \in [Fds -> NetState]
    BY <1>1 DEF TypeOK, NetState
  <2> QED BY <1>2, <1>5, <2>1, NetCloses
<1>7. /\ poller' \in PollerRecord /\ poller'.map = poller.map /\ poller'.added = poller.added
      /\ \A g \in Fds : poller'.set[g] # {} => poller.set[g] # {} /\ g # f
  <2>1. poller \in PollerRecord
    BY <1>1 DEF TypeOK, PollerRecord
  <2>2. LET q == CloseWatch(poller, f) IN
        /\ q \in PollerRecord /\ q.map = poller.map /\ q.added = poller.added
        /\ \A g \in Fds : q.set[g] = IF g = f THEN {} ELSE poller.set[g]
    BY ONLY <1>5, <2>1, Closed
  <2> QED BY <1>2, <2>2
<1>8. TypeOK'
  BY <1>1, <1>2, <1>3, <1>4, <1>6, <1>7 DEF TypeOK, PollerRecord, NetState, Frame
<1>9. Core'
  <2>1. \A i \in Attempts : Below(i) => Below(i)'
    BY <1>3, NoFdIsNone
  <2>2. /\ \A g \in Fds : net'[g] = "closed" <=> net[g] = "closed" \/ g = conn[k].fd
        /\ \A g \in Fds : poller'.set[g] # {} => poller.set[g] # {} /\ g # conn[k].fd
    BY <1>6, <1>7 DEF f
  <2>3. UNCHANGED <<conn, temp, active, attempts>>
    BY <1>2
  <2> QED BY <1>1, <1>3, <1>4, <1>7, <2>1, <2>2, <2>3, CloseEnds
<1> QED BY <1>8, <1>9 DEF IInv

\* The end of Connect or of the temporary channel's callback keeps the invariant.
LEMMA LeaveConnectionCallbackStep ==
  ASSUME IInv, LeaveConnectionCallback
  PROVE  IInv'
<1> DEFINE e == Innermost
           j == e.temp
           p == CloseWatch(poller, client.sock)
<1>1. TypeOK /\ Core /\ stack # <<>> /\ e.at = "conncb"
  BY DEF IInv, LeaveConnectionCallback
<1>2. /\ poller' = IF j # 0 /\ Temp(j) \in p.added THEN EpollRemove(p, Temp(j), temp[j]) ELSE p
      /\ net' = CloseFd(net, client.sock)
      /\ client' = [client EXCEPT !.sock = NoFd] /\ stack' = Returned
      /\ UNCHANGED <<conn, temp, active, aborted, gone, attempts>>
  BY DEF LeaveConnectionCallback
<1>3. /\ stack' \in Seq(Frame) /\ StackInv' /\ e \in Frame /\ Closing' = Closing
      /\ \A i \in Attempts : Below(i) => Below(i)' \/ j = i
  <2>1. stack \in Seq(Frame) /\ StackInv
    BY <1>1 DEF TypeOK, Frame, Core
  <2> QED BY <1>1, <1>2, <2>1, Leaves
<1>4. client' \in Client /\ client'.current = client.current /\ client'.sock = NoFd
  BY <1>1, <1>2 DEF TypeOK, Client
<1>5. client.sock \in Fds \cup {NoFd} /\ j \in Attempts \cup {0}
  BY <1>1, <1>3 DEF TypeOK, Client, Frame
<1>6. /\ net' \in [Fds -> NetState]
      /\ \A g \in Fds : net'[g] = "closed" <=> net[g] = "closed" \/ g = client.sock
  <2>1. net \in [Fds -> NetState]
    BY <1>1 DEF TypeOK, NetState
  <2> QED BY <1>2, <1>5, <2>1, NetCloses
<1>7. /\ p \in PollerRecord /\ p.map = poller.map /\ p.added = poller.added
      /\ \A g \in Fds : p.set[g] # {} => poller.set[g] # {} /\ g # client.sock /\ p.map[g] # None
  <2>1. poller \in PollerRecord
    BY <1>1 DEF TypeOK, PollerRecord
  <2>2. /\ p \in PollerRecord /\ p.map = poller.map /\ p.added = poller.added
        /\ \A g \in Fds : p.set[g] = IF g = client.sock THEN {} ELSE poller.set[g]
    BY <1>5, <2>1, Closed
  <2> QED BY <1>1, <2>2 DEF Core, WatchInv
<1> HIDE DEF j, p, e
<1>8. /\ poller' \in PollerRecord
      /\ \A g \in Fds : /\ poller'.map[g] \in {poller.map[g], None}
                        /\ poller'.set[g] # {} => /\ poller'.map[g] # None /\ poller.set[g] # {}
                                                  /\ g # client.sock
      /\ \A g \in Fds, i \in Attempts : poller'.map[g] = Temp(i) =>
           poller.map[g] = Temp(i) /\ i # j /\ Temp(i) \in poller'.added
      /\ poller'.added \subseteq poller.added
  <2>1. \A g \in Fds, i \in Attempts :
          poller.map[g] = Temp(i) => temp[i] = g /\ Temp(i) \in poller.added
    BY <1>1 DEF Core, MapInv
  <2>2. CASE j # 0 /\ Temp(j) \in p.added
    <3>1. j \in Attempts /\ temp[j] \in Fds /\ Temp(j) \in Channels
      BY <1>1, <1>5, <1>7, <2>2, Tags DEF Core, AddedInv, TypeOK
    <3>2. p \in PollerRecord /\ (p.set[temp[j]] # {} => p.map[temp[j]] # None)
      BY <1>7, <3>1
    <3>3. LET q == EpollRemove(p, Temp(j), temp[j]) IN
          /\ q \in PollerRecord /\ q.added \subseteq p.added /\ p.added \ {Temp(j)} \subseteq q.added
          /\ \A g \in Fds : /\ q.map[g] = IF g = temp[j] THEN None ELSE p.map[g]
                            /\ q.set[g] = IF g = temp[j] THEN {} ELSE p.set[g]
      BY ONLY <3>1, <3>2, Forgets
    <3>4. poller' = EpollRemove(p, Temp(j), temp[j])
      BY <1>2, <2>2
    <3>5. /\ poller' \in PollerRecord /\ poller'.added \subseteq p.added
          /\ p.added \ {Temp(j)} \subseteq poller'.added
          /\ \A g \in Fds : /\ poller'.map[g] = IF g = temp[j] THEN None ELSE poller.map[g]
                            /\ poller'.set[g] = IF g = temp[j] THEN {} ELSE p.set[g]
      BY <1>7, <3>3, <3>4
    <3>6. \A g \in Fds, i \in Attempts : poller'.map[g] = Temp(i) =>
            poller.map[g] = Temp(i) /\ i # j /\ Temp(i) \in poller'.added
      <4> SUFFICES ASSUME NEW g \in Fds, NEW i \in Attempts, poller'.map[g] = Temp(i)
                   PROVE  poller.map[g] = Temp(i) /\ i # j /\ Temp(i) \in poller'.added
        OBVIOUS
      <4>1. g # temp[j] /\ poller.map[g] = Temp(i)
        BY <3>5, Tags
      <4>2. i # j /\ Temp(i) # Temp(j)
        BY <2>1, <4>1, Tags
      <4> QED BY <1>7, <2>1, <3>5, <4>1, <4>2
    <3> QED BY <1>7, <3>5, <3>6
  <2>3. CASE ~(j # 0 /\ Temp(j) \in p.added)
    <3>1. poller' = p
      BY <1>2, <2>3
    <3>2. \A g \in Fds, i \in Attempts : poller.map[g] = Temp(i) => i # j
      BY <1>7, <2>1, <2>3, NoFdIsNone
    <3> QED BY <1>7, <2>1, <3>1, <3>2
  <2> QED BY <2>2, <2>3
<1>9. TypeOK'
  BY <1>1, <1>2, <1>3, <1>4, <1>6, <1>8 DEF TypeOK, PollerRecord, NetState, Frame
<1>10. Core'
  <2>1. \A g \in Fds, i \in Attempts : poller'.map[g] = Temp(i) =>
          Temp(i) \in poller'.added /\ (Below(i) => Below(i)')
    BY <1>3, <1>8
  <2>2. attempts \in Nat /\ attempts' \in Nat /\ attempts <= attempts'
    BY <1>1, <1>2 DEF TypeOK
  <2>3. UNCHANGED <<conn, temp, active>>
    BY <1>2
  <2>4. \A i \in Attempts : Temp(i) \in poller'.added => Temp(i) \in poller.added
    BY <1>8
  <2> QED BY <1>1, <1>3, <1>4, <1>6, <1>8, <2>1, <2>2, <2>3, <2>4, SockGone
<1> QED BY <1>9, <1>10 DEF IInv

\* The reconnect timer keeps the invariant: Connect returns at once.
LEMMA DoReconnectStep ==
  ASSUME IInv, DoReconnect
  PROVE  IInv'
<1> DEFINE c == [client EXCEPT !.timers = @ - 1]
<1>1. TypeOK /\ Core
  BY DEF IInv, DoReconnect
<1>2. /\ c \in Client /\ c.current = client.current /\ c.sock = client.sock
      /\ c.started = client.started
  BY <1>1 DEF DoReconnect, TypeOK, Client
<1>3. client' = c /\ UNCHANGED <<conn, temp, poller, net, stack, aborted, attempts>>
  BY <1>2 DEF DoReconnect, ConnectBody
<1>4. UNCHANGED <<active, gone>>
  BY DEF DoReconnect
<1> HIDE DEF c
<1>5. TypeOK'
  BY <1>1, <1>2, <1>3, <1>4 DEF TypeOK
<1>6. Core'
  BY <1>1, <1>2, <1>3, <1>4, Still, Same
<1> QED BY <1>5, <1>6 DEF IInv

\* What the handler of an active channel finds.
LEMMA HandleFinds ==
  ASSUME IInv, NEW c, NEW a \in active, Handle(c, a)
  PROVE  /\ TypeOK /\ Core /\ ~aborted /\ stack = <<>> /\ a.channel = c
         /\ active' \in SUBSET [channel : Channels, revents : SUBSET {"read", "write", "err", "hup"}]
         /\ active' \subseteq active /\ \A b \in active' : b.channel # c
<1>1. TypeOK /\ Core /\ ~aborted /\ stack = <<>> /\ a.channel = c /\ active' = active \ {a}
  BY DEF IInv, Handle
<1>2. \A b \in active : b.channel = c => b = a
  BY <1>1 DEF Core, ActiveInv
<1>3. active \in SUBSET [channel : Channels, revents : SUBSET {"read", "write", "err", "hup"}]
  BY <1>1 DEF TypeOK
<1> QED BY <1>1, <1>2, <1>3

\* The event of a temporary channel keeps the invariant, or aborts.
LEMMA TempStep ==
  ASSUME IInv, NEW k \in Attempts, NEW a \in active,
         TempIgnores(k, a) \/ TempConnected(k, a) \/ TempFailed(k, a)
  PROVE  IInv'
<1>1. /\ TypeOK /\ Core /\ ~aborted /\ stack = <<>> /\ a.channel = Temp(k)
      /\ active' \in SUBSET [channel : Channels, revents : SUBSET {"read", "write", "err", "hup"}]
      /\ active' \subseteq active /\ \A b \in active' : b.channel # Temp(k)
  BY HandleFinds DEF TempIgnores, TempConnected, TempFailed
<1>2. temp[k] \in Fds /\ conn[k].st = "none"
  BY <1>1 DEF Core, ActiveInv, TypeOK
<1>3. CASE TempIgnores(k, a)
  <2>1. UNCHANGED <<client, conn, temp, poller, net, stack, aborted, gone, attempts>>
    BY <1>3 DEF TempIgnores
  <2>2. TypeOK'
    BY <1>1, <2>1 DEF TypeOK
  <2>3. Core'
    BY <1>1, <2>1, Still, Same
  <2> QED BY <2>2, <2>3 DEF IInv
<1>4. CASE TempConnected(k, a)
  <2>1. UNCHANGED <<temp, net, gone, attempts>>
    BY <1>4 DEF TempConnected
  <2>2. CASE client.sock = NoFd
    <3>1. aborted' = TRUE /\ UNCHANGED <<client, conn, poller, stack>>
      BY <1>4, <2>2 DEF TempConnected
    <3> QED BY <1>1, <2>1, <3>1 DEF IInv, TypeOK
  <2>3. CASE client.sock # NoFd
    <3> DEFINE f == client.sock
    <3>1. HandleConnect(k, f, k, poller, client)
      BY <1>4, <2>3 DEF TempConnected
    <3>2. f \in Fds /\ client \in Client /\ poller \in PollerRecord /\ net[f] # "closed"
      BY <1>1, <2>3 DEF TypeOK, Client, PollerRecord, Core, OwnInv
    <3>3. f = client.sock
      OBVIOUS
    <3> HIDE DEF f
    <3>4. /\ client' \in Client /\ conn' \in [Attempts -> Connection] /\ poller' \in PollerRecord
          /\ stack' \in Seq(Frame) /\ aborted' \in BOOLEAN
      BY <1>1, <3>1, <3>2, HandleConnectType
    <3>5. TypeOK'
      BY <1>1, <2>1, <3>4 DEF TypeOK, PollerRecord, Frame
    <3>6. ASSUME ~aborted' PROVE Core'
      <4>1. client.current = 0
        BY <3>1, <3>6 DEF HandleConnect
      <4>2. \A g \in Fds : net'[g] = "closed" <=> g # f /\ (net[g] = "closed" \/ g = client.sock)
        BY <2>1, <3>2, <3>3
      <4>3. \A g \in Fds \ {f} : poller.set[g] # {} => poller.set[g] # {} /\ g # client.sock
        BY <3>3
      <4>4. attempts \in Nat /\ attempts' = attempts /\ attempts <= attempts' /\ k <= attempts'
        <5>1. attempts \in Nat /\ k \in Nat
          BY <1>1, NoFdIsNone DEF TypeOK
        <5>2. ~(k > attempts)
          BY <1>1, <1>2, NoFdIsNone DEF Core, FreshInv
        <5> QED BY <2>1, <5>1, <5>2
      <4>5. /\ TypeOK /\ Core /\ k \in Attempts /\ f \in Fds /\ k \in {0, k}
            /\ poller \in PollerRecord /\ client \in Client /\ HandleConnect(k, f, k, poller, client)
            /\ client.current = 0 /\ conn[k].st = "none" /\ (f = client.sock \/ net[f] = "closed")
            /\ poller.map = poller.map /\ poller.added = poller.added /\ poller.set[f] = poller.set[f]
        BY <1>1, <1>2, <3>1, <3>2, <3>3, <4>1
      <4>6. /\ k = 0 => \A g \in Fds : poller.map[g] # Temp(k)
            /\ k = k => stack = <<>>
            /\ temp' = temp /\ active' \subseteq active /\ \A b \in active' : b.channel # Temp(k)
            /\ attempts' \in Nat /\ attempts <= attempts' /\ k <= attempts'
        BY <1>1, <2>1, <4>4, NoFdIsNone
      <4> QED BY ONLY <4>2, <4>3, <4>5, <4>6, HandleConnectStep
    <3> QED BY <3>5, <3>6 DEF IInv
  <2> QED BY <2>2, <2>3
<1>5. CASE TempFailed(k, a)
  <2>1. /\ client' = [client EXCEPT !.connecting = FALSE,
                            !.timers = IF client.auto /\ client.started THEN @ + 1 ELSE @]
        /\ poller' = IF Temp(k) \in poller.added THEN EpollRemove(poller, Temp(k), temp[k]) ELSE poller
        /\ UNCHANGED <<conn, temp, net, stack, aborted, gone, attempts>>
    BY <1>5 DEF TempFailed
  <2>2. client' \in Client /\ client'.current = client.current /\ client'.sock = client.sock
    <3>1. client \in Client /\ client.timers \in Nat /\ client.timers + 1 \in Nat
      BY <1>1 DEF TypeOK, Client
    <3>2. (IF client.auto /\ client.started THEN client.timers + 1 ELSE client.timers) \in Nat
      BY <3>1
    <3> QED BY <2>1, <3>1, <3>2 DEF Client
  <2>3. /\ poller \in PollerRecord /\ \A g \in Fds : poller.set[g] # {} => poller.map[g] # None
        /\ \A g \in Fds, i \in Attempts : poller.map[g] = Temp(i) => temp[i] = g /\ Temp(i) \in poller.added
    BY <1>1 DEF TypeOK, PollerRecord, Core, WatchInv, MapInv
  <2>4. /\ poller' \in PollerRecord /\ poller'.added \subseteq poller.added
        /\ \A g \in Fds :
             /\ poller'.map[g] \in {poller.map[g], None}
             /\ poller'.set[g] # {} => poller'.map[g] # None /\ poller.set[g] # {}
        /\ \A g \in Fds, i \in Attempts : poller'.map[g] = Temp(i) => Temp(i) \in poller'.added
    <3>1. CASE Temp(k) \in poller.added
      <4>1. Temp(k) \in Channels /\ (poller.set[temp[k]] # {} => poller.map[temp[k]] # None)
        BY <1>2, <2>3, Tags
      <4>2. LET q == EpollRemove(poller, Temp(k), temp[k]) IN
            /\ q \in PollerRecord /\ q.added \subseteq poller.added
            /\ poller.added \ {Temp(k)} \subseteq q.added
            /\ \A g \in Fds : /\ q.map[g] = IF g = temp[k] THEN None ELSE poller.map[g]
                              /\ q.set[g] = IF g = temp[k] THEN {} ELSE poller.set[g]
        BY ONLY <1>2, <2>3, <4>1, Forgets
      <4>3. /\ poller' \in PollerRecord /\ poller'.added \subseteq poller.added
            /\ poller.added \ {Temp(k)} \subseteq poller'.added
            /\ \A g \in Fds : /\ poller'.map[g] = IF g = temp[k] THEN None ELSE poller.map[g]
                              /\ poller'.set[g] = IF g = temp[k] THEN {} ELSE poller.set[g]
        BY <2>1, <3>1, <4>2
      <4>4. \A g \in Fds, i \in Attempts : poller'.map[g] = Temp(i) =>
              poller.map[g] = Temp(i) /\ g # temp[k]
        BY <4>3, Tags
      <4>5. \A g \in Fds, i \in Attempts : poller'.map[g] = Temp(i) => Temp(i) \in poller'.added
        BY <2>3, <4>3, <4>4, Tags
      <4> QED BY <2>3, <4>3, <4>5
    <3>2. CASE Temp(k) \notin poller.added
      BY <2>1, <2>3, <3>2
    <3> QED BY <3>1, <3>2
  <2>5. TypeOK'
    BY <1>1, <2>1, <2>2, <2>4 DEF TypeOK, PollerRecord
  <2>6. Core'
    <3>1. \A i \in Attempts : Temp(i) \in poller'.added => Temp(i) \in poller.added
      BY <2>4
    <3>2. UNCHANGED <<conn, temp, net, stack, attempts>>
      BY <2>1
    <3> QED BY <1>1, <2>2, <2>4, <3>1, <3>2, Still, Quiet
  <2> QED BY <2>5, <2>6 DEF IInv
<1> QED BY <1>3, <1>4, <1>5

\* Between a callback left and one entered in its place nothing happens.
LEMMA Replaces ==
  ASSUME stack \in Seq(Frame), StackInv, stack # <<>>, Innermost.at # "closecb", Innermost.temp = 0,
         NEW at \in Callbacks, at # "closecb", NEW k \in Attempts,
         stack' = Append(Returned, Callback(at, k, 0))
  PROVE  /\ stack' \in Seq(Frame) /\ StackInv' /\ Closing' = Closing
         /\ \A i \in Attempts : Below(i) => Below(i)'
<1> DEFINE n == Len(stack)
           e == Callback(at, k, 0)
<1>1. e \in Frame /\ e.at = at /\ e.temp = 0
  BY NoFdIsNone DEF Callback, Frame
<1>2. n \in Nat /\ n \in 1..n /\ stack[n].at # "closecb" /\ stack[n].temp = 0
  BY DEF Innermost
<1> HIDE DEF e
<1>3. /\ Returned \in Seq(Frame) /\ Len(Returned) = n - 1
      /\ \A i \in 1..(n - 1) : Returned[i] = stack[i]
  BY WhatIsLeft
<1>4. /\ stack' \in Seq(Frame) /\ Len(stack') = n /\ stack'[n] = e
      /\ \A i \in 1..(n - 1) : stack'[i] = stack[i]
  BY <1>1, <1>2, <1>3 DEF e
<1>5. /\ \A i, m \in 1..n :
           stack[i].at = "closecb" /\ stack[m].at = "closecb" /\ stack[i].conn = stack[m].conn => i = m
      /\ \A i \in 1..n : stack[i].temp # 0 => i = 1 /\ stack[i].at = "conncb"
  BY DEF StackInv
<1>6. Closing = {stack[i].conn : i \in {m \in 1..n : stack[m].at = "closecb"}}
  BY DEF Closing
<1>7. stack # <<>> /\ stack' # <<>>
  BY <1>2, <1>4
<1> HIDE DEF n
<1>8. Closing' = {stack'[i].conn : i \in {m \in 1..n : stack'[m].at = "closecb"}}
  BY <1>4 DEF Closing
<1>9. \A i \in 1..n : i = n \/ stack'[i] = stack[i]
  <2>1. \A i \in 1..n : i \in 1..(n - 1) \/ i = n
    BY <1>2
  <2> QED BY <1>4, <2>1
<1>10. stack'[n].at # "closecb" /\ stack'[n].temp = 0
  BY <1>1, <1>4
<1>11. StackInv'
  <2>1. ASSUME NEW i \in 1..n, stack'[i].temp # 0 PROVE i = 1 /\ stack'[i].at = "conncb"
    <3>1. stack'[i] = stack[i]
      BY <1>9, <1>10, <2>1
    <3> QED BY <1>5, <2>1, <3>1
  <2>2. ASSUME NEW i \in 1..n, NEW m \in 1..n,
               stack'[i].at = "closecb", stack'[m].at = "closecb", stack'[i].conn = stack'[m].conn
        PROVE  i = m
    <3>1. stack'[i] = stack[i] /\ stack'[m] = stack[m]
      BY <1>9, <1>10, <2>2
    <3> QED BY <1>5, <2>2, <3>1
  <2> QED BY <1>4, <2>1, <2>2 DEF StackInv
<1>12. Closing' = Closing
  <2>1. \A i \in 1..n : stack'[i].at = "closecb" => stack[i].at = "closecb" /\ stack'[i].conn = stack[i].conn
    BY <1>9, <1>10
  <2>2. \A i \in 1..n : stack[i].at = "closecb" => stack'[i].at = "closecb" /\ stack'[i].conn = stack[i].conn
    BY <1>2, <1>9
  <2>3. ASSUME NEW c \in Closing' PROVE c \in Closing
    <3>1. PICK i \in 1..n : stack'[i].at = "closecb" /\ stack'[i].conn = c
      BY <1>8, <2>3
    <3> QED BY <1>6, <2>1, <3>1
  <2>4. ASSUME NEW c \in Closing PROVE c \in Closing'
    <3>1. PICK i \in 1..n : stack[i].at = "closecb" /\ stack[i].conn = c
      BY <1>6, <2>4
    <3> QED BY <1>8, <2>2, <3>1
  <2> QED BY <2>3, <2>4
<1>13. \A i \in Attempts : Below(i) => Below(i)'
  <2> SUFFICES ASSUME NEW i \in Attempts, stack[1].temp = i PROVE stack'[1].temp = i
    BY <1>7 DEF Below
  <2>1. n # 1 /\ 1 \in 1..n
    BY <1>2, NoFdIsNone
  <2> QED BY <1>9, <2>1
<1> QED BY <1>4, <1>11, <1>12, <1>13

\* HandleWrite, called for the event of a connection or after its message callback.
LEMMA HandleWriteStep ==
  ASSUME TypeOK, Core, NEW k \in Attempts, NEW under, HandleWrite(k, under),
         UNCHANGED <<client, temp, net, aborted, gone, attempts>>, active' \subseteq active,
         \A a \in active', i \in Attempts : a.channel # Conn(i),
         stack' = under \/ stack' = Append(under, Callback("wccb", k, 0)) =>
           /\ stack' \in Seq(Frame) /\ StackInv' /\ Closing' = Closing
           /\ \A i \in Attempts : Below(i) => Below(i)'
  PROVE  IInv'
<1> DEFINE drains == conn[k].st = "Connected" /\ "write" \in conn[k].ev
<1>1. stack' \in Seq(Frame) /\ StackQuiet
  BY DEF HandleWrite, StackQuiet
<1>2. active' \in SUBSET [channel : Channels, revents : SUBSET {"read", "write", "err", "hup"}]
  BY DEF TypeOK
<1>3. \A g \in Fds : net'[g] = "closed" <=> net[g] = "closed"
  OBVIOUS
<1>4. CASE drains
  <2> DEFINE e == [conn[k] EXCEPT !.out = FALSE, !.ev = {"read"}]
  <2>1. conn[k] \in Connection /\ conn \in [Attempts -> Connection]
    BY DEF TypeOK
  <2>2. e \in Connection /\ e.fd = conn[k].fd /\ e.st = conn[k].st
    BY <2>1 DEF Connection
  <2>3. conn' = [conn EXCEPT ![k] = e] /\ poller' = EpollUpdate(poller, Conn(k), conn[k].fd, {"read"})
    BY <1>4 DEF HandleWrite
  <2> HIDE DEF e
  <2>4. conn' \in [Attempts -> Connection] /\ \A i \in Attempts : conn'[i].fd = conn[i].fd /\ conn'[i].st = conn[i].st
    BY <2>1, <2>2, <2>3
  <2>5. client.current = k
    BY <1>4 DEF Core, CurrentInv
  <2>6. Core' /\ poller' \in PollerRecord
    BY <1>1, <1>3, <2>3, <2>4, <2>5, Announces
  <2>7. TypeOK'
    BY <1>1, <1>2, <2>4, <2>6 DEF TypeOK, PollerRecord, Frame
  <2> QED BY <2>6, <2>7 DEF IInv
<1>5. CASE ~drains
  <2>1. conn' = conn /\ poller' = poller
    BY <1>5 DEF HandleWrite
  <2>2. TypeOK'
    BY <1>1, <1>2, <2>1 DEF TypeOK, Frame
  <2>3. Core'
    BY <1>1, <1>3, <2>1, Same
  <2> QED BY <2>2, <2>3 DEF IInv
<1> QED BY <1>4, <1>5

\* The event of a connection keeps the invariant.
LEMMA ConnStep ==
  ASSUME IInv, NEW k \in Attempts, NEW a \in active,
         ConnCloses(k, a) \/ ConnReads(k, a) \/ ConnWrites(k, a) \/ ConnIgnores(k, a)
  PROVE  IInv'
<1>1. /\ TypeOK /\ Core /\ ~aborted /\ stack = <<>> /\ a.channel = Conn(k)
      /\ active' \in SUBSET [channel : Channels, revents : SUBSET {"read", "write", "err", "hup"}]
      /\ active' \subseteq active /\ \A b \in active' : b.channel # Conn(k)
  BY HandleFinds DEF ConnCloses, ConnReads, ConnWrites, ConnIgnores
<1>2. client.current = k /\ \A b \in active', i \in Attempts : b.channel # Conn(i)
  BY <1>1 DEF Core, ActiveInv
<1>3. conn[k].fd \in Fds /\ net[conn[k].fd] # "closed"
  BY <1>1, <1>2, CurrentIsOpen
<1>4. stack \in Seq(Frame) /\ StackInv /\ {"msgcb", "msgcb_w", "wccb"} \subseteq Callbacks
  BY <1>1 DEF TypeOK, Frame, Core, Callbacks
<1>5. CASE ConnCloses(k, a)
  <2>1. HandleClose(k, client) /\ UNCHANGED <<temp, net, aborted, gone, attempts>>
    BY <1>5 DEF ConnCloses
  <2>2. client \in Client
    BY <1>1 DEF TypeOK
  <2>3. /\ Core' /\ client' \in Client /\ conn' \in [Attempts -> Connection]
        /\ poller' \in PollerRecord /\ stack' \in Seq(Frame)
    BY <1>1, <1>2, <2>1, <2>2, HandleCloseStep
  <2>4. TypeOK'
    BY <1>1, <2>1, <2>3 DEF TypeOK, PollerRecord, Frame
  <2> QED BY <2>3, <2>4 DEF IInv
<1>6. CASE ConnReads(k, a)
  <2> DEFINE at == IF "write" \in a.revents THEN "msgcb_w" ELSE "msgcb"
  <2>1. /\ net' = [net EXCEPT ![conn[k].fd] = "up"] /\ stack' = Append(stack, Callback(at, k, 0))
        /\ UNCHANGED <<client, conn, temp, poller, aborted, gone, attempts>>
    BY <1>6 DEF ConnReads
  <2>2. at \in Callbacks /\ at # "closecb"
    BY <1>4
  <2> HIDE DEF at
  <2>3. /\ stack' \in Seq(Frame) /\ StackInv' /\ Closing' = Closing
        /\ \A i : Below(i) => Below(i)'
    BY <1>4, <2>1, <2>2, Enters
  <2>4. StackQuiet
    BY <1>2, <2>3 DEF StackQuiet
  <2>5. /\ net' \in [Fds -> NetState]
        /\ \A g \in Fds : net'[g] = "closed" <=> net[g] = "closed"
    BY <1>1, <1>3, <2>1 DEF TypeOK, NetState
  <2>6. TypeOK'
    BY <1>1, <2>1, <2>3, <2>5 DEF TypeOK, NetState, Frame
  <2>7. Core'
    BY <1>1, <2>1, <2>4, <2>5, Same
  <2> QED BY <2>6, <2>7 DEF IInv
<1>7. CASE ConnWrites(k, a)
  <2>1. HandleWrite(k, stack) /\ UNCHANGED <<client, temp, net, aborted, gone, attempts>>
    BY <1>7 DEF ConnWrites
  <2>2. stack' = Append(stack, Callback("wccb", k, 0)) =>
          /\ stack' \in Seq(Frame) /\ StackInv' /\ Closing' = Closing
          /\ \A i \in Attempts : Below(i) => Below(i)'
    BY <1>4, Enters
  <2>3. stack' = stack =>
          /\ stack' \in Seq(Frame) /\ StackInv' /\ Closing' = Closing
          /\ \A i \in Attempts : Below(i) => Below(i)'
    BY <1>4 DEF StackInv, Closing, Below
  <2> QED BY <1>1, <1>2, <1>4, <2>1, <2>2, <2>3, HandleWriteStep
<1>8. CASE ConnIgnores(k, a)
  <2>1. UNCHANGED <<client, conn, temp, poller, net, stack, aborted, gone, attempts>>
    BY <1>8 DEF ConnIgnores
  <2>2. TypeOK'
    BY <1>1, <2>1 DEF TypeOK
  <2>3. Core'
    BY <1>1, <2>1, Still, Same
  <2> QED BY <2>2, <2>3 DEF IInv
<1> QED BY <1>5, <1>6, <1>7, <1>8

\* The end of a message or write-complete callback keeps the invariant.
LEMMA LeaveDataCallbackStep ==
  ASSUME IInv, LeaveMessageCallback \/ LeaveWriteCompleteCallback
  PROVE  IInv'
<1> DEFINE k == Innermost.conn
<1>1. /\ TypeOK /\ Core /\ stack # <<>> /\ stack \in Seq(Frame) /\ StackInv
      /\ Innermost.at \in {"msgcb", "msgcb_w", "wccb"}
      /\ UNCHANGED <<client, temp, net, active, aborted, gone, attempts>>
  BY DEF IInv, LeaveMessageCallback, LeaveWriteCompleteCallback, TypeOK, Frame, Core
<1>2. k \in Attempts /\ Innermost.temp = 0
  <2>1. Len(stack) \in 1..Len(stack) /\ Innermost \in Frame
    BY <1>1, ElementOfSeq DEF Innermost
  <2> QED BY <1>1, <2>1 DEF StackInv, Innermost, Frame
<1>3. \A a \in active', i \in Attempts : a.channel # Conn(i)
  BY <1>1 DEF Core, ActiveInv
<1> HIDE DEF k
<1>4. stack' = Returned =>
        /\ stack' \in Seq(Frame) /\ StackInv' /\ Closing' = Closing
        /\ \A i \in Attempts : Below(i) => Below(i)'
  <2> SUFFICES ASSUME stack' = Returned
               PROVE  /\ stack' \in Seq(Frame) /\ StackInv' /\ Closing' = Closing
                      /\ \A i \in Attempts : Below(i) => Below(i)'
    OBVIOUS
  <2>1. /\ stack' \in Seq(Frame) /\ StackInv'
        /\ Closing' = IF Innermost.at = "closecb" THEN Closing \ {Innermost.conn} ELSE Closing
        /\ \A i \in Attempts : Below(i) => Below(i)' \/ Innermost.temp = i
    BY <1>1, Leaves
  <2> QED BY <1>1, <1>2, <2>1, NoFdIsNone
<1>5. CASE LeaveMessageCallback /\ Innermost.at = "msgcb_w"
  <2>1. HandleWrite(k, Returned)
    BY <1>5 DEF LeaveMessageCallback, k
  <2>2. stack' = Append(Returned, Callback("wccb", k, 0)) =>
          /\ stack' \in Seq(Frame) /\ StackInv' /\ Closing' = Closing
          /\ \A i \in Attempts : Below(i) => Below(i)'
    <3>1. "wccb" \in Callbacks /\ "wccb" # "closecb" /\ Innermost.at # "closecb"
      BY <1>1 DEF Callbacks
    <3> QED BY <1>1, <1>2, <3>1, Replaces
  <2> QED BY <1>1, <1>2, <1>3, <1>4, <2>1, <2>2, HandleWriteStep
<1>6. CASE ~(LeaveMessageCallback /\ Innermost.at = "msgcb_w")
  <2>1. conn' = conn /\ poller' = poller /\ stack' = Returned
    BY <1>6 DEF LeaveMessageCallback, LeaveWriteCompleteCallback
  <2>2. stack' \in Seq(Frame) /\ StackQuiet
    BY <1>3, <1>4, <2>1 DEF StackQuiet
  <2>3. TypeOK'
    BY <1>1, <2>1, <2>2 DEF TypeOK, Frame
  <2>4. Core'
    BY <1>1, <2>1, <2>2, Same
  <2> QED BY <2>3, <2>4 DEF IInv
<1> QED BY <1>5, <1>6

\* The peer changes neither what is open nor anything of the program.
LEMMA PeerStep ==
  ASSUME IInv, NEW f \in Fds, PeerAnswers(f) \/ PeerActs(f)
  PROVE  IInv'
<1>1. /\ UNCHANGED <<client, conn, temp, poller, active, stack, aborted, gone, attempts>>
      /\ \E s \in {"up", "data", "eof", "error"} : net[f] # "closed" /\ net' = [net EXCEPT ![f] = s]
  BY DEF PeerAnswers, PeerActs
<1>2. TypeOK
  BY DEF IInv
<1>3. net' \in [Fds -> NetState] /\ \A g \in Fds : net'[g] = "closed" <=> net[g] = "closed"
  BY <1>1, <1>2 DEF TypeOK, NetState
<1>4. TypeOK'
  BY <1>1, <1>2, <1>3 DEF TypeOK, NetState
<1>5. ASSUME ~aborted' PROVE Core'
  <2>1. Core
    BY <1>1, <1>5 DEF IInv
  <2> QED BY <1>1, <1>2, <1>3, <2>1, Still, Same
<1> QED BY <1>4, <1>5 DEF IInv

-----------------------------------------------------------------------------
(* The theorems.                                                           *)

\* A new client satisfies the invariant.
LEMMA InitIInv ==
  ASSUME Init
  PROVE  IInv
<1>1. poller = [map |-> [f \in Fds |-> None], set |-> [f \in Fds |-> {}], added |-> {}, room |-> Room]
  BY DEF Init, EmptyEpoll
<1>2. /\ poller \in PollerRecord /\ poller.added = {}
      /\ \A f \in Fds : poller.map[f] = None /\ poller.set[f] = {}
  <2>1. Room \in Nat
    BY ClientAssumption DEF Room
  <2> HIDE DEF Room
  <2> QED BY <1>1, <2>1 DEF PollerRecord
<1>3. client \in Client /\ client.current = 0 /\ client.sock = NoFd
  <2>1. client \in [started : {FALSE}, connecting : {FALSE}, auto : BOOLEAN,
                    sock : {NoFd}, current : {0}, timers : {0}]
    BY DEF Init
  <2>2. /\ {FALSE} \subseteq BOOLEAN /\ {NoFd} \subseteq Fds \cup {NoFd}
        /\ {0} \subseteq Attempts \cup {0} /\ {0} \subseteq Nat
    OBVIOUS
  <2>3. client \in Client
    BY <2>1, <2>2 DEF Client
  <2> QED BY <2>1, <2>3
<1>4. NoConn \in Connection /\ NoConn.st = "none" /\ NoConn.fd = NoFd
  BY DEF NoConn, Connection
<1>5. /\ conn \in [Attempts -> Connection] /\ temp \in [Attempts -> Fds \cup {NoFd}]
      /\ \A k \in Attempts : conn[k].st = "none" /\ conn[k].fd = NoFd /\ temp[k] = NoFd
  BY <1>4 DEF Init
<1>6. net \in [Fds -> NetState] /\ \A f \in Fds : net[f] = "closed"
  BY DEF Init, NetState
<1>7. /\ active = {} /\ stack = <<>> /\ stack \in Seq(Frame) /\ aborted \in BOOLEAN /\ gone \in BOOLEAN
      /\ attempts \in 0..MaxAttempts
  <2>1. stack \in Seq(Frame) /\ attempts \in 0..MaxAttempts
    BY ClientAssumption DEF Init
  <2>2. aborted \in BOOLEAN /\ gone \in BOOLEAN
    BY Zenon DEF Init
  <2> QED BY <2>1, <2>2 DEF Init
<1>8. TypeOK
  BY <1>2, <1>3, <1>5, <1>6, <1>7 DEF TypeOK, PollerRecord, NetState, Frame
<1>9. Closing = {}
  BY <1>7 DEF Closing
<1>10. FreshInv /\ CurrentInv /\ StackInv /\ ClosingInv
  BY <1>3, <1>5, <1>7, <1>9, NoFdIsNone DEF FreshInv, CurrentInv, StackInv, ClosingInv
<1>11. MapInv /\ AddedInv /\ WatchInv /\ HandedInv /\ ActiveInv
  BY <1>2, <1>7, Tags DEF MapInv, AddedInv, WatchInv, HandedInv, ActiveInv
<1>12. OwnInv
  BY <1>3, <1>5, <1>6, <1>9, NoFdIsNone DEF OwnInv, Owner
<1> QED BY <1>8, <1>10, <1>11, <1>12 DEF IInv, Core

\* Every step keeps the invariant.
LEMMA NextIInv ==
  ASSUME IInv, [Next]_vars
  PROVE  IInv'
<1>1. CASE UNCHANGED vars
  <2>1. UNCHANGED <<client, conn, temp, poller, net, active, stack, aborted, gone, attempts>>
    BY <1>1
  <2>2. TypeOK'
    BY <2>1 DEF IInv, TypeOK
  <2>3. ASSUME ~aborted' PROVE Core'
    <3>1. TypeOK /\ Core
      BY <2>1, <2>3 DEF IInv
    <3> QED BY <2>1, <3>1, Still, Same
  <2> QED BY <2>2, <2>3 DEF IInv
<1>2. CASE Poll
  BY <1>2, Polls DEF IInv, Poll
<1>3. CASE HandleEvent
  BY <1>3, TempStep, ConnStep DEF HandleEvent
<1>4. CASE Connect \/ Disconnect \/ Send \/ SetAutoReconnect \/ Destroy
  BY <1>4, ConnectStep, DisconnectStep, SendStep, SetAutoReconnectStep, DestroyStep
<1>5. CASE LeaveCallback \/ DoReconnect
  BY <1>5, LeaveConnectionCallbackStep, LeaveDataCallbackStep, LeaveCloseCallbackStep, DoReconnectStep
  DEF LeaveCallback
<1>6. CASE \E f \in Fds : PeerAnswers(f) \/ PeerActs(f)
  BY <1>6, PeerStep
<1> QED BY <1>1, <1>2, <1>3, <1>4, <1>5, <1>6 DEF Next

\* IInv is an invariant of the client and the loop under it.
THEOREM IInvHolds == Spec => []IInv
BY InitIInv, NextIInv, PTL DEF Spec

\* The members of TcpClient, its connections and the poller keep their types.
THEOREM TypeCorrect == Spec => []TypeOK
<1>1. IInv => TypeOK
  BY DEF IInv
<1> QED BY <1>1, IInvHolds, PTL

\* However Connect, Disconnect and the destructor are mixed with callbacks, timers and a
\* late answer of the peer, no socket leaks and none is closed by two: m_socket, the
\* connection in m_connection and the connections in HandleClose share out the open ones.
THEOREM SocketsHaveOneOwner == Spec => []OneOwner
<1>1. IInv => OneOwner
  <2> SUFFICES ASSUME IInv, ~aborted
               PROVE  LET owners == ({client.current} \cup Closing) \ {0} IN
                      /\ {f \in Fds : net[f] # "closed"} =
                           ({client.sock} \cup {conn[k].fd : k \in owners}) \ {NoFd}
                      /\ \A k \in owners : conn[k].fd # client.sock
                      /\ \A j, k \in owners : conn[j].fd = conn[k].fd => j = k
    BY DEF OneOwner
  <2> DEFINE owners == ({client.current} \cup Closing) \ {0}
  <2>1. TypeOK /\ Core
    BY DEF IInv
  <2>2. owners \subseteq Attempts /\ \A k \in Attempts : k \in owners <=> Owner(k)
    BY <2>1, ClosingType, NoFdIsNone DEF TypeOK, Client, Owner
  <2>3. client.sock \in Fds \cup {NoFd} /\ \A k \in Attempts : conn[k].fd \in Fds \cup {NoFd}
    BY <2>1 DEF TypeOK, Client, Connection
  <2> HIDE DEF owners, Owner
  <2>4. {f \in Fds : net[f] # "closed"} = ({client.sock} \cup {conn[k].fd : k \in owners}) \ {NoFd}
    BY <2>1, <2>2, <2>3, NoFdIsNone DEF Core, OwnInv
  <2>5. /\ \A k \in owners : conn[k].fd # client.sock
        /\ \A j, k \in owners : conn[j].fd = conn[k].fd => j = k
    BY <2>1, <2>2 DEF Core, OwnInv
  <2> QED BY <2>4, <2>5 DEF owners
<1> QED BY <1>1, IInvHolds, PTL

\* Between handlers the kernel watches open sockets only, and the poller reports them to
\* the temporary channel made for the fd or to the channel of the connection in
\* m_connection: no event goes to a connection that was closed or replaced.
THEOREM NobodyMissingIsTold == Spec => []WatchedIsOwned
<1>1. IInv => WatchedIsOwned
  <2> SUFFICES ASSUME IInv, ~aborted, stack = <<>> PROVE WatchedIsOwned
    BY DEF WatchedIsOwned
  <2>1. TypeOK /\ Core
    BY DEF IInv
  <2>2. ASSUME NEW f \in Fds, poller.set[f] # {}
        PROVE  /\ net[f] # "closed"
               /\ \/ \E k \in Attempts : poller.map[f] = Temp(k) /\ temp[k] = f
                  \/ \E k \in Attempts : poller.map[f] = Conn(k) /\ conn[k].fd = f /\ client.current = k
    <3>1. net[f] # "closed" /\ poller.map[f] \in Channels
      BY <2>1, <2>2 DEF Core, WatchInv, TypeOK
    <3>2. PICK k \in Attempts : poller.map[f] = Temp(k) \/ poller.map[f] = Conn(k)
      BY <3>1, Tags
    <3> QED BY <2>1, <2>2, <3>1, <3>2 DEF Core, WatchInv, MapInv
  <2>3. \A a \in active, k \in Attempts : a.channel = Conn(k) => client.current = k
    BY <2>1 DEF Core, ActiveInv
  <2> QED BY <2>2, <2>3 DEF WatchedIsOwned
<1> QED BY <1>1, IInvHolds, PTL
=============================================================================
