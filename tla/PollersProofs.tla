--------------------------- MODULE PollersProofs ---------------------------
(***************************************************************************)
(* Proofs about EpollPoller and WSPollPoller for any finite set of fd      *)
(* numbers and any channels: both implement Poller, and they give the same *)
(* answers.                                                                *)
(***************************************************************************)
EXTENDS Pollers, FiniteSetTheorems, SequenceTheorems, TLAPS

USE DEF vars

Wanted == SUBSET {"read", "write"}

-----------------------------------------------------------------------------
(* The inductive invariant.                                                *)

EpollRecord ==
  [map : [Fds -> Channels \cup {None}], set : [Fds -> Wanted], added : SUBSET Channels, room : Nat]

\* The event array never shrinks.
EpollType ==
  /\ events \in [Channels -> Wanted]
  /\ epoll \in EpollRecord /\ epoll.room >= Room

\* The map and the kernel's epoll set have the same fds, and a channel is under
\* its own fd.
EpollInv ==
  \A f \in Fds :
    /\ epoll.map[f] = None <=> epoll.set[f] = {}
    /\ epoll.map[f] # None => FdOf[epoll.map[f]] = f

PollFd == [fd : Fds, events : Wanted]
WSRecord == [pollfds : Seq(PollFd), channels : Seq(Channels), idx : [Fds -> Nat],
             added : SUBSET Channels]

\* m_pollfds and m_channels have the same length, and m_fd_to_idx points to the
\* element of each fd.
InStep(p) ==
  /\ Len(p.channels) = Len(p.pollfds)
  /\ \A i \in 1..Len(p.pollfds) : p.idx[p.pollfds[i].fd] = i
  /\ \A f \in Fds : p.idx[f] # 0 =>
       p.idx[f] \in 1..Len(p.pollfds) /\ p.pollfds[p.idx[f]].fd = f

\* What the vectors say about each fd.
Holder(p)   == [f \in Fds |-> IF p.idx[f] = 0 THEN None ELSE p.channels[p.idx[f]]]
Interest(p) == [f \in Fds |-> IF p.idx[f] = 0 THEN {} ELSE p.pollfds[p.idx[f]].events]

\* Both pollers know the same channels with the same interest.
SameRegistry == Holder(ws) = epoll.map /\ Interest(ws) = epoll.set /\ ws.added = epoll.added

IInv == EpollType /\ EpollInv /\ ws \in WSRecord /\ InStep(ws) /\ SameRegistry /\ SameAnswers

-----------------------------------------------------------------------------
(* EpollPoller.                                                            *)

\* EpollPoller::RemoveChannel clears the entry of the fd in the map and in the kernel.
LEMMA EpollForgets ==
  ASSUME NEW p \in EpollRecord, NEW c \in Channels, NEW f \in Fds
  PROVE  LET q == EpollRemove(p, c, f) IN
         /\ q \in EpollRecord /\ q.room = p.room
         /\ IF p.map[f] = None
            THEN q = p
            ELSE /\ q.map = [p.map EXCEPT ![f] = None]
                 /\ q.set = [p.set EXCEPT ![f] = {}]
                 /\ q.added = p.added \ {c}
<1> DEFINE q1 == EpollCtl("DEL", p, f, {})
           q  == EpollRemove(p, c, f)
<1>1. q1 = [p EXCEPT !.set = [p.set EXCEPT ![f] = {}]]
  <2>1. p.set[f] = {} => [p.set EXCEPT ![f] = {}] = [p.set EXCEPT ![f] = p.set[f]]
    OBVIOUS
  <2> QED BY <2>1 DEF EpollCtl
<1>2. /\ q1 \in EpollRecord /\ q1.map = p.map /\ q1.added = p.added /\ q1.room = p.room
      /\ q1.set = [p.set EXCEPT ![f] = {}]
  BY <1>1 DEF EpollRecord, Wanted
<1>3. CASE p.map[f] = None
  BY <1>3 DEF EpollRemove
<1>4. CASE p.map[f] # None
  <2>1. q = [q1 EXCEPT !.map = [q1.map EXCEPT ![f] = None], !.added = q1.added \ {c}]
    BY <1>4 DEF EpollRemove
  <2>2. /\ q.map = [q1.map EXCEPT ![f] = None] /\ q.added = q1.added \ {c}
        /\ q.set = q1.set /\ q.room = q1.room /\ q \in EpollRecord
    <3> HIDE DEF q1, q
    <3> QED BY <1>2, <2>1 DEF EpollRecord
  <2> QED BY <1>2, <1>4, <2>2
<1> QED BY <1>3, <1>4

\* EpollPoller::UpdateChannel with an interest: the first channel of an fd stays, the interest is the latest.
LEMMA EpollLearns ==
  ASSUME NEW p \in EpollRecord, NEW c \in Channels, NEW f \in Fds, NEW ev \in Wanted \ {{}},
         p.map[f] = None <=> p.set[f] = {}
  PROVE  LET q == EpollUpdate(p, c, f, ev) IN
         /\ q \in EpollRecord /\ q.room = p.room
         /\ q.set = [p.set EXCEPT ![f] = ev]
         /\ IF p.map[f] = None
            THEN q.map = [p.map EXCEPT ![f] = c] /\ q.added = p.added \cup {c}
            ELSE q.map = p.map /\ q.added = p.added
<1> DEFINE q1 == [p EXCEPT !.set = [p.set EXCEPT ![f] = ev]]
           q  == EpollUpdate(p, c, f, ev)
<1>1. /\ q1 \in EpollRecord /\ q1.map = p.map /\ q1.added = p.added /\ q1.room = p.room
      /\ q1.set = [p.set EXCEPT ![f] = ev]
  BY DEF EpollRecord
<1>2. CASE p.map[f] # None
  <2>1. q = q1
    BY <1>2 DEF EpollUpdate, EpollCtl
  <2> QED BY <1>1, <1>2, <2>1
<1>3. CASE p.map[f] = None
  <2>1. q = [q1 EXCEPT !.map = [q1.map EXCEPT ![f] = c], !.added = q1.added \cup {c}]
    BY <1>3 DEF EpollUpdate, EpollCtl, EpollKnow
  <2>2. /\ q.map = [q1.map EXCEPT ![f] = c] /\ q.added = q1.added \cup {c}
        /\ q.set = q1.set /\ q.room = q1.room /\ q \in EpollRecord
    <3> HIDE DEF q1, q
    <3> QED BY <1>1, <2>1 DEF EpollRecord
  <2> QED BY <1>1, <1>3, <2>2
<1> QED BY <1>2, <1>3

-----------------------------------------------------------------------------
(* WSPollPoller.                                                           *)

\* What swapping element i with the last one and pop_back() leave.
LEMMA SwapPop ==
  ASSUME NEW S, NEW v \in Seq(S), NEW i \in 1..Len(v)
  PROVE  LET w == PopBack(Swap(v, i, Len(v))) IN
         /\ w \in Seq(S) /\ Len(w) = Len(v) - 1
         /\ \A j \in 1..(Len(v) - 1) : w[j] = IF j = i THEN v[Len(v)] ELSE v[j]
<1> DEFINE n == Len(v)
           u == Swap(v, i, n)
<1>1. n \in Nat /\ n \in 1..n
  OBVIOUS
<1>2. /\ u \in Seq(S) /\ Len(u) = n
      /\ \A j \in 1..n : u[j] = IF j = n THEN v[i] ELSE IF j = i THEN v[n] ELSE v[j]
  BY <1>1 DEF Swap
<1> HIDE DEF u
<1>3. \A j \in 1..(n - 1) : u[j] \in S
  BY <1>1, <1>2
<1>4. /\ SubSeq(u, 1, n - 1) \in Seq(S)
      /\ Len(SubSeq(u, 1, n - 1)) = IF 1 <= n - 1 THEN n - 1 ELSE 0
      /\ \A j \in 1..(n - 1) : SubSeq(u, 1, n - 1)[j] = u[j]
  BY <1>1, <1>3, SubSeqProperties
<1>5. PopBack(u) = SubSeq(u, 1, n - 1)
  BY <1>2 DEF PopBack
<1> QED BY <1>1, <1>2, <1>4, <1>5 DEF u

\* The removal keeps the three structures in step and forgets f and nothing else.
LEMMA WSForgets ==
  ASSUME NEW p \in WSRecord, InStep(p), NEW c \in Channels, NEW f \in Fds
  PROVE  LET q == WSPollRemove(p, c, f) IN
         /\ q \in WSRecord /\ InStep(q)
         /\ IF p.idx[f] = 0
            THEN q = p
            ELSE /\ Holder(q) = [Holder(p) EXCEPT ![f] = None]
                 /\ Interest(q) = [Interest(p) EXCEPT ![f] = {}]
                 /\ q.added = p.added \ {c}
<1> DEFINE q == WSPollRemove(p, c, f)
           k == p.idx[f]
           n == Len(p.pollfds)
           g == p.pollfds[n].fd
<1>1. CASE k = 0
  BY <1>1 DEF WSPollRemove
<1>2. CASE k # 0
  <2>a. /\ p.pollfds \in Seq(PollFd) /\ p.channels \in Seq(Channels)
        /\ p.idx \in [Fds -> Nat] /\ p.added \in SUBSET Channels
    BY DEF WSRecord
  <2>b. k \in 1..n /\ p.pollfds[k].fd = f /\ n \in Nat /\ n \in 1..n /\ Len(p.channels) = n
    BY <1>2, <2>a DEF InStep
  <2>c. g \in Fds /\ p.idx[g] = n
    <3>1. p.pollfds[n] \in PollFd
      BY <2>a, <2>b, ElementOfSeq
    <3> QED BY <2>b, <3>1 DEF InStep, PollFd
  <2> DEFINE pf == PopBack(Swap(p.pollfds, k, n))
             ch == PopBack(Swap(p.channels, k, n))
             ix == [p.idx EXCEPT ![g] = k, ![f] = 0]
  <2>1. q = [pollfds |-> pf, channels |-> ch, idx |-> ix, added |-> p.added \ {c}]
    BY <1>2 DEF WSPollRemove
  <2>2. /\ pf \in Seq(PollFd) /\ Len(pf) = n - 1
        /\ \A j \in 1..(n - 1) : pf[j] = IF j = k THEN p.pollfds[n] ELSE p.pollfds[j]
    BY <2>a, <2>b, SwapPop, ZenonT(60)
  <2>3. /\ ch \in Seq(Channels) /\ Len(ch) = n - 1
        /\ \A j \in 1..(n - 1) : ch[j] = IF j = k THEN p.channels[n] ELSE p.channels[j]
    <3>1. k \in 1..Len(p.channels)
      BY <2>b
    <3> DEFINE m == Len(p.channels)
               w == PopBack(Swap(p.channels, k, m))
    <3>2. /\ w \in Seq(Channels) /\ Len(w) = m - 1
          /\ \A j \in 1..(m - 1) : w[j] = IF j = k THEN p.channels[m] ELSE p.channels[j]
      <4> HIDE DEF k
      <4> QED BY <2>a, <3>1, SwapPop
    <3>3. m = n
      BY <2>b
    <3> HIDE DEF m, n, k
    <3> QED BY <3>2, <3>3
  <2>4. /\ ix \in [Fds -> Nat] /\ ix[f] = 0
        /\ g # f => ix[g] = k
        /\ \A h \in Fds \ {f, g} : ix[h] = p.idx[h]
    BY <2>a, <2>b, <2>c
  <2> HIDE DEF pf, ch, ix, q
  <2>5. /\ q.pollfds = pf /\ q.channels = ch /\ q.idx = ix /\ q.added = p.added \ {c}
        /\ q \in WSRecord
    BY <2>a, <2>1, <2>2, <2>3, <2>4 DEF WSRecord
  <2>6. g # f => k \in 1..(n - 1)
    BY <2>b, <2>c
  <2>7. \A h \in Fds \ {f, g} : p.idx[h] # 0 =>
          p.idx[h] \in 1..(n - 1) /\ p.idx[h] # k /\ p.pollfds[p.idx[h]].fd = h
    BY <2>a, <2>b, <2>c DEF InStep
  <2>8. InStep(q)
    <3>1. \A j \in 1..(n - 1) : ix[pf[j].fd] = j
      <4> SUFFICES ASSUME NEW j \in 1..(n - 1) PROVE ix[pf[j].fd] = j
        OBVIOUS
      <4>1. j \in 1..n /\ j # n /\ p.pollfds[j] \in PollFd /\ p.pollfds[j].fd \in Fds
            /\ p.idx[p.pollfds[j].fd] = j
        <5>1. j \in 1..n /\ j # n
          BY <2>b
        <5>2. p.pollfds[j] \in PollFd
          BY <2>a, <5>1, ElementOfSeq
        <5> QED BY <5>1, <5>2 DEF InStep, PollFd
      <4>2. CASE j = k
        BY <2>2, <2>4, <2>b, <2>c, <4>1, <4>2
      <4>3. CASE j # k
        BY <2>2, <2>4, <2>b, <2>c, <4>1, <4>3
      <4> QED BY <4>2, <4>3
    <3>2. \A h \in Fds : ix[h] # 0 => ix[h] \in 1..(n - 1) /\ pf[ix[h]].fd = h
      BY <2>2, <2>4, <2>6, <2>7, <2>c
    <3> QED BY <2>2, <2>3, <2>5, <3>1, <3>2 DEF InStep
  <2>9. \A h \in Fds \ {f, g} : ix[h] = p.idx[h] /\ (p.idx[h] # 0 =>
          ch[ix[h]] = p.channels[p.idx[h]] /\ pf[ix[h]] = p.pollfds[p.idx[h]])
    BY <2>2, <2>3, <2>4, <2>7
  <2> HIDE DEF k, n, g
  <2>10. g # f => /\ ix[g] = k /\ k # 0 /\ p.idx[g] = n /\ n # 0
                  /\ ch[k] = p.channels[n] /\ pf[k] = p.pollfds[n]
    <3>1. n # 0 /\ k # 0
      BY <1>2, <2>b
    <3> QED BY <2>2, <2>3, <2>4, <2>6, <2>c, <3>1
  <2>11. Holder(q) = [Holder(p) EXCEPT ![f] = None]
    <3>1. \A h \in Fds : Holder(q)[h] = [Holder(p) EXCEPT ![f] = None][h]
      <4> TAKE h \in Fds
      <4>1. CASE h = f
        BY <2>4, <2>5, <4>1 DEF Holder
      <4>2. CASE h # f /\ h = g
        BY <2>5, <2>10, <2>c, <4>2 DEF Holder
      <4>3. CASE h # f /\ h # g
        BY <2>5, <2>9, <4>3 DEF Holder
      <4> QED BY <4>1, <4>2, <4>3
    <3> QED BY <3>1 DEF Holder
  <2>12. Interest(q) = [Interest(p) EXCEPT ![f] = {}]
    <3>1. \A h \in Fds : Interest(q)[h] = [Interest(p) EXCEPT ![f] = {}][h]
      <4> TAKE h \in Fds
      <4>1. CASE h = f
        BY <2>4, <2>5, <4>1 DEF Interest
      <4>2. CASE h # f /\ h = g
        BY <2>5, <2>10, <2>c, <4>2 DEF Interest
      <4>3. CASE h # f /\ h # g
        BY <2>5, <2>9, <4>3 DEF Interest
      <4> QED BY <4>1, <4>2, <4>3
    <3> QED BY <3>1 DEF Interest
  <2> QED BY <1>2, <2>5, <2>8, <2>11, <2>12 DEF q, k
<1> QED BY <1>1, <1>2

\* An update changes the interest in f, and registers it if it was not known.
LEMMA WSLearns ==
  ASSUME NEW p \in WSRecord, InStep(p), NEW c \in Channels, NEW f \in Fds, NEW ev \in Wanted \ {{}}
  PROVE  LET q == WSPollUpdate(p, c, f, ev) IN
         /\ q \in WSRecord /\ InStep(q)
         /\ Interest(q) = [Interest(p) EXCEPT ![f] = ev]
         /\ IF p.idx[f] = 0
            THEN Holder(q) = [Holder(p) EXCEPT ![f] = c] /\ q.added = p.added \cup {c}
            ELSE Holder(q) = Holder(p) /\ q.added = p.added
<1> DEFINE q == WSPollUpdate(p, c, f, ev)
           k == p.idx[f]
           n == Len(p.pollfds)
           e == [fd |-> f, events |-> ev]
<1>a. /\ p.pollfds \in Seq(PollFd) /\ p.channels \in Seq(Channels)
      /\ p.idx \in [Fds -> Nat] /\ p.added \in SUBSET Channels /\ n \in Nat /\ Len(p.channels) = n
  BY DEF WSRecord, InStep
<1>b. e \in PollFd /\ e.fd = f /\ e.events = ev
  BY DEF PollFd
<1>c. \A i \in 1..n : p.pollfds[i].fd \in Fds /\ p.idx[p.pollfds[i].fd] = i
  <2>1. \A i \in 1..n : p.pollfds[i] \in PollFd
    BY <1>a, ElementOfSeq
  <2> QED BY <2>1 DEF PollFd, InStep
<1>d. \A h \in Fds : p.idx[h] # 0 => p.idx[h] \in 1..n /\ p.pollfds[p.idx[h]].fd = h
  BY DEF InStep
<1> HIDE DEF e
<1>1. CASE k # 0
  <2> DEFINE pf == [p.pollfds EXCEPT ![k] = e]
  <2>1. k \in 1..n /\ p.pollfds[k].fd = f
    BY <1>1, <1>d
  <2>2. pf \in Seq(PollFd) /\ Len(pf) = n /\ \A j \in 1..n : pf[j] = IF j = k THEN e ELSE p.pollfds[j]
    BY <1>a, <1>b, <2>1, ExceptSeq
  <2>3. q = [p EXCEPT !.pollfds = pf]
    BY <1>1 DEF WSPollUpdate, e
  <2> HIDE DEF pf, q
  <2>4. /\ q.pollfds = pf /\ q.channels = p.channels /\ q.idx = p.idx /\ q.added = p.added
        /\ q \in WSRecord
    BY <2>2, <2>3 DEF WSRecord
  <2>5. \A j \in 1..n : pf[j].fd = p.pollfds[j].fd
    BY <1>b, <2>1, <2>2
  <2>6. InStep(q)
    BY <1>a, <1>c, <1>d, <2>2, <2>4, <2>5 DEF InStep
  <2>7. Holder(q) = Holder(p)
    BY <2>4 DEF Holder
  <2>8. \A h \in Fds \ {f} : p.idx[h] # 0 => pf[p.idx[h]] = p.pollfds[p.idx[h]]
    BY <1>d, <2>1, <2>2
  <2>9. pf[k].events = ev
    BY <1>b, <2>1, <2>2
  <2>10. Interest(q) = [Interest(p) EXCEPT ![f] = ev]
    BY <1>1, <2>4, <2>8, <2>9 DEF Interest
  <2> QED BY <1>1, <2>4, <2>6, <2>7, <2>10 DEF q
<1>2. CASE k = 0
  <2> DEFINE pf == Append(p.pollfds, e)
             ch == Append(p.channels, c)
             ix == [p.idx EXCEPT ![f] = n + 1]
  <2>1. q = [pollfds |-> pf, channels |-> ch, idx |-> ix, added |-> p.added \cup {c}]
    BY <1>2 DEF WSPollUpdate, e
  <2>2. /\ pf \in Seq(PollFd) /\ Len(pf) = n + 1 /\ pf[n + 1] = e
        /\ \A j \in 1..n : pf[j] = p.pollfds[j]
    BY <1>a, <1>b
  <2>3. /\ ch \in Seq(Channels) /\ Len(ch) = n + 1 /\ ch[n + 1] = c
        /\ \A j \in 1..n : ch[j] = p.channels[j]
    BY <1>a
  <2>4. ix \in [Fds -> Nat] /\ ix[f] = n + 1 /\ \A h \in Fds \ {f} : ix[h] = p.idx[h]
    BY <1>a
  <2> HIDE DEF pf, ch, ix, q
  <2>5. /\ q.pollfds = pf /\ q.channels = ch /\ q.idx = ix /\ q.added = p.added \cup {c}
        /\ q \in WSRecord
    BY <1>a, <2>1, <2>2, <2>3, <2>4 DEF WSRecord
  <2>6. InStep(q)
    <3>1. \A j \in 1..(n + 1) : ix[pf[j].fd] = j
      <4>1. \A j \in 1..n : pf[j].fd \in Fds \ {f} /\ p.idx[pf[j].fd] = j
        BY <1>2, <1>a, <1>c, <2>2
      <4>2. ix[pf[n + 1].fd] = n + 1
        BY <1>b, <2>2, <2>4
      <4> QED BY <1>a, <2>4, <4>1, <4>2
    <3>2. \A h \in Fds : ix[h] # 0 => ix[h] \in 1..(n + 1) /\ pf[ix[h]].fd = h
      BY <1>a, <1>b, <1>d, <2>2, <2>4
    <3> QED BY <2>2, <2>3, <2>5, <3>1, <3>2 DEF InStep
  <2>7. \A h \in Fds \ {f} : ix[h] = p.idx[h] /\ (p.idx[h] # 0 =>
          ch[ix[h]] = p.channels[p.idx[h]] /\ pf[ix[h]] = p.pollfds[p.idx[h]])
    BY <1>d, <2>2, <2>3, <2>4
  <2>8. ix[f] # 0 /\ ch[ix[f]] = c /\ pf[ix[f]].events = ev
    BY <1>a, <1>b, <2>2, <2>3, <2>4
  <2>9. Holder(q) = [Holder(p) EXCEPT ![f] = c]
    BY <2>5, <2>7, <2>8, ZenonT(60) DEF Holder
  <2>10. Interest(q) = [Interest(p) EXCEPT ![f] = ev]
    BY <2>5, <2>7, <2>8, ZenonT(60) DEF Interest
  <2> QED BY <1>2, <2>5, <2>6, <2>9, <2>10 DEF q
<1> QED BY <1>1, <1>2

-----------------------------------------------------------------------------
(* Both pollers side by side.                                              *)

Registry == EpollType /\ EpollInv /\ ws \in WSRecord /\ InStep(ws) /\ SameRegistry

\* Both pollers know f, or neither does, and a known channel is watched.
LEMMA KnownToBoth ==
  ASSUME Registry, NEW f \in Fds
  PROVE  /\ ws.idx[f] = 0 <=> epoll.map[f] = None
         /\ ws.idx[f] # 0 => /\ ws.channels[ws.idx[f]] = epoll.map[f]
                             /\ ws.pollfds[ws.idx[f]].events = epoll.set[f]
                             /\ epoll.map[f] \in Channels /\ epoll.set[f] # {}
<1>1. CASE ws.idx[f] = 0
  BY <1>1 DEF Registry, SameRegistry, Holder
<1>2. CASE ws.idx[f] # 0
  <2>1. ws.channels \in Seq(Channels) /\ ws.idx[f] \in 1..Len(ws.channels)
    BY <1>2 DEF Registry, WSRecord, InStep
  <2>2. ws.channels[ws.idx[f]] \in Channels
    BY <2>1, ElementOfSeq
  <2>3. Holder(ws)[f] = ws.channels[ws.idx[f]] /\ Interest(ws)[f] = ws.pollfds[ws.idx[f]].events
    BY <1>2 DEF Holder, Interest
  <2>4. epoll.map[f] = ws.channels[ws.idx[f]] /\ epoll.set[f] = ws.pollfds[ws.idx[f]].events
    BY <2>3 DEF Registry, SameRegistry
  <2> QED BY <1>2, <2>2, <2>4, PollersAssumption DEF Registry, EpollInv
<1> QED BY <1>1, <1>2

\* RemoveChannel, and UpdateChannel of a channel that wants nothing any more.
LEMMA BothForget ==
  ASSUME Registry, NEW c \in Channels, events' \in [Channels -> Wanted],
         epoll' = EpollRemove(epoll, c, FdOf[c]), ws' = WSPollRemove(ws, c, FdOf[c])
  PROVE  /\ Registry'
         /\ IF epoll.map[FdOf[c]] = None
            THEN epoll' = epoll
            ELSE /\ epoll'.map = [epoll.map EXCEPT ![FdOf[c]] = None]
                 /\ epoll'.set = [epoll.set EXCEPT ![FdOf[c]] = {}]
                 /\ epoll'.added = epoll.added \ {c}
<1> DEFINE f == FdOf[c]
<1>1. f \in Fds
  BY PollersAssumption
<1>2. epoll \in EpollRecord /\ ws \in WSRecord /\ InStep(ws)
  BY DEF Registry, EpollType
<1>3. /\ epoll' \in EpollRecord /\ epoll'.room = epoll.room
      /\ IF epoll.map[f] = None
         THEN epoll' = epoll
         ELSE /\ epoll'.map = [epoll.map EXCEPT ![f] = None]
              /\ epoll'.set = [epoll.set EXCEPT ![f] = {}]
              /\ epoll'.added = epoll.added \ {c}
  BY <1>1, <1>2, EpollForgets, SMTT(30)
<1>4. /\ ws' \in WSRecord /\ InStep(ws')
      /\ IF ws.idx[f] = 0
         THEN ws' = ws
         ELSE /\ Holder(ws') = [Holder(ws) EXCEPT ![f] = None]
              /\ Interest(ws') = [Interest(ws) EXCEPT ![f] = {}]
              /\ ws'.added = ws.added \ {c}
  <2> DEFINE w == WSPollRemove(ws, c, f)
  <2>1. /\ w \in WSRecord /\ InStep(w)
        /\ IF ws.idx[f] = 0
           THEN w = ws
           ELSE /\ Holder(w) = [Holder(ws) EXCEPT ![f] = None]
                /\ Interest(w) = [Interest(ws) EXCEPT ![f] = {}]
                /\ w.added = ws.added \ {c}
    BY <1>1, <1>2, WSForgets
  <2>2. ws' = w
    OBVIOUS
  <2> HIDE DEF w, f
  <2> QED BY ONLY <2>1, <2>2
<1>5. ws.idx[f] = 0 <=> epoll.map[f] = None
  BY <1>1, KnownToBoth
<1>6. EpollType'
  BY <1>3 DEF Registry, EpollType
<1>7. EpollInv'
  <2>1. CASE epoll.map[f] = None
    BY <1>3, <2>1 DEF Registry, EpollInv
  <2>2. CASE epoll.map[f] # None
    BY <1>1, <1>2, <1>3, <2>2 DEF Registry, EpollInv, EpollRecord
  <2> QED BY <2>1, <2>2
<1>8. Holder(ws') = epoll'.map /\ Interest(ws') = epoll'.set /\ ws'.added = epoll'.added
  <2>1. CASE epoll.map[f] = None
    BY <1>3, <1>4, <1>5, <2>1 DEF Registry, SameRegistry
  <2>2. CASE epoll.map[f] # None
    BY <1>3, <1>4, <1>5, <2>2 DEF Registry, SameRegistry
  <2> QED BY <2>1, <2>2
<1>9. SameRegistry'
  BY ONLY <1>8 DEF SameRegistry, Holder, Interest
<1>10. InStep(ws)'
  BY ONLY <1>4 DEF InStep
<1> QED BY <1>3, <1>4, <1>6, <1>7, <1>9, <1>10 DEF Registry

\* UpdateChannel of a channel that wants something.
LEMMA BothLearn ==
  ASSUME Registry, NEW c \in Channels, NEW ev \in Wanted \ {{}}, events' \in [Channels -> Wanted],
         epoll' = EpollUpdate(epoll, c, FdOf[c], ev), ws' = WSPollUpdate(ws, c, FdOf[c], ev)
  PROVE  /\ Registry'
         /\ epoll'.set = [epoll.set EXCEPT ![FdOf[c]] = ev]
         /\ IF epoll.map[FdOf[c]] = None
            THEN /\ epoll'.map = [epoll.map EXCEPT ![FdOf[c]] = c]
                 /\ epoll'.added = epoll.added \cup {c}
            ELSE epoll'.map = epoll.map /\ epoll'.added = epoll.added
<1> DEFINE f == FdOf[c]
<1>1. f \in Fds
  BY PollersAssumption
<1>2. epoll \in EpollRecord /\ ws \in WSRecord /\ InStep(ws) /\ (epoll.map[f] = None <=> epoll.set[f] = {})
  BY <1>1 DEF Registry, EpollType, EpollInv
<1>3. /\ epoll' \in EpollRecord /\ epoll'.room = epoll.room
      /\ epoll'.set = [epoll.set EXCEPT ![f] = ev]
      /\ IF epoll.map[f] = None
         THEN epoll'.map = [epoll.map EXCEPT ![f] = c] /\ epoll'.added = epoll.added \cup {c}
         ELSE epoll'.map = epoll.map /\ epoll'.added = epoll.added
  BY <1>1, <1>2, EpollLearns
<1>4. /\ ws' \in WSRecord /\ InStep(ws')
      /\ Interest(ws') = [Interest(ws) EXCEPT ![f] = ev]
      /\ IF ws.idx[f] = 0
         THEN Holder(ws') = [Holder(ws) EXCEPT ![f] = c] /\ ws'.added = ws.added \cup {c}
         ELSE Holder(ws') = Holder(ws) /\ ws'.added = ws.added
  <2> DEFINE w == WSPollUpdate(ws, c, f, ev)
  <2>1. /\ w \in WSRecord /\ InStep(w)
        /\ Interest(w) = [Interest(ws) EXCEPT ![f] = ev]
        /\ IF ws.idx[f] = 0
           THEN Holder(w) = [Holder(ws) EXCEPT ![f] = c] /\ w.added = ws.added \cup {c}
           ELSE Holder(w) = Holder(ws) /\ w.added = ws.added
    <3> HIDE DEF f
    <3>1. ws \in WSRecord /\ InStep(ws)
      BY <1>2
    <3> QED BY ONLY <1>1, <3>1, c \in Channels, ev \in Wanted \ {{}}, WSLearns
  <2>2. ws' = w
    OBVIOUS
  <2> HIDE DEF w, f
  <2> QED BY ONLY <2>1, <2>2
<1>5. ws.idx[f] = 0 <=> epoll.map[f] = None
  BY <1>1, KnownToBoth
<1>6. EpollType'
  BY <1>3 DEF Registry, EpollType
<1>7. EpollInv'
  <2>1. CASE epoll.map[f] = None
    BY <1>1, <1>2, <1>3, <2>1, PollersAssumption DEF Registry, EpollInv, EpollRecord
  <2>2. CASE epoll.map[f] # None
    BY <1>1, <1>2, <1>3, <2>2 DEF Registry, EpollInv, EpollRecord
  <2> QED BY <2>1, <2>2
<1>8. Holder(ws') = epoll'.map /\ Interest(ws') = epoll'.set /\ ws'.added = epoll'.added
  BY <1>3, <1>4, <1>5 DEF Registry, SameRegistry
<1>9. SameRegistry'
  BY ONLY <1>8 DEF SameRegistry, Holder, Interest
<1>10. InStep(ws)'
  BY ONLY <1>4 DEF InStep
<1> QED BY <1>3, <1>4, <1>6, <1>7, <1>9, <1>10 DEF Registry

\* What Poll reports of the fds in S.
Report(S, ready) ==
  {[channel |-> epoll.map[f], revents |-> EpollEvents(epoll, f, ready[f])] : f \in S}
Reported(ready) == {f \in Fds : EpollEvents(epoll, f, ready[f]) # {}}

\* Both pollers report of each fd the same, and WSPollPoller leaves no fd out.
LEMMA BothReport ==
  ASSUME Registry, NEW ready \in [Fds -> ReadySets], NEW got \in SUBSET Reported(ready)
  PROVE  /\ EpollActive(epoll, ready, got) = Report(got, ready)
         /\ WSPollActive(ws, ready) = Report(Reported(ready), ready)
         /\ \A f \in Reported(ready) :
              /\ epoll.map[f] \in Channels /\ FdOf[epoll.map[f]] = f
              /\ EpollEvents(epoll, f, ready[f]) \subseteq epoll.set[f] \cup {"err", "hup"}
<1>1. \A f \in Reported(ready) :
        /\ epoll.map[f] \in Channels /\ epoll.map[f] # None /\ FdOf[epoll.map[f]] = f
        /\ ws.idx[f] # 0 /\ f \in Fds
        /\ EpollEvents(epoll, f, ready[f]) = ready[f] \cap (epoll.set[f] \cup {"err", "hup"})
  <2> SUFFICES ASSUME NEW f \in Reported(ready)
               PROVE  /\ epoll.map[f] \in Channels /\ epoll.map[f] # None /\ FdOf[epoll.map[f]] = f
                      /\ ws.idx[f] # 0 /\ f \in Fds
                      /\ EpollEvents(epoll, f, ready[f]) = ready[f] \cap (epoll.set[f] \cup {"err", "hup"})
    OBVIOUS
  <2>1. f \in Fds /\ epoll.set[f] # {}
    BY DEF Reported, EpollEvents
  <2>2. epoll.map[f] # None /\ FdOf[epoll.map[f]] = f
    BY <2>1 DEF Registry, EpollInv
  <2> QED BY <2>1, <2>2, KnownToBoth DEF EpollEvents
<1>2. EpollActive(epoll, ready, got) = Report(got, ready)
  <2>1. {g \in got : epoll.map[g] # None} = got
    BY <1>1
  <2> QED BY <2>1 DEF EpollActive, Report
<1>3. WSPollActive(ws, ready) = Report(Reported(ready), ready)
  <2> DEFINE I == {j \in 1..Len(ws.pollfds) : WSPollEvents(ws, j, ready) # {}}
  <2>1. \A f \in Fds : ws.idx[f] # 0 =>
          /\ ws.idx[f] \in 1..Len(ws.pollfds)
          /\ ws.channels[ws.idx[f]] = epoll.map[f]
          /\ WSPollEvents(ws, ws.idx[f], ready) = EpollEvents(epoll, f, ready[f])
    <3> SUFFICES ASSUME NEW f \in Fds, ws.idx[f] # 0
                 PROVE  /\ ws.idx[f] \in 1..Len(ws.pollfds)
                        /\ ws.channels[ws.idx[f]] = epoll.map[f]
                        /\ WSPollEvents(ws, ws.idx[f], ready) = EpollEvents(epoll, f, ready[f])
      OBVIOUS
    <3>1. ws.idx[f] \in 1..Len(ws.pollfds) /\ ws.pollfds[ws.idx[f]].fd = f
      BY DEF Registry, InStep
    <3>2. /\ ws.channels[ws.idx[f]] = epoll.map[f]
          /\ ws.pollfds[ws.idx[f]].events = epoll.set[f] /\ epoll.set[f] # {}
      BY KnownToBoth
    <3> QED BY <3>1, <3>2 DEF WSPollEvents, EpollEvents
  <2>2. \A i \in 1..Len(ws.pollfds) :
          /\ ws.pollfds[i].fd \in Fds /\ ws.idx[ws.pollfds[i].fd] = i /\ i # 0
    <3>1. ws.pollfds \in Seq(PollFd)
      BY DEF Registry, WSRecord
    <3>2. \A i \in 1..Len(ws.pollfds) : ws.pollfds[i] \in PollFd
      BY <3>1, ElementOfSeq
    <3>3. \A i \in 1..Len(ws.pollfds) : i # 0
      BY <3>1
    <3> QED BY <3>2, <3>3 DEF PollFd, Registry, InStep
  <2>3. ASSUME NEW i \in I
        PROVE  [channel |-> ws.channels[i], revents |-> WSPollEvents(ws, i, ready)]
                 \in Report(Reported(ready), ready)
    <3>1. PICK f \in Fds : ws.idx[f] = i /\ i # 0
      BY <2>2
    <3>2. ws.channels[i] = epoll.map[f] /\ WSPollEvents(ws, i, ready) = EpollEvents(epoll, f, ready[f])
      BY <2>1, <3>1
    <3>3. f \in Reported(ready)
      BY <3>2 DEF Reported
    <3> QED BY <3>2, <3>3 DEF Report
  <2>4. ASSUME NEW f \in Reported(ready)
        PROVE  [channel |-> epoll.map[f], revents |-> EpollEvents(epoll, f, ready[f])]
                 \in WSPollActive(ws, ready)
    <3>1. f \in Fds /\ ws.idx[f] # 0 /\ EpollEvents(epoll, f, ready[f]) # {}
      BY <1>1 DEF Reported
    <3>2. /\ ws.idx[f] \in I /\ ws.channels[ws.idx[f]] = epoll.map[f]
          /\ WSPollEvents(ws, ws.idx[f], ready) = EpollEvents(epoll, f, ready[f])
      BY <2>1, <3>1
    <3> QED BY <3>2 DEF WSPollActive
  <2>5. WSPollActive(ws, ready) =
          {[channel |-> ws.channels[i], revents |-> WSPollEvents(ws, i, ready)] : i \in I}
    BY DEF WSPollActive
  <2> HIDE DEF I
  <2>6. WSPollActive(ws, ready) \subseteq Report(Reported(ready), ready)
    BY <2>3, <2>5
  <2>7. Report(Reported(ready), ready) \subseteq WSPollActive(ws, ready)
    BY <2>4 DEF Report
  <2> QED BY <2>6, <2>7
<1> QED BY <1>1, <1>2, <1>3

\* Each fd has its own channel, so that as many channels as fds are reported.
LEMMA ReportSize ==
  ASSUME Registry, NEW ready \in [Fds -> ReadySets]
  PROVE  /\ IsFiniteSet(Reported(ready)) /\ Cardinality(Reported(ready)) \in Nat
         /\ Cardinality(Report(Reported(ready), ready)) = Cardinality(Reported(ready))
<1> DEFINE R == Reported(ready)
           T == Report(R, ready)
           a == [f \in R |-> [channel |-> epoll.map[f], revents |-> EpollEvents(epoll, f, ready[f])]]
<1>1. IsFiniteSet(R) /\ Cardinality(R) \in Nat
  <2>1. R \subseteq Fds
    BY DEF Reported
  <2> QED BY <2>1, FS_Subset, FS_CardinalityType, PollersAssumption
<1>2. \A f \in R : FdOf[epoll.map[f]] = f
  <2>1. R \in SUBSET R
    OBVIOUS
  <2> HIDE DEF R
  <2> QED BY <2>1, BothReport DEF R
<1> HIDE DEF R
<1>3. a \in Surjection(R, T)
  BY DEF Surjection, Report
<1>4. a \in Injection(R, T)
  <2>1. \A f, g \in R : a[f] = a[g] => f = g
    <3> SUFFICES ASSUME NEW f \in R, NEW g \in R, a[f] = a[g] PROVE f = g
      OBVIOUS
    <3>1. a[f].channel = epoll.map[f] /\ a[g].channel = epoll.map[g]
      OBVIOUS
    <3> QED BY <1>2, <3>1
  <2> QED BY <1>3, <2>1 DEF Injection, Surjection, IsInjective
<1> HIDE DEF T, a
<1>5. Cardinality(T) = Cardinality(R)
  BY <1>1, <1>3, <1>4, FS_Surjection
<1> QED BY <1>1, <1>5 DEF R, T

-----------------------------------------------------------------------------
(* Init and the steps.                                                     *)

\* Both pollers start empty.
LEMMA IInvInit == Init => IInv
<1> SUFFICES ASSUME Init PROVE IInv
  OBVIOUS
<1>1. /\ epoll.map = [f \in Fds |-> None] /\ epoll.set = [f \in Fds |-> {}]
      /\ epoll.added = {} /\ epoll.room = Room /\ epoll \in EpollRecord
  BY PollersAssumption DEF Init, EmptyEpoll, EpollRecord, Wanted
<1>2. /\ ws.pollfds = <<>> /\ ws.channels = <<>> /\ ws.idx = [f \in Fds |-> 0]
      /\ ws.added = {} /\ ws \in WSRecord
  BY DEF Init, EmptyWSPoll, WSRecord
<1>3. EpollType /\ EpollInv
  BY <1>1, PollersAssumption DEF Init, EpollType, EpollInv, Wanted
<1>4. InStep(ws)
  BY <1>2 DEF InStep
<1>5. SameRegistry
  BY <1>1, <1>2 DEF SameRegistry, Holder, Interest
<1>6. SameAnswers
  BY DEF Init, SameAnswers
<1> QED BY <1>2, <1>3, <1>4, <1>5, <1>6 DEF IInv

\* The calls of a channel: which one it is, and the interest it announces.
LEMMA WhichStep ==
  ASSUME Registry, Next
  PROVE  \/ \E c \in Channels : \E ev \in Wanted : UpdateChannel(c, ev)
         \/ \E c \in Channels : RemoveChannel(c)
         \/ Poll \/ ClearActive
<1>1. \A c \in Channels : \A e \in {"read", "write"} :
        events[c] \cup {e} \in Wanted /\ events[c] \ {e} \in Wanted /\ {} \in Wanted
  BY DEF Registry, EpollType, Wanted
<1> QED BY <1>1 DEF Next, Enable, Disable, DisableAll

\* A Poll changes no registration, and both pollers report registered fds that are ready.
LEMMA PollStep ==
  ASSUME Registry, Poll
  PROVE  /\ Registry' /\ SameAnswers'
         /\ epoll'.map = epoll.map /\ epoll'.set = epoll.set /\ epoll'.added = epoll.added
         /\ \E ready \in [Fds -> ReadySets] : \E got \in SUBSET Reported(ready) :
              /\ epollLast' = Report(got, ready)
              /\ wsLast' = Report(Reported(ready), ready)
<1>0. PICK ready \in [Fds -> ReadySets] : \E got \in EpollAnswers(epoll, ready) :
        /\ epollLast' = EpollActive(epoll, ready, got)
        /\ epoll' = EpollGrow(epoll, got)
        /\ wsLast' = WSPollActive(ws, ready)
  BY DEF Poll
<1>1. PICK got \in EpollAnswers(epoll, ready) :
        /\ epollLast' = EpollActive(epoll, ready, got)
        /\ epoll' = EpollGrow(epoll, got)
        /\ wsLast' = WSPollActive(ws, ready)
  BY <1>0
<1> DEFINE R == Reported(ready)
<1>2. /\ got \in SUBSET R
      /\ Cardinality(got) = IF Cardinality(R) < epoll.room THEN Cardinality(R) ELSE epoll.room
  BY DEF EpollAnswers, Reported
<1>3. epollLast' = Report(got, ready) /\ wsLast' = Report(R, ready)
  BY <1>1, <1>2, BothReport
<1>4. /\ epoll' \in EpollRecord /\ epoll'.room >= epoll.room
      /\ epoll'.map = epoll.map /\ epoll'.set = epoll.set /\ epoll'.added = epoll.added
  <2>1. epoll \in EpollRecord /\ epoll.room \in Nat
    BY DEF Registry, EpollType, EpollRecord
  <2>2. CASE epoll' = epoll
    BY <2>1, <2>2
  <2>3. CASE epoll' = [epoll EXCEPT !.room = 2 * epoll.room]
    BY <2>1, <2>3 DEF EpollRecord
  <2> QED BY <1>1, <2>2, <2>3 DEF EpollGrow
<1>5. ws' = ws /\ events' = events
  BY DEF Poll
<1>6. Registry'
  <2>1. EpollType'
    BY <1>4, <1>5, PollersAssumption DEF Registry, EpollType, EpollRecord
  <2>2. EpollInv' /\ SameRegistry'
    BY <1>4, <1>5 DEF Registry, EpollInv, SameRegistry, Holder, Interest
  <2> QED BY <1>5, <2>1, <2>2 DEF Registry, InStep
<1>7. SameAnswers'
  <2>1. epollLast' \subseteq wsLast'
    BY <1>2, <1>3 DEF Report
  <2>2. ASSUME Cardinality(wsLast') <= Room PROVE epollLast' = wsLast'
    <3>1. IsFiniteSet(R) /\ Cardinality(R) \in Nat /\ Cardinality(wsLast') = Cardinality(R)
      BY <1>3, ReportSize
    <3>2. epoll.room \in Nat /\ epoll.room >= Room /\ Room \in Nat
      BY PollersAssumption DEF Registry, EpollType, EpollRecord
    <3>3. Cardinality(got) = Cardinality(R)
      BY <1>2, <2>2, <3>1, <3>2
    <3>4. got = R
      BY <1>2, <3>1, <3>3, FS_Subset
    <3> QED BY <1>3, <3>4
  <2> QED BY <2>1, <2>2 DEF SameAnswers
<1> QED BY <1>2, <1>3, <1>4, <1>6, <1>7

\* Without reports the answers agree.
LEMMA NothingReported == epollLast' = {} /\ wsLast' = {} => SameAnswers'
  BY DEF SameAnswers

\* Every call to the pollers keeps them in step.
LEMMA IInvStep == IInv /\ [Next]_vars => IInv'
<1> SUFFICES ASSUME IInv, [Next]_vars PROVE Registry' /\ SameAnswers'
  BY DEF IInv, Registry
<1>1. Registry
  BY DEF IInv, Registry
<1>2. ASSUME NEW c \in Channels, NEW ev \in Wanted, UpdateChannel(c, ev) PROVE Registry' /\ SameAnswers'
  <2>1. events' \in [Channels -> Wanted]
    BY <1>1, <1>2 DEF UpdateChannel, Registry, EpollType
  <2>2. CASE ev = {}
    BY <1>1, <1>2, <2>1, <2>2, BothForget, NothingReported
       DEF UpdateChannel, EpollUpdate, WSPollUpdate
  <2>3. CASE ev # {}
    BY <1>1, <1>2, <2>1, <2>3, BothLearn, NothingReported DEF UpdateChannel
  <2> QED BY <2>2, <2>3
<1>3. ASSUME NEW c \in Channels, RemoveChannel(c) PROVE Registry' /\ SameAnswers'
  <2>1. events' \in [Channels -> Wanted]
    BY <1>1, <1>3 DEF RemoveChannel, Registry, EpollType
  <2> QED BY <1>1, <1>3, <2>1, BothForget, NothingReported DEF RemoveChannel
<1>4. CASE Poll
  BY ONLY <1>1, <1>4, PollStep
<1>5. CASE ClearActive
  <2>1. epoll' = epoll /\ ws' = ws /\ events' = events /\ epollLast' = {} /\ wsLast' = {}
    BY <1>5 DEF ClearActive
  <2>2. EpollType' /\ EpollInv'
    BY <1>1, <2>1 DEF Registry, EpollType, EpollInv
  <2>3. (ws \in WSRecord)' /\ InStep(ws)' /\ SameRegistry'
    BY <1>1, <2>1 DEF Registry, InStep, SameRegistry, Holder, Interest
  <2> QED BY <2>1, <2>2, <2>3, NothingReported DEF Registry
<1>6. CASE UNCHANGED vars
  <2>1. epoll' = epoll /\ ws' = ws /\ events' = events /\ epollLast' = epollLast /\ wsLast' = wsLast
    BY <1>6
  <2>2. EpollType' /\ EpollInv'
    BY <1>1, <2>1 DEF Registry, EpollType, EpollInv
  <2>3. (ws \in WSRecord)' /\ InStep(ws)' /\ SameRegistry'
    BY <1>1, <2>1 DEF Registry, InStep, SameRegistry, Holder, Interest
  <2>4. SameAnswers'
    BY <2>1 DEF IInv, SameAnswers
  <2> QED BY <2>2, <2>3, <2>4 DEF Registry
<1>7. CASE Next
  BY <1>1, <1>2, <1>3, <1>4, <1>5, <1>7, WhichStep
<1> QED BY <1>6, <1>7

\* The pollers are in order and know the same, always.
THEOREM IInvHolds == Spec => []IInv
BY IInvInit, IInvStep, PTL DEF Spec

\* A Poll of either poller reports the same channels with the same events, unless the
\* event array of EpollPoller was too small (EpollPoller::Poll, WSPollPoller::Poll).
THEOREM AnswersAgree == Spec => []SameAnswers
<1>1. IInv => SameAnswers
  BY DEF IInv
<1> QED BY <1>1, IInvHolds, PTL

-----------------------------------------------------------------------------
(* Both pollers implement Poller.                                          *)

\* What a step does to the registry, whichever poller keeps it: h, i and a are the holder,
\* the interest and the m_added flags before it, h1, i1 and a1 after it.
Moves(h, i, a, h1, i1, a1) ==
  \/ \E c \in Channels :
       /\ events' = events \/ events' = [events EXCEPT ![c] = {}]
       /\ IF h[FdOf[c]] = None
          THEN h1 = h /\ i1 = i /\ a1 = a
          ELSE /\ h1 = [h EXCEPT ![FdOf[c]] = None]
               /\ i1 = [i EXCEPT ![FdOf[c]] = {}]
               /\ a1 = a \ {c}
  \/ \E c \in Channels : \E ev \in Wanted \ {{}} :
       /\ events' = [events EXCEPT ![c] = ev]
       /\ i1 = [i EXCEPT ![FdOf[c]] = ev]
       /\ IF h[FdOf[c]] = None
          THEN h1 = [h EXCEPT ![FdOf[c]] = c] /\ a1 = a \cup {c}
          ELSE h1 = h /\ a1 = a

\* What a Poll may report.
Allowed(answer) ==
  /\ \A x \in answer : \E f \in Fds :
       /\ epoll.map[f] = x.channel /\ FdOf[x.channel] = f
       /\ x.revents # {} /\ x.revents \subseteq epoll.set[f] \cup {"err", "hup"}
  /\ \A x, y \in answer : x.channel = y.channel => x = y

\* What is reported is what the abstract Poll allows.
LEMMA ReportAllowed ==
  ASSUME Registry, NEW ready \in [Fds -> ReadySets], NEW got \in SUBSET Reported(ready)
  PROVE  Allowed(Report(got, ready))
<1>1. \A f \in Reported(ready) :
        /\ FdOf[epoll.map[f]] = f
        /\ EpollEvents(epoll, f, ready[f]) \subseteq epoll.set[f] \cup {"err", "hup"}
  BY BothReport
<1>2. \A f \in Reported(ready) : f \in Fds /\ EpollEvents(epoll, f, ready[f]) # {}
  BY DEF Reported
<1>3. \A x \in Report(got, ready) : \E f \in got :
        x = [channel |-> epoll.map[f], revents |-> EpollEvents(epoll, f, ready[f])]
  BY DEF Report
<1>4. \A x \in Report(got, ready) : \E f \in Reported(ready) :
        /\ x = [channel |-> epoll.map[f], revents |-> EpollEvents(epoll, f, ready[f])]
        /\ x.channel = epoll.map[f] /\ x.revents = EpollEvents(epoll, f, ready[f])
  BY <1>3
<1>5. \A x \in Report(got, ready) : \E f \in Fds :
        /\ epoll.map[f] = x.channel /\ FdOf[x.channel] = f
        /\ x.revents # {} /\ x.revents \subseteq epoll.set[f] \cup {"err", "hup"}
  <2> TAKE x \in Report(got, ready)
  <2>1. PICK f \in Reported(ready) :
          x.channel = epoll.map[f] /\ x.revents = EpollEvents(epoll, f, ready[f])
    BY <1>4
  <2>2. f \in Fds
    BY <1>2
  <2> WITNESS f \in Fds
  <2> QED BY <1>1, <1>2, <2>1
<1>6. \A x, y \in Report(got, ready) : x.channel = y.channel => x = y
  <2> SUFFICES ASSUME NEW x \in Report(got, ready), NEW y \in Report(got, ready), x.channel = y.channel
               PROVE  x = y
    OBVIOUS
  <2>1. PICK f \in Reported(ready) :
          /\ x = [channel |-> epoll.map[f], revents |-> EpollEvents(epoll, f, ready[f])]
          /\ x.channel = epoll.map[f]
    BY <1>4
  <2>2. PICK g \in Reported(ready) :
          /\ y = [channel |-> epoll.map[g], revents |-> EpollEvents(epoll, g, ready[g])]
          /\ y.channel = epoll.map[g]
    BY <1>4
  <2>3. f = g
    BY <1>1, <2>1, <2>2
  <2> QED BY <2>1, <2>2, <2>3
<1> QED BY <1>5, <1>6 DEF Allowed

\* Every step of the pollers is a step of the registry, an allowed report, or none.
LEMMA EpollMoves ==
  ASSUME IInv, [Next]_vars
  PROVE  LET m == epoll.map s == epoll.set a == epoll.added IN
         \/ /\ Moves(m, s, a, m', s', a') /\ epollLast' = {} /\ wsLast' = {}
         \/ /\ Allowed(epollLast') /\ Allowed(wsLast')
            /\ events' = events /\ m' = m /\ s' = s /\ a' = a
         \/ UNCHANGED vars
<1>1. Registry
  BY DEF IInv, Registry
<1>2. ASSUME NEW c \in Channels, NEW ev \in Wanted, UpdateChannel(c, ev)
      PROVE  /\ Moves(epoll.map, epoll.set, epoll.added, epoll'.map, epoll'.set, epoll'.added)
             /\ epollLast' = {} /\ wsLast' = {}
  <2>1. events' \in [Channels -> Wanted]
    BY <1>1, <1>2 DEF UpdateChannel, Registry, EpollType
  <2>2. CASE ev = {}
    <3>1. /\ epoll' = EpollRemove(epoll, c, FdOf[c]) /\ ws' = WSPollRemove(ws, c, FdOf[c])
          /\ events' = [events EXCEPT ![c] = {}]
      BY <1>2, <2>2 DEF UpdateChannel, EpollUpdate, WSPollUpdate
    <3>2. IF epoll.map[FdOf[c]] = None
          THEN epoll' = epoll
          ELSE /\ epoll'.map = [epoll.map EXCEPT ![FdOf[c]] = None]
               /\ epoll'.set = [epoll.set EXCEPT ![FdOf[c]] = {}]
               /\ epoll'.added = epoll.added \ {c}
      BY <1>1, <2>1, <3>1, BothForget
    <3> QED BY <1>2, <3>1, <3>2 DEF UpdateChannel, Moves
  <2>3. CASE ev # {}
    <3>1. /\ epoll'.set = [epoll.set EXCEPT ![FdOf[c]] = ev]
          /\ IF epoll.map[FdOf[c]] = None
             THEN /\ epoll'.map = [epoll.map EXCEPT ![FdOf[c]] = c]
                  /\ epoll'.added = epoll.added \cup {c}
             ELSE epoll'.map = epoll.map /\ epoll'.added = epoll.added
      BY <1>1, <1>2, <2>1, <2>3, BothLearn DEF UpdateChannel
    <3> QED BY <1>2, <2>3, <3>1 DEF UpdateChannel, Moves
  <2> QED BY <2>2, <2>3
<1>3. ASSUME NEW c \in Channels, RemoveChannel(c)
      PROVE  /\ Moves(epoll.map, epoll.set, epoll.added, epoll'.map, epoll'.set, epoll'.added)
             /\ epollLast' = {} /\ wsLast' = {}
  <2>1. events' \in [Channels -> Wanted] /\ events' = events
    BY <1>1, <1>3 DEF RemoveChannel, Registry, EpollType
  <2>2. IF epoll.map[FdOf[c]] = None
        THEN epoll' = epoll
        ELSE /\ epoll'.map = [epoll.map EXCEPT ![FdOf[c]] = None]
             /\ epoll'.set = [epoll.set EXCEPT ![FdOf[c]] = {}]
             /\ epoll'.added = epoll.added \ {c}
    BY <1>1, <1>3, <2>1, BothForget DEF RemoveChannel
  <2> QED BY <1>3, <2>1, <2>2 DEF RemoveChannel, Moves
<1>4. ASSUME Poll
      PROVE  /\ Allowed(epollLast') /\ Allowed(wsLast')
             /\ events' = events /\ epoll'.map = epoll.map /\ epoll'.set = epoll.set
             /\ epoll'.added = epoll.added
  <2>1. PICK ready \in [Fds -> ReadySets] : \E got \in SUBSET Reported(ready) :
              epollLast' = Report(got, ready) /\ wsLast' = Report(Reported(ready), ready)
    BY ONLY <1>1, <1>4, PollStep
  <2>2. PICK got \in SUBSET Reported(ready) :
              epollLast' = Report(got, ready) /\ wsLast' = Report(Reported(ready), ready)
    BY <2>1
  <2>3. Allowed(Report(got, ready)) /\ Allowed(Report(Reported(ready), ready))
    BY <1>1, ReportAllowed
  <2>4. epoll'.map = epoll.map /\ epoll'.set = epoll.set /\ epoll'.added = epoll.added
    BY ONLY <1>1, <1>4, PollStep
  <2>5. events' = events
    BY <1>4 DEF Poll
  <2> QED BY ONLY <2>2, <2>3, <2>4, <2>5
<1>5. ASSUME ClearActive
      PROVE  /\ Allowed(epollLast') /\ Allowed(wsLast')
             /\ events' = events /\ epoll'.map = epoll.map /\ epoll'.set = epoll.set
             /\ epoll'.added = epoll.added
  BY <1>5 DEF ClearActive, Allowed
<1>6. CASE Next
  BY <1>1, <1>2, <1>3, <1>4, <1>5, <1>6, WhichStep
<1> QED BY <1>6

\* EpollPoller keeps m_fd_to_channel and the kernel's epoll set in step, through every
\* epoll_ctl that may fail, and reports only what a Poller may (src/src/epoll_poller.cpp).
THEOREM EpollRefines == Spec => EpollIsPoller
<1>1. Init => EpollRegistry!Init
  BY DEF Init, EmptyEpoll, EpollRegistry!Init
<1>2. ASSUME IInv, [Next]_vars
      PROVE  [EpollRegistry!Next]_<<events, epoll.map, epoll.set, epoll.added, epollLast>>
  <2>1. CASE Moves(epoll.map, epoll.set, epoll.added, epoll'.map, epoll'.set, epoll'.added) /\ epollLast' = {}
    <3>1. EpollRegistry!Next
      BY <2>1 DEF Moves, EpollRegistry!Next, EpollRegistry!RemoveChannel, EpollRegistry!UpdateChannel,
                  EpollRegistry!Forget, EpollRegistry!Interests, Wanted
    <3> QED BY <3>1
  <2>2. CASE /\ Allowed(epollLast')
             /\ events' = events /\ epoll'.map = epoll.map /\ epoll'.set = epoll.set
             /\ epoll'.added = epoll.added
    <3>1. EpollRegistry!Poll
      BY <2>2 DEF Allowed, EpollRegistry!Poll, EpollRegistry!Always
    <3> QED BY <3>1 DEF EpollRegistry!Next
  <2>3. CASE UNCHANGED vars
    BY <2>3
  <2> QED BY <1>2, <2>1, <2>2, <2>3, EpollMoves
<1> QED BY <1>1, <1>2, IInvHolds, PTL DEF Spec, EpollIsPoller, EpollRegistry!Spec

\* WSPollPoller, with its parallel vectors, the index map and the removal that moves the
\* last element into the gap, is the same registry (src/src/wspoll_poller.cpp).
THEOREM WSPollRefines == Spec => WSPollIsPoller
<1> DEFINE h == Holder(ws)
           i == Interest(ws)
           a == ws.added
<1>1. Init => WSRegistry!Init
  BY DEF Init, EmptyWSPoll, WSRegistry!Init
<1>2. ASSUME IInv, IInv', [Next]_vars
      PROVE  [WSRegistry!Next]_<<events, h, i, a, wsLast>>
  <2>1. /\ h = epoll.map /\ i = epoll.set /\ a = epoll.added
        /\ h' = epoll'.map /\ i' = epoll'.set /\ a' = epoll'.added
    BY <1>2 DEF IInv, SameRegistry
  <2>2. CASE /\ Moves(epoll.map, epoll.set, epoll.added, epoll'.map, epoll'.set, epoll'.added)
             /\ wsLast' = {}
    <3>1. Moves(h, i, a, h', i', a') /\ wsLast' = {}
      BY ONLY <2>1, <2>2
    <3> QED BY <3>1 DEF Moves, Holder, Interest, WSRegistry!Next, WSRegistry!RemoveChannel,
                  WSRegistry!UpdateChannel, WSRegistry!Forget, WSRegistry!Interests, Wanted
  <2>3. CASE /\ Allowed(wsLast')
             /\ events' = events /\ epoll'.map = epoll.map /\ epoll'.set = epoll.set
             /\ epoll'.added = epoll.added
    <3>1. /\ \A x \in wsLast' : \E f \in Fds :
               /\ h[f] = x.channel /\ FdOf[x.channel] = f
               /\ x.revents # {} /\ x.revents \subseteq i[f] \cup {"err", "hup"}
          /\ \A x, y \in wsLast' : x.channel = y.channel => x = y
          /\ events' = events /\ h' = h /\ i' = i /\ a' = a
      BY ONLY <2>1, <2>3 DEF Allowed
    <3>2. WSRegistry!Poll
      BY ONLY <3>1 DEF Holder, Interest, WSRegistry!Poll, WSRegistry!Always
    <3> QED BY <3>2 DEF WSRegistry!Next
  <2>4. CASE UNCHANGED vars
    BY <2>4 DEF Holder, Interest
  <2> QED BY <1>2, <2>2, <2>3, <2>4, EpollMoves
<1> QED BY <1>1, <1>2, IInvHolds, PTL DEF Spec, WSPollIsPoller, WSRegistry!Spec, Holder, Interest
=============================================================================
