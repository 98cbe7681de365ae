------------------------------ MODULE Pollers ------------------------------
(***************************************************************************)
(* The channels of one loop (src/src/channel.cpp) drive both pollers with  *)
(* the same calls.  A channel announces a changed interest by              *)
(* UpdateChannel, and its owner may call RemoveChannel while IsAdded()     *)
(* holds.  Two channels may have the same fd number: TcpClient hands a     *)
(* socket over from one channel to another in that way.                    *)
(***************************************************************************)
EXTENDS Integers, Sequences, FiniteSets

CONSTANTS
  Fds,      \* fd numbers
  Channels, \* Channel objects
  FdOf,     \* m_fd of each channel
  None,     \* no channel
  Room,     \* the initial size of m_events
  ReadySets \* bound: conditions that may hold on an fd when Poll looks

ASSUME PollersAssumption ==
  /\ FdOf \in [Channels -> Fds] /\ IsFiniteSet(Fds)
  /\ None \notin Channels
  /\ Room \in Nat \ {0}
  /\ ReadySets \subseteq SUBSET {"read", "write", "err", "hup"}

INSTANCE EpollPoller
INSTANCE WSPollPoller

VARIABLES
  events,    \* m_events of each channel
  epoll,     \* the EpollPoller
  ws,        \* the WSPollPoller
  epollLast, \* active_channels after the latest Poll of each of them
  wsLast

vars == <<events, epoll, ws, epollLast, wsLast>>

Init ==
  /\ events = [c \in Channels |-> {}]
  /\ epoll = EmptyEpoll /\ ws = EmptyWSPoll
  /\ epollLast = {} /\ wsLast = {}

\* EventLoop::UpdateChannel.
UpdateChannel(c, ev) ==
  /\ events' = [events EXCEPT ![c] = ev]
  /\ epoll' = EpollUpdate(epoll, c, FdOf[c], ev)
  /\ ws' = WSPollUpdate(ws, c, FdOf[c], ev)
  /\ epollLast' = {} /\ wsLast' = {}

Enable(c, e)  == UpdateChannel(c, events[c] \cup {e})
Disable(c, e) == UpdateChannel(c, events[c] \ {e})
DisableAll(c) == UpdateChannel(c, {})

\* EventLoop::RemoveChannel, called where IsAdded() holds; the interest of the
\* channel stays as it was.
RemoveChannel(c) ==
  /\ c \in epoll.added
  /\ epoll' = EpollRemove(epoll, c, FdOf[c])
  /\ ws' = WSPollRemove(ws, c, FdOf[c])
  /\ epollLast' = {} /\ wsLast' = {}
  /\ UNCHANGED events

\* EventLoop::Loop has emptied active_channels before it polls.
Poll ==
  /\ epollLast = {} /\ wsLast = {}
  /\ \E ready \in [Fds -> ReadySets] : \E got \in EpollAnswers(epoll, ready) :
       /\ epollLast' = EpollActive(epoll, ready, got)
       /\ epoll' = EpollGrow(epoll, got)
       /\ wsLast' = WSPollActive(ws, ready)
  /\ UNCHANGED <<events, ws>>

\* active_channels.clear().
ClearActive ==
  /\ epollLast' = {} /\ wsLast' = {}
  /\ UNCHANGED <<events, epoll, ws>>

Next ==
  \/ \E c \in Channels :
       \/ \E e \in {"read", "write"} : Enable(c, e) \/ Disable(c, e)
       \/ DisableAll(c) \/ RemoveChannel(c)
  \/ Poll \/ ClearActive

Spec == Init /\ [][Next]_vars

-----------------------------------------------------------------------------
EpollRegistry ==
  INSTANCE Poller WITH holder <- epoll.map, interest <- epoll.set,
                       added <- epoll.added, active <- epollLast

\* EpollPoller keeps its map and the kernel's epoll set in step: together they
\* are the registry that Poller describes, and Poll reports what it allows.
EpollIsPoller == EpollRegistry!Spec

WSRegistry ==
  INSTANCE Poller WITH
    holder   <- [f \in Fds |-> IF ws.idx[f] = 0 THEN None ELSE ws.channels[ws.idx[f]]],
    interest <- [f \in Fds |-> IF ws.idx[f] = 0 THEN {} ELSE ws.pollfds[ws.idx[f]].events],
    added <- ws.added, active <- wsLast

\* WSPollPoller, with its parallel vectors and the removal by swapping, is the
\* same registry.
WSPollIsPoller == WSRegistry!Spec

\* One Poll of either poller reports the same channels with the same events,
\* unless the event array of EpollPoller was too small for all of them.
SameAnswers ==
  /\ epollLast \subseteq wsLast
  /\ Cardinality(wsLast) <= Room => epollLast = wsLast
=============================================================================
