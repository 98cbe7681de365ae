---------------------------- MODULE EpollPoller ----------------------------
(***************************************************************************)
(* TcFrame::EpollPoller (src/src/epoll_poller.cpp) as operators on a       *)
(* record p: map is m_fd_to_channel, set the epoll set in the kernel (the  *)
(* events registered for each fd, {} if none), added the channels whose    *)
(* m_added is set, and room the size of m_events.                          *)
(*                                                                         *)
(* epoll_ctl fails where the kernel says so, and a failure is only logged; *)
(* m_fd_to_channel and the epoll set are two pieces of state that have to  *)
(* agree, and EpollClosed shows how they stop to.                          *)
(***************************************************************************)
EXTENDS Integers, FiniteSets

CONSTANTS Fds, Channels, None,
          Room   \* the initial size of m_events, 128 in the code

EmptyEpoll ==
  [map |-> [f \in Fds |-> None], set |-> [f \in Fds |-> {}], added |-> {}, room |-> Room]

\* epoll_ctl: ADD fails on a registered fd, MOD and DEL on an unregistered one.
EpollCtl(op, p, f, ev) ==
  LET registered == p.set[f] # {}
      ok == IF op = "ADD" THEN ~registered ELSE registered
      now == IF ~ok THEN p.set[f] ELSE IF op = "DEL" THEN {} ELSE ev
  IN  [p EXCEPT !.set = [p.set EXCEPT ![f] = now]]

\* m_fd_to_channel[f] = c, and SetAdded(true).
EpollKnow(p, c, f) == [p EXCEPT !.map = [p.map EXCEPT ![f] = c], !.added = p.added \cup {c}]

\* Mutant: the fd is erased from the map and stays in the epoll set.
EpollRemoveKeepsFd(p, c, f) ==
  IF p.map[f] = None
  THEN p
  ELSE [p EXCEPT !.map = [p.map EXCEPT ![f] = None], !.added = p.added \ {c}]

EpollRemove(p, c, f) ==
  IF p.map[f] = None
  THEN p
  ELSE LET q == EpollCtl("DEL", p, f, {}) IN
       [q EXCEPT !.map = [q.map EXCEPT ![f] = None], !.added = q.added \ {c}]

\* Mutant: a channel that is known is registered with the interest it had.
EpollUpdateStale(p, c, f, ev) ==
  IF ev = {}
  THEN EpollRemove(p, c, f)
  ELSE IF p.map[f] # None
       THEN p
       ELSE EpollKnow(EpollCtl("ADD", p, f, ev), c, f)

\* A known fd keeps the channel that registered it and only changes its events.
EpollUpdate(p, c, f, ev) ==
  IF ev = {}
  THEN EpollRemove(p, c, f)
  ELSE IF p.map[f] # None
       THEN EpollCtl("MOD", p, f, ev)
       ELSE EpollKnow(EpollCtl("ADD", p, f, ev), c, f)

\* The kernel drops a closed fd from the epoll set; the map stays as it is.
EpollClosed(p, f) == [p EXCEPT !.set = [p.set EXCEPT ![f] = {}]]

\* What epoll_wait has to report of f when the conditions "on" hold there.
EpollEvents(p, f, on) ==
  IF p.set[f] = {} THEN {} ELSE on \cap (p.set[f] \cup {"err", "hup"})

\* epoll_wait fills at most room entries; Poll skips fds missing in the map
\* and doubles m_events when it was filled.  "got" are the fds reported.
EpollAnswers(p, ready) ==
  LET reported == {f \in Fds : EpollEvents(p, f, ready[f]) # {}}
      most == IF Cardinality(reported) < p.room THEN Cardinality(reported) ELSE p.room
  IN  {got \in SUBSET reported : Cardinality(got) = most}

EpollActive(p, ready, got) ==
  {[channel |-> p.map[f], revents |-> EpollEvents(p, f, ready[f])] :
     f \in {g \in got : p.map[g] # None}}

EpollGrow(p, got) ==
  IF got # {} /\ Cardinality(got) = p.room THEN [p EXCEPT !.room = 2 * p.room] ELSE p
=============================================================================
