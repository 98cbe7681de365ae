---------------------------- MODULE WSPollPoller ----------------------------
(***************************************************************************)
(* TcFrame::WSPollPoller (src/src/wspoll_poller.cpp) as operators on a     *)
(* record p: pollfds is m_pollfds, channels is m_channels, idx is          *)
(* m_fd_to_idx (0 where there is no entry; indices start at 1 here) and    *)
(* added the channels whose m_added is set.  A removal moves the last      *)
(* element into the gap, so that three structures have to be kept in step. *)
(***************************************************************************)
EXTENDS Integers, Sequences

CONSTANT Fds

EmptyWSPoll == [pollfds |-> <<>>, channels |-> <<>>, idx |-> [f \in Fds |-> 0], added |-> {}]

\* std::swap of the elements i and j.
Swap(s, i, j) == [s EXCEPT ![i] = s[j], ![j] = s[i]]

\* pop_back()
PopBack(s) == SubSeq(s, 1, Len(s) - 1)

\* Mutant: the two vectors are not moved together.
WSPollRemoveOneVector(p, c, f) ==
  IF p.idx[f] = 0
  THEN p
  ELSE LET last == Len(p.pollfds) IN
       [pollfds |-> PopBack(Swap(p.pollfds, p.idx[f], last)),
        channels |-> PopBack(p.channels),
        idx |-> [p.idx EXCEPT ![p.pollfds[last].fd] = p.idx[f], ![f] = 0],
        added |-> p.added \ {c}]

WSPollRemove(p, c, f) ==
  IF p.idx[f] = 0
  THEN p
  ELSE LET last == Len(p.pollfds) IN
       [pollfds |-> PopBack(Swap(p.pollfds, p.idx[f], last)),
        channels |-> PopBack(Swap(p.channels, p.idx[f], last)),
        idx |-> [p.idx EXCEPT ![p.pollfds[last].fd] = p.idx[f], ![f] = 0],
        added |-> p.added \ {c}]

WSPollUpdate(p, c, f, ev) ==
  IF ev = {}
  THEN WSPollRemove(p, c, f)
  ELSE IF p.idx[f] # 0
       THEN [p EXCEPT !.pollfds = [p.pollfds EXCEPT ![p.idx[f]] = [fd |-> f, events |-> ev]]]
       ELSE [pollfds |-> Append(p.pollfds, [fd |-> f, events |-> ev]),
             channels |-> Append(p.channels, c),
             idx |-> [p.idx EXCEPT ![f] = Len(p.pollfds) + 1],
             added |-> p.added \cup {c}]

\* The revents WSAPoll stores in element i when the conditions ready hold.
WSPollEvents(p, i, ready) ==
  ready[p.pollfds[i].fd] \cap (p.pollfds[i].events \cup {"err", "hup"})

\* Poll pairs the elements of m_pollfds with those of m_channels by position.
WSPollActive(p, ready) ==
  {[channel |-> p.channels[i], revents |-> WSPollEvents(p, i, ready)] :
     i \in {j \in 1..Len(p.pollfds) : WSPollEvents(p, j, ready) # {}}}
=============================================================================
