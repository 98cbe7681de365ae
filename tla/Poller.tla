------------------------------- MODULE Poller -------------------------------
(***************************************************************************)
(* What a TcFrame::Poller (src/include/poller.h) promises to the loop: a   *)
(* registry from fd numbers to the channel that registered first and the   *)
(* interest announced last, the m_added flags of the channels, and the     *)
(* channels a Poll reports.  EpollPoller and WSPollPoller implement it.    *)
(***************************************************************************)
CONSTANTS
  Fds,      \* fd numbers
  Channels, \* Channel objects
  FdOf,     \* m_fd of each channel; several channels may share a number
  None      \* no channel

VARIABLES
  events,   \* m_events of each channel
  holder,   \* the channel the poller knows under each fd
  interest, \* the events it watches there, {} where there is no holder
  added,    \* channels whose m_added is set
  active    \* active_channels and their m_revents after the latest Poll

Interests == SUBSET {"read", "write"}
Always    == {"err", "hup"}   \* reported whether asked for or not

Init ==
  /\ events = [c \in Channels |-> {}]
  /\ holder = [f \in Fds |-> None]
  /\ interest = [f \in Fds |-> {}]
  /\ added = {}
  /\ active = {}

Forget(c) ==
  /\ active' = {}
  /\ IF holder[FdOf[c]] = None
     THEN UNCHANGED <<holder, interest, added>>
     ELSE /\ holder' = [holder EXCEPT ![FdOf[c]] = None]
          /\ interest' = [interest EXCEPT ![FdOf[c]] = {}]
          /\ added' = added \ {c}

RemoveChannel(c) == Forget(c) /\ UNCHANGED events

\* The channel calls UpdateChannel with the interest ev.
UpdateChannel(c, ev) ==
  /\ events' = [events EXCEPT ![c] = ev]
  /\ \/ ev = {} /\ Forget(c)
     \/ /\ ev # {}
        /\ active' = {}
        /\ interest' = [interest EXCEPT ![FdOf[c]] = ev]
        /\ IF holder[FdOf[c]] = None
           THEN holder' = [holder EXCEPT ![FdOf[c]] = c] /\ added' = added \cup {c}
           ELSE UNCHANGED <<holder, added>>

\* Only holders are reported, each once, with events they asked for or that
\* are always reported.
Poll ==
  /\ \A a \in active' : \E f \in Fds :
       /\ holder[f] = a.channel /\ FdOf[a.channel] = f
       /\ a.revents # {} /\ a.revents \subseteq interest[f] \cup Always
  /\ \A a, b \in active' : a.channel = b.channel => a = b
  /\ UNCHANGED <<events, holder, interest, added>>

ClearActive == active' = {} /\ UNCHANGED <<events, holder, interest, added>>

Next ==
  \/ \E c \in Channels : RemoveChannel(c) \/ \E ev \in Interests : UpdateChannel(c, ev)
  \/ Poll \/ ClearActive

Spec == Init /\ [][Next]_<<events, holder, interest, added, active>>
=============================================================================
