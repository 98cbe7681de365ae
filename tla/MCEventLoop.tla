---------------------------- MODULE MCEventLoop ----------------------------
(* Instances of EventLoop for TLC.                                         *)
EXTENDS EventLoop

CONSTANTS creator, looper

MCCallers == {creator}
MCDelays  == {0, 2}
\* RunAfter timers are due at once, RunEvery timers after 1 ms.
MCNoDelay == {0}
=============================================================================
