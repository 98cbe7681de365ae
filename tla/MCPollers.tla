----------------------------- MODULE MCPollers -----------------------------
(* Instance of Pollers for TLC.                                            *)
EXTENDS Pollers, TLC

CONSTANTS f1, f2, f3, c1, c2, c3, c4

MCFds == {f1, f2, f3}
MCChannels == {c1, c2, c3, c4}
MCFdOf == (c1 :> f1) @@ (c2 :> f1) @@ (c3 :> f2) @@ (c4 :> f3)
MCReadySets == {{}, {"read", "write", "hup"}}
=============================================================================
