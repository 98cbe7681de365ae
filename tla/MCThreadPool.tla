---------------------------- MODULE MCThreadPool ----------------------------
(* Instances of ThreadPool for TLC.                                        *)
EXTENDS ThreadPool

CONSTANTS w1, w2, w3, c1, c2

MCWorkers == {w1, w2, w3}
MCClients == {c1, c2}
MCSizes == {1, 2, 3}
=============================================================================
