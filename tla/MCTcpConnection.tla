-------------------------- MODULE MCTcpConnection --------------------------
(* Instances of TcpConnection for TLC.                                     *)
EXTENDS TcpConnection, TLC

CONSTANTS t1, t2

MCTwo == {t1, t2}
MCSymmetry == Permutations({t1, t2})
MCLens == {0, 1, 2}
MCDataLens == {1, 2}
=============================================================================
