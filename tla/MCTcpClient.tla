---------------------------- MODULE MCTcpClient ----------------------------
(* Instances of TcpClient for TLC.                                         *)
EXTENDS TcpClient

MCFds == {1, 2}
=============================================================================
