---------------------------- MODULE MCTcpServer ----------------------------
(* Instances of TcpServer for TLC.                                         *)
EXTENDS TcpServer

MCFds == {1, 2}
=============================================================================
