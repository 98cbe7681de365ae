------------------------------ MODULE MCBuffer ------------------------------
(* Instances of Buffer for TLC.                                            *)
EXTENDS Buffer

MCByte == {0, 1}
=============================================================================
