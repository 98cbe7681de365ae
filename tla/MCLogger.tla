------------------------------ MODULE MCLogger ------------------------------
(* Instance of Logger for TLC.                                             *)
EXTENDS Logger

CONSTANTS t1, t2

MCThreads == {t1, t2}
MCLevels == {1, 2}
=============================================================================
