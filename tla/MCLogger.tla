------------------------------- MODULE MCLogger -------------------------------
(***************************************************************************)
(* A small instance of Logger for TLC.                                     *)
(***************************************************************************)
EXTENDS Logger, TLC

CONSTANTS t1, t2

MCThreads == {t1, t2}
MCZones == {"Beijing"}
MCLogLevels == {INFO, FATAL}
ThreadSymmetry == Permutations(Threads)
=============================================================================
