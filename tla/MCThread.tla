------------------------------- MODULE MCThread -------------------------------
(***************************************************************************)
(* Small instances of Thread for TLC.                                      *)
(***************************************************************************)
EXTENDS Thread

CONSTANTS t1, t2

MCThreads == {t1, t2}
MCCallers == Threads \union {Owner}
MCLatches == Threads \union {ready, begin}
MCUnlucky == {t2}
=============================================================================
