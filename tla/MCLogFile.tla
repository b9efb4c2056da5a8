------------------------------ MODULE MCLogFile ------------------------------
(***************************************************************************)
(* A small instance of LogFile for TLC: a day of four seconds, a file of   *)
(* three bytes, lines of one, so that a file may be just full, a check     *)
(* every second line.                                                      *)
(***************************************************************************)
EXTENDS LogFile

MCLengths == {1}
=============================================================================
