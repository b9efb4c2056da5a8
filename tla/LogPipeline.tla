----------------------------- MODULE LogPipeline -----------------------------
(***************************************************************************)
(* What the asynchronous logger promises, without its buffers: lines are   *)
(* accepted in some order; a single writer passes them on to the file,     *)
(* oldest first, any number at a time; it may drop a stretch of the lines  *)
(* it has not written if it leaves a notice in the file; and it may close  *)
(* the file for good at any time, with lines still pending.                *)
(*                                                                         *)
(* The file thus holds every accepted line up to some point, in order and  *)
(* once each, except for gaps that are announced.                          *)
(***************************************************************************)
EXTENDS Integers, Sequences, FiniteSets, Functions

CONSTANTS
  Lengths,    \* the lengths of lines
  Longest,    \* the longest line the logger has room for
  MaxLines    \* bound: number of lines

VARIABLES
  log,        \* the length of every line so far; a line is its position here
  file,       \* the lines in the file, 0 for a notice
  dropped,    \* the lines given up
  closed      \* no more is written

vars == <<log, file, dropped, closed>>

Init == log = <<>> /\ file = <<>> /\ dropped = {} /\ closed = FALSE

Pending == {n \in DOMAIN log : log[n] <= Longest} \ (Range(file) \union dropped)

\* The elements of a finite set of numbers, in increasing order.
InIncreasingOrder(S) ==
  [i \in 1 .. Cardinality(S) |->
     CHOOSE n \in S : Cardinality({m \in S : m < n}) = i - 1]

Accept(len) ==
  /\ Len(log) < MaxLines
  /\ log' = Append(log, len)
  /\ UNCHANGED <<file, dropped, closed>>

WriteUpTo(n) ==
  /\ ~closed
  /\ file' = file \o InIncreasingOrder({m \in Pending : m <= n})
  /\ UNCHANGED <<log, dropped, closed>>

Drop(first, last) ==
  /\ ~closed
  /\ file' = Append(file, 0)
  /\ dropped' = dropped \union {m \in Pending : first <= m /\ m <= last}
  /\ UNCHANGED <<log, closed>>

Close ==
  /\ closed' = TRUE
  /\ UNCHANGED <<log, file, dropped>>

Next ==
  \/ \E len \in Lengths : Accept(len)
  \/ \E n \in DOMAIN log : WriteUpTo(n)
  \/ \E first, last \in 1 .. Len(log) + 1 : Drop(first, last)
  \/ Close

Spec == Init /\ [][Next]_vars
=============================================================================
