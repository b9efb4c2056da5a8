------------------------------- MODULE LogText -------------------------------
(***************************************************************************)
(* A text that goes through a stdio buffer: its lines, known by their      *)
(* numbers, of which an error may have left only the beginning.            *)
(***************************************************************************)
EXTENDS Naturals, Sequences

Whole(n) == [line |-> n, whole |-> TRUE]

Torn(piece) == [piece EXCEPT !.whole = FALSE]

\* What can be left of a text, the first n lines of which have left the buffer, when
\* writing out the rest fails: stdio drops what it could not write, which may begin
\* inside a line.
Cuts(text, n) ==
  UNION {{SubSeq(text, 1, k), Append(SubSeq(text, 1, k), Torn(text[k + 1]))} :
           k \in n .. Len(text) - 1}
=============================================================================
