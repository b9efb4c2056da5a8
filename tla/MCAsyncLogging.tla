--------------------------- MODULE MCAsyncLogging ---------------------------
(***************************************************************************)
(* A small instance of AsyncLogging for TLC: buffers of three units and    *)
(* lines of one and three, so that a buffer holds two lines, one, or, when *)
(* a line as long as the buffer finds no room, none.                       *)
(***************************************************************************)
EXTENDS AsyncLogging

MCLineLengths == {1, 3}
=============================================================================
