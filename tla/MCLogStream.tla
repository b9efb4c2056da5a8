----------------------------- MODULE MCLogStream -----------------------------
(***************************************************************************)
(* A LogStream of eight characters for TLC, where a number wants room for  *)
(* five: texts of up to three characters, two of them longer than their    *)
(* len, a char that is NUL, a text with a NUL inside, and integers of 8    *)
(* bits.                                                                   *)
(***************************************************************************)
EXTENDS LogStream

Text(chars) == [chars |-> chars, len |-> Len(chars)]

MCSources ==
  {Text(<<>>), Text(<<"a">>), Text(<<"a", "b", "c">>),
   [chars |-> <<"d", "?">>, len |-> 1], [chars |-> <<"a", "b", "?">>, len |-> 2],
   [chars |-> <<>>, len |-> 1], [chars |-> <<"e">>, len |-> 3]}
MCValues == {-128, -100, -9, 0, 10, 127}
MCAddresses == {0, 175}
=============================================================================
