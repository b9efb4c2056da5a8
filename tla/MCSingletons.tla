----------------------------- MODULE MCSingletons -----------------------------
(***************************************************************************)
(* Small instances of Singletons for TLC: two threads and three locals, a  *)
(* ThreadLocalSingleton between two ThreadLocals.                          *)
(***************************************************************************)
EXTENDS Singletons

CONSTANTS t1, t2, a, b, c

MCThreads == {t1, t2}
MCKeys == <<a, b, c>>
MCSingles == {2}

\* Nobody asks; the last for the first two; a chain against the order of the keys;
\* one for its own kind; a circle.
MCAsks ==
  {{}, {<<3, 1>>, <<3, 2>>}, {<<3, 2>>, <<2, 1>>}, {<<1, 3>>, <<2, 2>>}, {<<1, 2>>, <<2, 1>>}}
=============================================================================
