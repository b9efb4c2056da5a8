----------------------------- MODULE MCTimeZone -----------------------------
(***************************************************************************)
(* TimeZone for TLC.  The calendar goes through one Gregorian cycle, 400   *)
(* years or 146097 days around 1970, in a zone east of UTC; its seconds    *)
(* are counted where they fit TLC's 32-bit integers, from December 1901 to *)
(* January 2038.  Zones that change have up to three transitions, at least *)
(* four hours apart, around midnight of 1970-01-01, each beginning the     *)
(* zone's standard or its summer time, and are read every quarter of an    *)
(* hour.                                                                   *)
(***************************************************************************)
EXTENDS TimeZone

MCFirstDay == -73048
MCLastDay == 73049
MCFirstUtc == -24854
MCLastUtc == 24853
MCClocks == {0, 1, 59, 60, 3599, 3600, 43200, 86399}

Hour == 3600
Standard(offset) == [gmtOffset |-> offset, isDst |-> FALSE]
Summer(offset) == [gmtOffset |-> offset + Hour, isDst |-> TRUE]

MCOffsets == {-Hour, 0, 2 * Hour}
MCInstants == {-6, -2, 0, 4, 5}

\* The sequences of n transitions at least four hours apart.
MCTransitions(n) ==
  {s \in [1 .. n -> [at : {k * Hour : k \in MCInstants}, localtimeIdx : 1 .. 2]] :
     \A i, j \in 1 .. n : i < j => s[i].at + 4 * Hour <= s[j].at}

MCZones ==
  {[localtimes |-> <<Standard(8 * Hour)>>, trans |-> <<>>]}
  \union
  {[localtimes |-> l, trans |-> s] :
     l \in UNION {{<<Standard(o), Summer(o)>>, <<Summer(o), Standard(o)>>} : o \in MCOffsets},
     s \in UNION {MCTransitions(n) : n \in 1 .. 3}}

MCFirstZoneDay == -1
MCZoneClocks == {900 * quarter : quarter \in 0 .. 95}
=============================================================================
