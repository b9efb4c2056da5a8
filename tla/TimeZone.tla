------------------------------ MODULE TimeZone ------------------------------
(***************************************************************************)
(* Local time: TimeZone::toLocalTime(), fromLocalTime() and findLocaltime() *)
(* of log/TimeZone.cc.                                                     *)
(*                                                                         *)
(* A zone is what readTimeZoneFile() makes of a file: the kinds of local   *)
(* time and the transitions between them, in the order of their gmttime.   *)
(* gmtime_r() and timegm() are taken to do what toUtcTime() and            *)
(* fromUtcTime() of Date do.  The calendar of Date is walked in a zone: in *)
(* one that never changes from end to end, in the others near their        *)
(* transitions.                                                            *)
(***************************************************************************)
EXTENDS Date, Sequences, FiniteSetsExt

CONSTANTS
  Zones,          \* the tables that are tried
  FirstZoneDay, LastZoneDay,    \* bound: the days walked to in zones that change
  ZoneClocks      \* the times of day that are converted in those, in seconds

Localtime == [gmtOffset : Int, isDst : BOOLEAN]

\* A file as readTimeZoneFile() reads it: times of transitions, and the kind of
\* local time, counted from 1, that each of them begins.  Nowhere on Earth the clock
\* is as much as a day away from UTC.
IsZone(z) ==
  /\ z.localtimes \in Seq(Localtime) /\ Len(z.localtimes) > 0
  /\ \A k \in DOMAIN z.localtimes :
       -86400 < z.localtimes[k].gmtOffset /\ z.localtimes[k].gmtOffset < 86400
  /\ z.trans \in Seq([at : Int, localtimeIdx : DOMAIN z.localtimes])
  /\ \A i, j \in DOMAIN z.trans : i < j => z.trans[i].at < z.trans[j].at

ASSUME ZonesAssumption == \A z \in Zones : IsZone(z)

ASSUME ZoneClocksAssumption == \A clock \in ZoneClocks : clock \in Nat /\ clock < 86400

VARIABLE zone

-----------------------------------------------------------------------------
(***************************************************************************)
(* The code.                                                               *)
(***************************************************************************)
\* readTimeZoneFile(): the local time of a transition is that of the new kind.
Transitions(z) ==
  [i \in DOMAIN z.trans |->
     [gmttime |-> z.trans[i].at,
      localtime |-> z.trans[i].at + z.localtimes[z.trans[i].localtimeIdx].gmtOffset,
      localtimeIdx |-> z.trans[i].localtimeIdx]]

\* std::lower_bound(): a binary search for the first of these times that is not
\* before the sentry; the place after the last one if there is none.
lower_bound(times, sentry) ==
  LET search[count \in 0 .. Len(times)] ==
        [first \in Nat |->
           IF count = 0 THEN first
           ELSE LET half == count \div 2 IN
                IF times[first + half] < sentry
                THEN search[count - half - 1][first + half + 1]
                ELSE search[half][first]]
  IN search[Len(times)][1]

SearchWithoutStepBack(z, by, sentry) ==    \* fault: --transI is missing
  LET transitions == Transitions(z)
      n == Len(transitions)
      transI == lower_bound([i \in 1 .. n |-> transitions[i][by]], sentry)
  IN IF n = 0 \/ sentry < transitions[1][by] THEN z.localtimes[1]
     ELSE z.localtimes[transitions[Min({transI, n})].localtimeIdx]

\* The search compares transitions by their "gmttime" or by their "localtime": Comp.
findLocaltime(z, by, sentry) ==
  LET transitions == Transitions(z)
      n == Len(transitions)
      transI == lower_bound([i \in 1 .. n |-> transitions[i][by]], sentry)
      found == IF transI <= n /\ transitions[transI][by] = sentry THEN transI ELSE transI - 1
  IN IF n = 0 \/ sentry < transitions[1][by] THEN z.localtimes[1]
     ELSE z.localtimes[transitions[found].localtimeIdx]

toLocalTime(z, s) ==
  LET local == findLocaltime(z, "gmttime", s)
  IN [utc |-> toUtcTime(s + local.gmtOffset), isDst |-> local.isDst, gmtoff |-> local.gmtOffset]

SecondsOf(tm) == fromUtcTime(tm.utc.ymd, tm.utc.hms)

WithoutSecondTry(z, tm) ==    \* fault: the hour that comes twice is not looked at
  SecondsOf(tm) - findLocaltime(z, "localtime", SecondsOf(tm)).gmtOffset

fromLocalTime(z, tm) ==
  LET local == findLocaltime(z, "localtime", SecondsOf(tm))
      tryTm == toLocalTime(z, SecondsOf(tm) - local.gmtOffset)
      again == /\ tm.isDst /\ ~tryTm.isDst
               /\ tryTm.utc.hms.hour = tm.utc.hms.hour /\ tryTm.utc.hms.min = tm.utc.hms.min
  IN SecondsOf(tm) - local.gmtOffset - (IF again THEN 3600 ELSE 0)

-----------------------------------------------------------------------------
ZoneInit == Init /\ zone \in Zones

\* A leaf is turned, forward or backward; nothing happens to the zone.
Turn ==
  /\ Forward \/ Backward
  /\ zone.trans = <<>> \/ days' \in FirstZoneDay .. LastZoneDay
  /\ UNCHANGED zone

\* The calendar has no more leaves for this zone.
ZoneTerminated ==
  /\ days \in IF zone.trans = <<>> THEN {FirstDay, LastDay} ELSE {FirstZoneDay, LastZoneDay}
  /\ UNCHANGED <<vars, zone>>

ZoneNext == Turn \/ ZoneTerminated

ZoneSpec == ZoneInit /\ [][ZoneNext]_<<vars, zone>>

-----------------------------------------------------------------------------
(***************************************************************************)
(* Safety.                                                                 *)
(***************************************************************************)
\* The seconds of this day that are converted.
Instants ==
  IF days \notin FirstUtc .. LastUtc THEN {}
  ELSE {days * kSecondsPerDay + clock : clock \in IF zone.trans = <<>> THEN Clocks ELSE ZoneClocks}

\* The kind of local time in force: what the last transition up to this second began.
InForce(s) ==
  LET past == {i \in DOMAIN zone.trans : zone.trans[i].at <= s}
  IN IF past = {} THEN zone.localtimes[1] ELSE zone.localtimes[zone.trans[Max(past)].localtimeIdx]

\* toLocalTime() uses the local time in force, at the very second of a transition,
\* before the first and after the last one too, and its date is the leaf of the
\* calendar or the next or last one, as the clock and the offset have it.
LocalTimeIsInForce ==
  \A s \in Instants :
    LET tm == toLocalTime(zone, s)
        clock == s - days * kSecondsPerDay + tm.gmtoff
    IN /\ tm.gmtoff = InForce(s).gmtOffset /\ tm.isDst = InForce(s).isDst
       /\ tm.utc.ymd = IF clock < 0 THEN DayBefore(date)
                       ELSE IF clock >= kSecondsPerDay THEN DayAfter(date) ELSE date
       /\ tm.utc.hms = HourMinuteSecond(clock % kSecondsPerDay)

\* fromLocalTime() undoes toLocalTime(), in the hour that comes twice when summer time
\* ends as well, by tm_isdst.
LocalTimesComeBack == \A s \in Instants : fromLocalTime(zone, toLocalTime(zone, s)) = s
=============================================================================
