----------------------------- MODULE Logger_proofs -----------------------------
(***************************************************************************)
(* Proofs about Logger, for any number of threads, zones and lines and for *)
(* a clock of any range.                                                   *)
(*                                                                         *)
(* That a stamp is right follows from what the cache of its thread may     *)
(* hold: the text of a second in a zone that is the one set or was so in   *)
(* that second or later (CacheInv).  It stays so when another zone is set, *)
(* for as long as the clock only goes forward that is done no earlier than *)
(* in the second that was cached (ClockInv), and when the line is stamped  *)
(* long after its time was taken.  That a FATAL line is out follows from   *)
(* where the line is at each step of its destructor (FatalInv).            *)
(***************************************************************************)
EXTENDS Logger, TLAPS

-----------------------------------------------------------------------------
(***************************************************************************)
(* Sequences.                                                              *)
(***************************************************************************)
\* The elements of a sequence with one more at its end, and of one sequence after
\* another.
LEMMA ToSetAppend ==
  ASSUME NEW S, NEW s \in Seq(S), NEW x \in S
  PROVE  ToSet(Append(s, x)) = ToSet(s) \union {x}
<1> DEFINE t == Append(s, x)
<1>1. /\ DOMAIN t = 1 .. Len(s) + 1 /\ t[Len(s) + 1] = x /\ Len(s) \in Nat
      /\ DOMAIN s = 1 .. Len(s) /\ \A i \in 1 .. Len(s) : t[i] = s[i]
  OBVIOUS
<1> HIDE DEF t
<1>2. ToSet(t) = ToSet(s) \union {x}
  BY <1>1 DEF ToSet
<1> QED
  BY <1>2 DEF t

LEMMA ToSetConcat ==
  ASSUME NEW S, NEW s \in Seq(S), NEW t \in Seq(S)
  PROVE  ToSet(s \o t) = ToSet(s) \union ToSet(t)
<1> DEFINE u == s \o t
           m == Len(s)
           k == Len(t)
<1>1. /\ m \in Nat /\ k \in Nat /\ DOMAIN s = 1 .. m /\ DOMAIN t = 1 .. k
      /\ \A i \in 1 .. m : i \in 1 .. m + k /\ u[i] = s[i]
      /\ \A i \in 1 .. k : m + i \in 1 .. m + k /\ u[m + i] = t[i]
  <2>1. m \in Nat /\ k \in Nat /\ DOMAIN s = 1 .. m /\ DOMAIN t = 1 .. k
    OBVIOUS
  <2>2. ASSUME NEW i \in 1 .. m PROVE i \in 1 .. m + k /\ u[i] = s[i]
    OBVIOUS
  <2>3. ASSUME NEW i \in 1 .. k PROVE m + i \in 1 .. m + k /\ u[m + i] = t[i]
    OBVIOUS
  <2> QED
    BY <2>1, <2>2, <2>3
<1>2. DOMAIN u = 1 .. m + k
  <2>1. u \in Seq(S) /\ Len(u) = m + k
    OBVIOUS
  <2>2. DOMAIN u = 1 .. Len(u)
    BY <2>1
  <2> QED
    BY <2>1, <2>2
<1> HIDE DEF u, m, k
<1>3. ASSUME NEW i \in 1 .. m + k
      PROVE  (i \in 1 .. m /\ u[i] = s[i]) \/ (i - m \in 1 .. k /\ u[i] = t[i - m])
  <2>1. i \in 1 .. m \/ (i - m \in 1 .. k /\ m + (i - m) = i)
    BY <1>1
  <2> QED
    BY <1>1, <2>1
<1>4. ASSUME NEW x \in ToSet(u) PROVE x \in ToSet(s) \union ToSet(t)
  BY <1>1, <1>2, <1>3 DEF ToSet
<1>5. ASSUME NEW x \in ToSet(s) PROVE x \in ToSet(u)
  BY <1>1, <1>2 DEF ToSet
<1>6. ASSUME NEW x \in ToSet(t) PROVE x \in ToSet(u)
  <2>1. PICK i \in 1 .. k : x = t[i]
    BY <1>1 DEF ToSet
  <2>2. m + i \in 1 .. m + k /\ u[m + i] = x
    BY <1>1, <2>1
  <2> QED
    BY <1>2, <2>2 DEF ToSet
<1> QED
  BY <1>4, <1>5, <1>6 DEF u

-----------------------------------------------------------------------------
ZonesSet == Zones \union {NoZone}

Times == 0 .. MaxTime

Setting == [zone : ZonesSet, at : Times]

Cache == [lastSecond : Times, second : Times, zone : ZonesSet]

LogLine == [id : Nat, level : TRACE .. FATAL, time : Times, second : Times, zone : ZonesSet,
            zonesThen : Nat, suffix : {"Z", ""}]

Places == {"idle", "formatting", "stamped", "streaming", "flushing", "aborting"}

Types ==
  /\ now \in 1 .. MaxTime /\ setBack \in BOOLEAN
  /\ zones \in Seq(Setting) /\ Len(zones) >= 1
  /\ g_logTimeZone \in ZonesSet /\ g_logTimeZone = zones[Len(zones)].zone
  /\ lines \in Nat
  /\ cache \in [Threads -> Cache]
  /\ pc \in [Threads -> Places]
  /\ line \in [Threads -> LogLine]
  /\ \A t \in Threads : pc[t] = "formatting" => line[t].time # 0
  /\ stdio \in Seq(LogLine) /\ out \in Seq(LogLine) /\ async \in Seq(LogLine)

\* As long as the clock has not been set back, nothing is later than now.
ClockInv ==
  ~setBack => \A t \in Threads : cache[t].lastSecond <= now /\ line[t].time <= now

\* Of the first n zones that were set, zone was not replaced before this second.
NotReplaced(zone, second, set, n) ==
  \E k \in 1 .. n :
    /\ set[k].zone = zone
    /\ k < n => set[k + 1].at >= second

\* What t_time shows: t_lastSecond, in a zone not replaced before it.
CacheIsRight(c, set, back) ==
  c.lastSecond # 0 =>
    /\ c.second = c.lastSecond
    /\ back \/ NotReplaced(c.zone, c.lastSecond, set, Len(set))

CacheInv == \A t \in Threads : CacheIsRight(cache[t], zones, setBack)

\* StampsAreRight, of one line.
StampIsRight(l, set, back) ==
  /\ l.zonesThen <= Len(set)
  /\ l.second = l.time
  /\ back \/ NotReplaced(l.zone, l.time, set, l.zonesThen)

Given == ToSet(out) \union ToSet(stdio) \union ToSet(async)

StampInv ==
  /\ \A t \in Threads :
       pc[t] \in {"stamped", "streaming"} => StampIsRight(line[t], zones, setBack)
  /\ \A l \in Given : StampIsRight(l, zones, setBack)

FatalInv ==
  \A t \in Threads :
    /\ pc[t] = "flushing" => line[t] \in Given
    /\ pc[t] = "aborting" /\ g_flush = "stdout" => line[t] \in ToSet(out) \union ToSet(async)

IInv == Types /\ ClockInv /\ CacheInv /\ StampInv /\ FatalInv

LEMMA NoLineIsLine == NoLine \in LogLine /\ NoLine.time = 0
<1>1. TRACE \in TRACE .. FATAL /\ 0 \in Times
  BY LoggerAssumption DEF TRACE, FATAL, Times
<1>2. NoZone \in ZonesSet /\ 0 \in Nat /\ "" \in {"Z", ""}
  BY DEF ZonesSet
<1> HIDE DEF TRACE, FATAL, NoZone
<1> QED
  BY <1>1, <1>2 DEF NoLine, LogLine

LEMMA InitInv == Init => IInv
<1> SUFFICES ASSUME Init PROVE IInv
  OBVIOUS
<1> DEFINE first == [zone |-> NoZone, at |-> 0]
<1>1. 0 \in Times /\ NoZone \in ZonesSet /\ now \in Nat
  BY LoggerAssumption DEF Init, Times, ZonesSet
<1>2. ToSet(<<>>) = {} /\ <<>> \in Seq(LogLine)
  BY DEF ToSet
<1>3. first \in Setting /\ first.zone = NoZone
  BY <1>1 DEF Setting
<1>4. zones = <<first>>
  BY DEF Init
<1> HIDE DEF first
<1>5. zones \in Seq(Setting) /\ Len(zones) = 1 /\ zones[Len(zones)] = first
  BY <1>3, <1>4
<1>6. Types
  <2>1. cache \in [Threads -> Cache] /\ pc \in [Threads -> Places]
    BY <1>1 DEF Init, Cache, Places
  <2>2. line \in [Threads -> LogLine] /\ \A t \in Threads : pc[t] # "formatting"
    BY NoLineIsLine DEF Init
  <2>3. /\ zones \in Seq(Setting) /\ Len(zones) >= 1
        /\ g_logTimeZone \in ZonesSet /\ g_logTimeZone = zones[Len(zones)].zone
    BY <1>1, <1>3, <1>5 DEF Init
  <2> QED
    BY <1>1, <1>2, <2>1, <2>2, <2>3 DEF Init, Types
<1>7. ClockInv /\ CacheInv
  BY <1>1, NoLineIsLine DEF Init, ClockInv, CacheInv, CacheIsRight
<1>8. StampInv /\ FatalInv
  BY <1>2 DEF Init, StampInv, FatalInv, Given
<1> QED
  BY <1>6, <1>7, <1>8 DEF IInv

\* The three places where a line may be after it was output.
LEMMA WrittenIs == Types => Written = Given
<1> SUFFICES ASSUME Types PROVE Written = Given
  OBVIOUS
<1>1. /\ out \in Seq(LogLine) /\ stdio \in Seq(LogLine) /\ async \in Seq(LogLine)
      /\ out \o stdio \in Seq(LogLine)
  BY DEF Types
<1>2. ToSet(out \o stdio) = ToSet(out) \union ToSet(stdio)
  BY <1>1, ToSetConcat
<1>3. ToSet((out \o stdio) \o async) = ToSet(out \o stdio) \union ToSet(async)
  BY <1>1, ToSetConcat, ZenonT(30)
<1> QED
  BY <1>2, <1>3 DEF Written, Given

LEMMA TickInv == ASSUME IInv, Tick PROVE IInv'
<1>1. /\ now \in Nat /\ now' \in 1 .. MaxTime /\ now' \in Nat
      /\ setBack' = (setBack \/ now' < now)
      /\ UNCHANGED <<globals, cache, pc, line, stdio, out, async, lines, aborted>>
  BY LoggerAssumption DEF IInv, Types, Tick
<1>2. /\ UNCHANGED <<g_logTimeZone, g_flush, zones>>
      /\ setBack \in BOOLEAN /\ setBack' \in BOOLEAN /\ (setBack => setBack')
      /\ (~ setBack' => ~ setBack /\ ~ (now' < now))
  BY <1>1 DEF IInv, Types, globals
<1>3. Types'
  BY <1>1, <1>2 DEF IInv, Types
<1>4. ClockInv'
  <2> DEFINE later == now'
  <2> SUFFICES ASSUME ~ setBack', NEW t \in Threads
               PROVE  cache[t].lastSecond <= later /\ line[t].time <= later
    BY <1>1, <1>2 DEF ClockInv
  <2>1. cache[t].lastSecond <= now /\ line[t].time <= now
    BY <1>2 DEF IInv, ClockInv
  <2>2. cache[t].lastSecond \in Nat /\ line[t].time \in Nat
    <3>1. cache[t] \in Cache /\ line[t] \in LogLine
      BY DEF IInv, Types
    <3>2. cache[t].lastSecond \in Times /\ line[t].time \in Times
      BY <3>1 DEF Cache, LogLine
    <3> QED
      BY <3>2, LoggerAssumption DEF Times
  <2>3. later \in Nat /\ now \in Nat /\ ~ (later < now)
    BY <1>1, <1>2
  <2> HIDE DEF later
  <2> QED
    BY <2>1, <2>2, <2>3
<1>5. CacheInv'
  BY <1>1, <1>2 DEF IInv, CacheInv, CacheIsRight
<1>6. StampInv'
  BY <1>1, <1>2 DEF IInv, StampInv, StampIsRight, Given
<1>7. FatalInv'
  BY <1>1, <1>2 DEF IInv, FatalInv, Given
<1> QED
  BY <1>3, <1>4, <1>5, <1>6, <1>7 DEF IInv

\* Setting one more zone leaves the earlier ones, and replaces only the last.
LEMMA NotReplacedByThis ==
  ASSUME NEW set \in Seq(Setting), NEW e \in Setting, NEW n \in 0 .. Len(set),
         NEW zone, NEW second \in Nat, NotReplaced(zone, second, set, n)
  PROVE  /\ NotReplaced(zone, second, Append(set, e), n)
         /\ n = Len(set) /\ e.at >= second =>
              NotReplaced(zone, second, Append(set, e), Len(Append(set, e)))
<1> DEFINE more == Append(set, e)
<1>1. /\ Len(set) \in Nat /\ Len(more) = Len(set) + 1 /\ more[Len(set) + 1] = e
      /\ \A i \in 1 .. Len(set) : more[i] = set[i]
  OBVIOUS
<1>2. PICK k \in 1 .. n : set[k].zone = zone /\ (k < n => set[k + 1].at >= second)
  BY DEF NotReplaced
<1>3. k \in 1 .. Len(set) /\ (k < n => k + 1 \in 1 .. Len(set)) /\ k \in Nat /\ n \in Nat
  BY <1>1
<1> HIDE DEF more
<1>4. more[k].zone = zone /\ (k < n => more[k + 1].at >= second)
  BY <1>1, <1>2, <1>3
<1>5. NotReplaced(zone, second, more, n)
  BY <1>4 DEF NotReplaced
<1>6. ASSUME n = Len(set), e.at >= second PROVE NotReplaced(zone, second, more, Len(more))
  <2>1. k \in 1 .. Len(more)
    BY <1>1, <1>3
  <2>2. k < Len(more) => more[k + 1].at >= second
    <3>1. CASE k < n
      BY <1>4, <3>1
    <3>2. CASE ~(k < n)
      <4>1. k + 1 = Len(set) + 1
        BY <1>3, <1>6, <3>2
      <4> QED
        BY <1>1, <1>6, <4>1
    <3> QED
      BY <3>1, <3>2
  <2> QED
    BY <1>4, <2>1, <2>2 DEF NotReplaced
<1> QED
  BY <1>5, <1>6 DEF more

\* So caches and stamps stay right.
LEMMA RightAfterSetting ==
  ASSUME NEW set \in Seq(Setting), NEW e \in Setting, NEW back \in BOOLEAN
  PROVE  /\ \A c \in Cache :
              (~back => c.lastSecond <= e.at) /\ CacheIsRight(c, set, back) =>
                CacheIsRight(c, Append(set, e), back)
         /\ \A l \in LogLine :
              StampIsRight(l, set, back) => StampIsRight(l, Append(set, e), back)
<1>1. Len(set) \in Nat /\ Len(Append(set, e)) = Len(set) + 1 /\ e.at \in Nat
  BY DEF Setting, Times
<1>2. ASSUME NEW c \in Cache, ~back => c.lastSecond <= e.at, CacheIsRight(c, set, back)
      PROVE  CacheIsRight(c, Append(set, e), back)
  <2>1. c.lastSecond \in Nat
    BY DEF Cache, Times
  <2>2. ~back => e.at >= c.lastSecond
    BY <1>1, <1>2, <2>1
  <2>3. ASSUME ~back, NotReplaced(c.zone, c.lastSecond, set, Len(set))
        PROVE  NotReplaced(c.zone, c.lastSecond, Append(set, e), Len(Append(set, e)))
    BY <1>1, <2>1, <2>2, <2>3, NotReplacedByThis
  <2> QED
    BY <1>2, <2>3 DEF CacheIsRight
<1>3. ASSUME NEW l \in LogLine, StampIsRight(l, set, back)
      PROVE  StampIsRight(l, Append(set, e), back)
  <2>1. l.time \in Nat /\ l.zonesThen \in 0 .. Len(set) /\ l.zonesThen <= Len(Append(set, e))
    <3>1. l.time \in Times /\ l.zonesThen \in Nat
      BY DEF LogLine
    <3>2. l.zonesThen <= Len(set)
      BY <1>3 DEF StampIsRight
    <3> QED
      BY <1>1, <3>1, <3>2, LoggerAssumption DEF Times
  <2>2. ASSUME NotReplaced(l.zone, l.time, set, l.zonesThen)
        PROVE  NotReplaced(l.zone, l.time, Append(set, e), l.zonesThen)
    BY <2>1, <2>2, NotReplacedByThis
  <2> QED
    BY <1>3, <2>1, <2>2 DEF StampIsRight
<1> QED
  BY <1>2, <1>3

LEMMA GivenAreLines == Types => Given \subseteq LogLine
<1>1. \A s \in Seq(LogLine) : ToSet(s) \subseteq LogLine
  BY DEF ToSet
<1> QED
  BY <1>1 DEF Types, Given

LEMMA SetInv == ASSUME IInv, Set PROVE IInv'
<1> DEFINE e == [zone |-> g_logTimeZone', at |-> now]
<1>1. /\ UNCHANGED <<now, setBack, cache, pc, line, stdio, out, async, lines, aborted>>
      /\ \/ UNCHANGED <<g_logTimeZone, zones>>
         \/ g_logTimeZone' \in ZonesSet /\ zones' = Append(zones, e)
      /\ g_flush' = g_flush \/ g_flush' = "async"
  BY DEF Set, clock, ZonesSet
<1>2. now \in Times /\ now \in Nat /\ zones \in Seq(Setting) /\ setBack \in BOOLEAN
  BY LoggerAssumption DEF IInv, Types, Times
<1>3. FatalInv'
  BY <1>1 DEF IInv, FatalInv, Given
<1>4. ClockInv'
  BY <1>1 DEF IInv, ClockInv
<1>5. CASE UNCHANGED <<g_logTimeZone, zones>>
  <2>1. Types'
    BY <1>1, <1>5 DEF IInv, Types
  <2>2. CacheInv' /\ StampInv'
    BY <1>1, <1>5 DEF IInv, CacheInv, StampInv, Given
  <2> QED
    BY <1>3, <1>4, <2>1, <2>2 DEF IInv
<1>6. CASE g_logTimeZone' \in ZonesSet /\ zones' = Append(zones, e)
  <2>1. e \in Setting /\ e.at = now /\ e.zone = g_logTimeZone'
    BY <1>2, <1>6 DEF Setting
  <2> HIDE DEF e
  <2>2. zones' \in Seq(Setting) /\ Len(zones') >= 1 /\ zones'[Len(zones')] = e
    BY <1>2, <1>6, <2>1
  <2>3. Types'
    BY <1>1, <1>6, <2>1, <2>2 DEF IInv, Types
  <2>4. CacheInv'
    <3> SUFFICES ASSUME NEW t \in Threads PROVE CacheIsRight(cache[t], Append(zones, e), setBack)
      BY <1>1, <1>6 DEF CacheInv
    <3>1. cache[t] \in Cache /\ CacheIsRight(cache[t], zones, setBack)
      BY DEF IInv, Types, CacheInv
    <3>2. ~setBack => cache[t].lastSecond <= e.at
      BY <2>1 DEF IInv, ClockInv
    <3> QED
      BY <1>2, <2>1, <3>1, <3>2, RightAfterSetting
  <2>5. StampInv'
    <3>1. \A l \in LogLine :
            StampIsRight(l, zones, setBack) => StampIsRight(l, Append(zones, e), setBack)
      BY <1>2, <2>1, RightAfterSetting
    <3>2. (\A t \in Threads : line[t] \in LogLine) /\ Given \subseteq LogLine /\ Given' = Given
      BY <1>1, GivenAreLines DEF IInv, Types, Given
    <3> QED
      BY <1>1, <1>6, <3>1, <3>2 DEF IInv, StampInv
  <2> QED
    BY <1>3, <1>4, <2>3, <2>4, <2>5 DEF IInv
<1> QED
  BY <1>1, <1>5, <1>6

LEMMA LogStatementInv ==
  ASSUME IInv, NEW t \in Threads, NEW level \in LogLevels, LogStatement(t, level)
  PROVE  IInv'
<1> DEFINE l == [line[t] EXCEPT !.id = lines + 1, !.level = level, !.time = now]
<1>1. /\ pc[t] = "idle" /\ lines' = lines + 1 /\ line' = [line EXCEPT ![t] = l]
      /\ pc' = [pc EXCEPT ![t] = "formatting"]
      /\ UNCHANGED <<now, setBack, g_logTimeZone, zones, g_flush, cache, stdio, out, async>>
  BY DEF LogStatement, clock, globals
<1>2. l \in LogLine /\ l.time = now /\ now # 0
  <2>1. level \in TRACE .. FATAL /\ now \in Times /\ now # 0 /\ lines + 1 \in Nat
        /\ line[t] \in LogLine
    BY LoggerAssumption DEF IInv, Types, Times
  <2> QED
    BY <2>1 DEF LogLine
<1> HIDE DEF l
<1>3. /\ line' \in [Threads -> LogLine] /\ pc' \in [Threads -> Places]
      /\ line'[t] = l /\ pc'[t] = "formatting"
      /\ \A u \in Threads : u # t => line'[u] = line[u] /\ pc'[u] = pc[u]
  BY <1>1, <1>2 DEF IInv, Types, Places
<1>4. Types'
  BY <1>1, <1>2, <1>3 DEF IInv, Types
<1>5. ClockInv'
  <2>1. now <= now
    BY DEF IInv, Types
  <2> QED
    BY <1>1, <1>2, <1>3, <2>1 DEF IInv, ClockInv
<1>6. CacheInv' /\ StampInv' /\ FatalInv'
  BY <1>1, <1>3 DEF IInv, CacheInv, StampInv, FatalInv, Given
<1> QED
  BY <1>4, <1>5, <1>6 DEF IInv

\* formatTime() leaves the cache showing the second of its line.
LEMMA FormattedIs ==
  ASSUME IInv, NEW t \in Threads, line[t].time # 0
  PROVE  LET c == Formatted(cache[t], line[t].time) IN
         /\ c \in Cache /\ c.lastSecond = line[t].time
         /\ CacheIsRight(c, zones, setBack)
<1> DEFINE c == Formatted(cache[t], line[t].time)
           fresh == [lastSecond |-> line[t].time, second |-> line[t].time, zone |-> g_logTimeZone]
<1>1. /\ line[t].time \in Times /\ g_logTimeZone \in ZonesSet /\ cache[t] \in Cache
      /\ Len(zones) \in Nat /\ Len(zones) >= 1 /\ g_logTimeZone = zones[Len(zones)].zone
  <2>1. line[t] \in LogLine /\ cache[t] \in Cache
    BY DEF IInv, Types
  <2>2. line[t].time \in Times
    BY <2>1 DEF LogLine
  <2> QED
    BY <2>1, <2>2 DEF IInv, Types
<1>2. CASE line[t].time # cache[t].lastSecond
  <2>1. c = fresh
    BY <1>2 DEF Formatted
  <2>2. fresh \in Cache /\ fresh.lastSecond = line[t].time /\ fresh.second = line[t].time
        /\ fresh.zone = g_logTimeZone
    BY <1>1 DEF Cache
  <2>3. Len(zones) \in 1 .. Len(zones) /\ ~(Len(zones) < Len(zones))
    BY <1>1
  <2>4. NotReplaced(g_logTimeZone, line[t].time, zones, Len(zones))
    BY <1>1, <2>3 DEF NotReplaced
  <2> HIDE DEF fresh
  <2>5. CacheIsRight(fresh, zones, setBack)
    BY <2>2, <2>4 DEF CacheIsRight
  <2> QED
    BY <2>1, <2>2, <2>5
<1>3. CASE line[t].time = cache[t].lastSecond
  BY <1>1, <1>3 DEF Formatted, IInv, CacheInv
<1> QED
  BY <1>2, <1>3

LEMMA FormatTimeInv == ASSUME IInv, NEW t \in Threads, FormatTime(t) PROVE IInv'
<1> DEFINE c == Formatted(cache[t], line[t].time)
           l == [line[t] EXCEPT !.second = c.second, !.zone = c.zone, !.zonesThen = Len(zones)]
<1>1. /\ pc[t] = "formatting" /\ cache' = [cache EXCEPT ![t] = c]
      /\ pc' = [pc EXCEPT ![t] = "stamped"]
      /\ UNCHANGED <<now, setBack, g_logTimeZone, zones, g_flush, stdio, out, async, lines>>
  BY DEF FormatTime, clock, globals
<1>2. cache'[t] = c
  BY <1>1 DEF IInv, Types
<1>3. line' = [line EXCEPT ![t] = l]
  BY <1>2 DEF FormatTime
<1>4. line[t] \in LogLine /\ line[t].time # 0 /\ Len(zones) \in Nat
  BY <1>1 DEF IInv, Types
<1>5. c \in Cache /\ c.lastSecond = line[t].time /\ CacheIsRight(c, zones, setBack)
  BY <1>4, FormattedIs
<1> HIDE DEF c
<1>6. l \in LogLine /\ l.time = line[t].time /\ StampIsRight(l, zones, setBack)
  <2>1. /\ l \in LogLine /\ l.time = line[t].time /\ l.second = c.second /\ l.zone = c.zone
        /\ l.zonesThen = Len(zones)
    BY <1>4, <1>5 DEF LogLine, Cache
  <2>2. /\ c.second = line[t].time
        /\ setBack \/ NotReplaced(c.zone, line[t].time, zones, Len(zones))
    BY <1>4, <1>5 DEF CacheIsRight
  <2> HIDE DEF l
  <2> QED
    BY <1>4, <2>1, <2>2 DEF StampIsRight
<1> HIDE DEF l
<1>7. /\ cache' \in [Threads -> Cache] /\ line' \in [Threads -> LogLine]
      /\ pc' \in [Threads -> Places]
      /\ line'[t] = l /\ pc'[t] = "stamped"
      /\ \A u \in Threads : u # t => /\ cache'[u] = cache[u] /\ line'[u] = line[u]
                                     /\ pc'[u] = pc[u]
  BY <1>1, <1>3, <1>5, <1>6 DEF IInv, Types, Places
<1>8. Types'
  BY <1>1, <1>7 DEF IInv, Types
<1>9. ClockInv'
  BY <1>1, <1>2, <1>5, <1>6, <1>7 DEF IInv, ClockInv
<1>10. CacheInv'
  BY <1>1, <1>2, <1>5, <1>7 DEF IInv, CacheInv
<1>11. StampInv'
  BY <1>1, <1>6, <1>7 DEF IInv, StampInv, Given
<1>12. FatalInv'
  BY <1>1, <1>7 DEF IInv, FatalInv, Given
<1> QED
  BY <1>8, <1>9, <1>10, <1>11, <1>12 DEF IInv

LEMMA AddSuffixInv == ASSUME IInv, NEW t \in Threads, AddSuffix(t) PROVE IInv'
<1>1. PICK suffix \in {"Z", ""} : line' = [line EXCEPT ![t].suffix = suffix]
  BY DEF AddSuffix
<1> DEFINE l == [line[t] EXCEPT !.suffix = suffix]
<1>2. /\ pc[t] = "stamped" /\ pc' = [pc EXCEPT ![t] = "streaming"]
      /\ UNCHANGED <<now, setBack, g_logTimeZone, zones, g_flush, cache, stdio, out, async, lines>>
  BY DEF AddSuffix, clock, globals
<1>3. line[t] \in LogLine /\ StampIsRight(line[t], zones, setBack)
  BY <1>2 DEF IInv, Types, StampInv
<1>4. /\ l \in LogLine /\ l.time = line[t].time /\ l.second = line[t].second
      /\ l.zone = line[t].zone /\ l.zonesThen = line[t].zonesThen
  BY <1>3 DEF LogLine
<1>5. line' = [line EXCEPT ![t] = l]
  BY <1>1
<1> HIDE DEF l
<1>6. /\ line' \in [Threads -> LogLine] /\ pc' \in [Threads -> Places]
      /\ line'[t] = l /\ pc'[t] = "streaming"
      /\ \A u \in Threads : u # t => line'[u] = line[u] /\ pc'[u] = pc[u]
  BY <1>2, <1>4, <1>5 DEF IInv, Types, Places
<1>7. Types'
  BY <1>2, <1>6 DEF IInv, Types
<1>8. ClockInv' /\ CacheInv'
  BY <1>2, <1>4, <1>6 DEF IInv, ClockInv, CacheInv
<1>9. StampIsRight(l, zones, setBack)
  BY <1>3, <1>4 DEF StampIsRight
<1>10. StampInv' /\ FatalInv'
  BY <1>2, <1>6, <1>9 DEF IInv, StampInv, FatalInv, Given
<1> QED
  BY <1>7, <1>8, <1>10 DEF IInv

\* A step that leaves clock, zone, caches and lines alone keeps what is said of them.
LEMMA StampsKept ==
  ASSUME IInv, UNCHANGED <<now, setBack, zones, cache, line>>
  PROVE  ClockInv' /\ CacheInv'
BY DEF IInv, ClockInv, CacheInv

LEMMA OutputInv == ASSUME IInv, NEW t \in Threads, Output(t) PROVE IInv'
<1>1. /\ pc[t] = "streaming"
      /\ UNCHANGED <<now, setBack, g_logTimeZone, zones, g_flush, cache, out, lines>>
      /\ \/ stdio' = Append(stdio, line[t]) /\ async' = async
         \/ async' = Append(async, line[t]) /\ stdio' = stdio
  BY DEF Output, clock, globals
<1>2. \/ pc' = [pc EXCEPT ![t] = "flushing"] /\ line' = line
      \/ pc' = [pc EXCEPT ![t] = "idle"] /\ line' = [line EXCEPT ![t] = NoLine]
  BY DEF Output
<1>3. line[t] \in LogLine /\ StampIsRight(line[t], zones, setBack)
  BY <1>1 DEF IInv, Types, StampInv
<1>4. stdio \in Seq(LogLine) /\ async \in Seq(LogLine)
  BY DEF IInv, Types
<1>5. stdio' \in Seq(LogLine) /\ async' \in Seq(LogLine)
  <2>1. \A s \in Seq(LogLine), l \in LogLine : Append(s, l) \in Seq(LogLine)
    OBVIOUS
  <2>2. Append(stdio, line[t]) \in Seq(LogLine) /\ Append(async, line[t]) \in Seq(LogLine)
    BY <1>3, <1>4, <2>1
  <2> QED
    BY <1>1, <1>4, <2>2
<1>6. /\ ToSet(Append(stdio, line[t])) = ToSet(stdio) \union {line[t]}
      /\ ToSet(Append(async, line[t])) = ToSet(async) \union {line[t]}
  BY <1>3, <1>4, ToSetAppend
<1>7. Given' = Given \union {line[t]} /\ ToSet(async) \subseteq ToSet(async')
  BY <1>1, <1>6 DEF Given
<1>8. /\ pc' \in [Threads -> Places] /\ line' \in [Threads -> LogLine]
      /\ \/ pc'[t] = "flushing" /\ line'[t] = line[t]
         \/ pc'[t] = "idle" /\ line'[t] = NoLine
      /\ \A u \in Threads : u # t => pc'[u] = pc[u] /\ line'[u] = line[u]
  BY <1>2, NoLineIsLine DEF IInv, Types, Places
<1>9. Types'
  BY <1>1, <1>5, <1>8 DEF IInv, Types
<1>10. ClockInv' /\ CacheInv'
  <2>1. 0 <= now
    BY DEF IInv, Types
  <2> QED
    BY <1>1, <1>8, <2>1, NoLineIsLine DEF IInv, ClockInv, CacheInv
<1>11. StampInv'
  BY <1>1, <1>3, <1>7, <1>8 DEF IInv, StampInv
<1>12. FatalInv'
  BY <1>1, <1>7, <1>8 DEF IInv, FatalInv
<1> QED
  BY <1>9, <1>10, <1>11, <1>12 DEF IInv

\* fflush(stdout): no line is lost on the way.
LEMMA StdioGoesOut ==
  ASSUME IInv, out' = out \o stdio, stdio' = <<>>, async' = async
  PROVE  /\ stdio' \in Seq(LogLine) /\ out' \in Seq(LogLine) /\ Given' = Given
         /\ ToSet(out') = ToSet(out) \union ToSet(stdio)
<1>1. stdio \in Seq(LogLine) /\ out \in Seq(LogLine)
  BY DEF IInv, Types
<1>2. ToSet(out') = ToSet(out) \union ToSet(stdio)
  BY <1>1, ToSetConcat
<1>3. ToSet(stdio') = {}
  BY DEF ToSet
<1> QED
  BY <1>1, <1>2, <1>3 DEF Given

LEMMA FlushOutputInv == ASSUME IInv, NEW t \in Threads, FlushOutput(t) PROVE IInv'
<1>1. /\ pc[t] = "flushing" /\ pc' = [pc EXCEPT ![t] = "aborting"]
      /\ UNCHANGED <<now, setBack, g_logTimeZone, zones, g_flush, cache, line, async, lines>>
      /\ \/ g_flush = "stdout" /\ out' = out \o stdio /\ stdio' = <<>>
         \/ g_flush # "stdout" /\ UNCHANGED <<out, stdio>>
  BY DEF FlushOutput, clock, globals
<1>2. /\ pc' \in [Threads -> Places]
      /\ pc'[t] = "aborting" /\ \A u \in Threads : u # t => pc'[u] = pc[u]
  BY <1>1 DEF IInv, Types, Places
<1>3. /\ stdio' \in Seq(LogLine) /\ out' \in Seq(LogLine) /\ Given' = Given
      /\ ToSet(out) \subseteq ToSet(out')
      /\ g_flush = "stdout" => ToSet(out') = ToSet(out) \union ToSet(stdio)
  <2>1. CASE out' = out \o stdio /\ stdio' = <<>>
    BY <1>1, <2>1, StdioGoesOut
  <2>2. CASE g_flush # "stdout" /\ UNCHANGED <<out, stdio>>
    BY <1>1, <2>2 DEF IInv, Types, Given
  <2> QED
    BY <1>1, <2>1, <2>2
<1>4. Types'
  BY <1>1, <1>2, <1>3 DEF IInv, Types
<1>5. StampInv'
  BY <1>1, <1>2, <1>3 DEF IInv, StampInv
<1>6. FatalInv'
  <2>1. g_flush = "stdout" => line[t] \in ToSet(out') \union ToSet(async')
    BY <1>1, <1>3 DEF IInv, FatalInv, Given
  <2> QED
    BY <1>1, <1>2, <1>3, <2>1 DEF IInv, FatalInv
<1> QED
  BY <1>1, <1>4, <1>5, <1>6, StampsKept DEF IInv

LEMMA StdioWritesInv == ASSUME IInv, StdioWrites PROVE IInv'
<1>1. /\ out' = out \o stdio /\ stdio' = <<>> /\ async' = async
      /\ UNCHANGED <<now, setBack, g_logTimeZone, zones, g_flush, cache, pc, line, lines>>
  BY DEF StdioWrites, clock, globals
<1>2. /\ stdio' \in Seq(LogLine) /\ out' \in Seq(LogLine) /\ Given' = Given
      /\ ToSet(out) \subseteq ToSet(out')
  BY <1>1, StdioGoesOut
<1>3. Types'
  BY <1>1, <1>2 DEF IInv, Types
<1>4. StampInv'
  BY <1>1, <1>2 DEF IInv, StampInv
<1>5. FatalInv'
  BY <1>1, <1>2 DEF IInv, FatalInv
<1> QED
  BY <1>1, <1>3, <1>4, <1>5, StampsKept DEF IInv

\* abort(), and a step of nothing.
LEMMA StillInv ==
  ASSUME IInv, UNCHANGED <<now, setBack, g_logTimeZone, zones, g_flush, cache, pc, line,
                           stdio, out, async, lines>>
  PROVE  IInv'
<1>1. Types'
  BY DEF IInv, Types
<1>2. StampInv' /\ FatalInv'
  BY DEF IInv, StampInv, FatalInv, Given
<1> QED
  BY <1>1, <1>2, StampsKept DEF IInv

LEMMA Inductive == ASSUME IInv, [Next]_vars PROVE IInv'
<1>1. CASE Tick \/ Set \/ StdioWrites
  BY <1>1, TickInv, SetInv, StdioWritesInv
<1>2. ASSUME NEW t \in Threads, Statement(t)
      PROVE  IInv'
  <2>1. CASE \E level \in LogLevels : LogStatement(t, level)
    BY <2>1, LogStatementInv
  <2>2. CASE FormatTime(t) \/ AddSuffix(t) \/ Output(t) \/ FlushOutput(t)
    BY <2>2, FormatTimeInv, AddSuffixInv, OutputInv, FlushOutputInv
  <2>3. CASE Abort(t)
    BY <2>3, StillInv DEF Abort, clock, globals
  <2> QED
    BY <1>2, <2>1, <2>2, <2>3 DEF Statement
<1>3. CASE UNCHANGED vars
  BY <1>3, StillInv DEF vars, clock, globals
<1> QED
  BY <1>1, <1>2, <1>3 DEF Next, Terminated

LEMMA Invariance == Spec => []IInv
<1>1. IInv /\ [Next]_vars => IInv'
  BY Inductive
<1> QED
  BY InitInv, <1>1, PTL DEF Spec

\* Every line shows the second in which its time was taken, in a zone that had not been
\* replaced before that second, unless the clock was set back.
THEOREM StampsCorrect == Spec => []StampsAreRight
<1>1. IInv => StampsAreRight
  BY WrittenIs DEF IInv, StampInv, StampIsRight, NotReplaced, StampsAreRight
<1> QED
  BY Invariance, <1>1, PTL

\* A FATAL line has left the process before the process is aborted.
THEOREM FatalCorrect == Spec => []FatalLineIsOut
<1>1. IInv => FatalLineIsOut
  <2> SUFFICES ASSUME IInv PROVE FatalLineIsOut
    OBVIOUS
  <2>1. ToSet(out \o async) = ToSet(out) \union ToSet(async)
    BY ToSetConcat DEF IInv, Types
  <2> QED
    BY <2>1 DEF IInv, FatalInv, FatalLineIsOut
<1> QED
  BY Invariance, <1>1, PTL
=============================================================================
