-------------------------------- MODULE Logger --------------------------------
(***************************************************************************)
(* Log statements: class Logger, log/Logging.{h,cc}.                       *)
(*                                                                         *)
(* A statement makes a Logger, whose constructor takes the time and stamps *)
(* the line with it, and destroys it at its end, which gives the line to   *)
(* g_output and, if the level is FATAL, calls g_flush and aborts.  The     *)
(* text of the second is cached in t_time, one for each thread.  Between   *)
(* any two of these steps other threads log, the clock is stepped, and the *)
(* application sets zone, level, output and flush functions, which are     *)
(* plain globals.  What a line says is left out but for its stamp.         *)
(***************************************************************************)
EXTENDS Integers, Sequences, SequencesExt

CONSTANTS
  Threads,
  Zones,         \* the time zones that are set
  LogLevels,     \* the levels that are logged with, and set
  MaxLines,      \* bound: number of log statements
  MaxTime,       \* bound: last second of the clock
  MaxSet         \* bound: number of calls of setTimeZone() and the like

TRACE == 0
DEBUG == 1
INFO == 2
WARN == 3
ERROR == 4
FATAL == 5

NoZone == "invalid"     \* g_logTimeZone before it is set: UTC

ASSUME LoggerAssumption ==
  /\ NoZone \notin Zones /\ LogLevels \subseteq TRACE .. FATAL
  /\ MaxLines \in Nat /\ MaxTime \in Nat \ {0} /\ MaxSet \in Nat

VARIABLES
  now,                                         \* the clock, in seconds
  g_logLevel, g_logTimeZone, g_output, g_flush,
  zones,        \* history: the zones set one after the other, and the second of each
  setBack,      \* history: the clock has been set back
  cache,        \* t_lastSecond and t_time of every thread
  pc,           \* where every thread is in its log statement
  line,         \* the line of every thread's Logger
  stdio,        \* what is in the buffer of stdout
  out,          \* what has left it
  async,        \* what was given to another output function
  lines, sets,  \* how many statements and settings there were
  aborted

clock == <<now, setBack>>
globals == <<g_logLevel, g_logTimeZone, g_output, g_flush, zones, sets>>
vars == <<clock, globals, cache, pc, line, stdio, out, async, lines, aborted>>

NoLine ==
  [id |-> 0, level |-> TRACE, time |-> 0, second |-> 0, zone |-> NoZone, zonesThen |-> 0,
   suffix |-> ""]

Init ==
  /\ now \in 1 .. MaxTime /\ setBack = FALSE
  /\ g_logLevel = INFO /\ g_logTimeZone = NoZone /\ zones = <<[zone |-> NoZone, at |-> 0]>>
  /\ g_output = "stdout" /\ g_flush = "stdout"
  /\ cache = [t \in Threads |-> [lastSecond |-> 0, second |-> 0, zone |-> NoZone]]
  /\ pc = [t \in Threads |-> "idle"] /\ line = [t \in Threads |-> NoLine]
  /\ stdio = <<>> /\ out = <<>> /\ async = <<>>
  /\ lines = 0 /\ sets = 0 /\ aborted = FALSE

-----------------------------------------------------------------------------
\* Time passes, or somebody sets the clock.
Tick ==
  /\ ~aborted
  /\ now' \in 1 .. MaxTime /\ now' # now
  /\ setBack' = (setBack \/ now' < now)
  /\ UNCHANGED <<globals, cache, pc, line, stdio, out, async, lines, aborted>>

\* setLogLevel(), setTimeZone(), setOutput(), setDefaultOutput() and setFlush().
Set ==
  /\ ~aborted /\ sets < MaxSet /\ sets' = sets + 1
  /\ \/ /\ g_logLevel' \in LogLevels
        /\ UNCHANGED <<g_logTimeZone, zones, g_output, g_flush>>
     \/ /\ g_logTimeZone' \in Zones \union {NoZone}
        /\ zones' = Append(zones, [zone |-> g_logTimeZone', at |-> now])
        /\ UNCHANGED <<g_logLevel, g_output, g_flush>>
     \/ /\ g_output' \in {"stdout", "async"}
        /\ UNCHANGED <<g_logLevel, g_logTimeZone, zones, g_flush>>
     \/ /\ g_flush' = "async"     \* nothing sets the default one again
        /\ UNCHANGED <<g_logLevel, g_logTimeZone, zones, g_output>>
  /\ UNCHANGED <<clock, cache, pc, line, stdio, out, async, lines, aborted>>

-----------------------------------------------------------------------------
\* The macros: LOG_TRACE, LOG_DEBUG and LOG_INFO look at the level, the others do not.
IsLogged(level) == level >= WARN \/ g_logLevel <= level

\* The level is tested, and the constructor takes the time.
LogStatement(t, level) ==
  /\ ~aborted /\ pc[t] = "idle" /\ lines < MaxLines
  /\ IsLogged(level)
  /\ lines' = lines + 1
  /\ line' = [line EXCEPT ![t] = [@ EXCEPT !.id = lines + 1, !.level = level, !.time = now]]
  /\ pc' = [pc EXCEPT ![t] = "formatting"]
  /\ UNCHANGED <<clock, globals, cache, stdio, out, async, aborted>>

CacheOnlyGrows(c, time) ==    \* fault: a later second is wanted, not another one
  IF time > c.lastSecond THEN [lastSecond |-> time, second |-> time, zone |-> g_logTimeZone] ELSE c

\* t_lastSecond and t_time, the second and the zone it shows, after formatTime().
Formatted(c, time) ==
  IF time # c.lastSecond THEN [lastSecond |-> time, second |-> time, zone |-> g_logTimeZone] ELSE c

\* formatTime() stamps the line out of the cache.
FormatTime(t) ==
  /\ ~aborted /\ pc[t] = "formatting"
  /\ cache' = [cache EXCEPT ![t] = Formatted(@, line[t].time)]
  /\ line' = [line EXCEPT ![t] = [@ EXCEPT !.second = cache'[t].second, !.zone = cache'[t].zone,
                                         !.zonesThen = Len(zones)]]
  /\ pc' = [pc EXCEPT ![t] = "stamped"]
  /\ UNCHANGED <<clock, globals, stdio, out, async, lines, aborted>>

\* It looks at g_logTimeZone once more for the suffix, which tells UTC from a zone and
\* is not cached.
AddSuffix(t) ==
  /\ ~aborted /\ pc[t] = "stamped"
  /\ line' = [line EXCEPT ![t].suffix = IF g_logTimeZone = NoZone THEN "Z" ELSE ""]
  /\ pc' = [pc EXCEPT ![t] = "streaming"]
  /\ UNCHANGED <<clock, globals, cache, stdio, out, async, lines, aborted>>

\* The destructor: finish() and g_output(); unless the level is FATAL the Logger is gone.
Output(t) ==
  /\ ~aborted /\ pc[t] = "streaming"
  /\ IF g_output = "stdout"
     THEN stdio' = Append(stdio, line[t]) /\ UNCHANGED async
     ELSE async' = Append(async, line[t]) /\ UNCHANGED stdio
  /\ IF line[t].level = FATAL
     THEN pc' = [pc EXCEPT ![t] = "flushing"] /\ UNCHANGED line
     ELSE pc' = [pc EXCEPT ![t] = "idle"] /\ line' = [line EXCEPT ![t] = NoLine]
  /\ UNCHANGED <<clock, globals, cache, out, lines, aborted>>

AbortAtOnce(t) ==    \* fault: g_flush() is not called
  /\ ~aborted /\ pc[t] = "flushing"
  /\ pc' = [pc EXCEPT ![t] = "aborting"]
  /\ UNCHANGED <<clock, globals, cache, line, stdio, out, async, lines, aborted>>

\* g_flush() of a FATAL line; the default one is fflush(stdout).
FlushOutput(t) ==
  /\ ~aborted /\ pc[t] = "flushing"
  /\ IF g_flush = "stdout"
     THEN out' = out \o stdio /\ stdio' = <<>>
     ELSE UNCHANGED <<out, stdio>>
  /\ pc' = [pc EXCEPT ![t] = "aborting"]
  /\ UNCHANGED <<clock, globals, cache, line, async, lines, aborted>>

\* abort(): buffers are not written out.
Abort(t) ==
  /\ ~aborted /\ pc[t] = "aborting"
  /\ aborted' = TRUE
  /\ UNCHANGED <<clock, globals, cache, pc, line, stdio, out, async, lines>>

\* stdio writes its buffer when it is full.
StdioWrites ==
  /\ ~aborted /\ stdio # <<>>
  /\ out' = out \o stdio /\ stdio' = <<>>
  /\ UNCHANGED <<clock, globals, cache, pc, line, async, lines, aborted>>

Statement(t) ==
  \/ \E level \in LogLevels : LogStatement(t, level)
  \/ FormatTime(t) \/ AddSuffix(t) \/ Output(t) \/ FlushOutput(t) \/ Abort(t)

\* The process has ended.
Terminated == aborted /\ UNCHANGED vars

Next == Tick \/ Set \/ (\E t \in Threads : Statement(t)) \/ StdioWrites \/ Terminated

Spec == Init /\ [][Next]_vars

-----------------------------------------------------------------------------
(***************************************************************************)
(* Safety.                                                                 *)
(***************************************************************************)
Written == ToSet(out \o stdio \o async)

\* A line shows the second of its own time, whatever its thread logged before and
\* whether the clock went forward or back, and it shows it in a zone that was set at
\* some moment of this second or from then on until the line was formatted, unless
\* the clock was set back: never in one that was replaced before.
StampsAreRight ==
  \A l \in Written :
    /\ l.second = l.time
    /\ setBack \/ \E k \in 1 .. l.zonesThen :
         /\ zones[k].zone = l.zone
         /\ k < l.zonesThen => zones[k + 1].at >= l.time

\* When a FATAL statement aborts the process its line, and with it what was put
\* there before, has left the buffer of stdout, unless the flush function was
\* replaced, whoever logs or sets the output function meanwhile.
FatalLineIsOut ==
  \A t \in Threads :
    pc[t] = "aborting" /\ g_flush = "stdout" => line[t] \in ToSet(out \o async)
=============================================================================
