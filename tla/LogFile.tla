------------------------------- MODULE LogFile -------------------------------
(***************************************************************************)
(* The rolling log file: log/LogFile.{h,cc}, and AppendFile of             *)
(* log/FileUtil.{h,cc} under it.                                           *)
(*                                                                         *)
(* append() and flush() run under mutex_ when the file is thread safe and  *)
(* from one thread when it is not, so each is one action.  The clock does  *)
(* not wait for them: append() may read it twice, once to see if it is     *)
(* time for a new file and once more to name it, and the readings may lie  *)
(* apart, or go back if somebody sets the clock.  A line is known by its   *)
(* position in the order of append() calls; the name of a file is the      *)
(* second it was created in, the rest of the name being the same for every *)
(* file of the process.  Of a FILE, the model knows what its buffer still  *)
(* holds and what a failing write does to it; the results of fflush() and  *)
(* fclose() are ignored by the code.                                       *)
(***************************************************************************)
EXTENDS Integers, Sequences, FiniteSets, SequencesExt, LogText

CONSTANTS
  RollSize,         \* rollSize_
  FlushInterval,    \* flushInterval_
  CheckEveryN,      \* checkEveryN_
  RollPerSeconds,   \* kRollPerSeconds_, the seconds of a day
  Lengths,          \* the values of len that append() is called with
  WriteCanFail,     \* whether writing to the disk may fail
  ClockCanGoBack,   \* whether the system clock may be set back
  MaxLines,         \* bound: number of calls of append()
  MaxTime           \* bound: last second of the clock

ASSUME LogFileAssumption ==
  /\ RollSize \in Nat /\ FlushInterval \in Nat
  /\ CheckEveryN \in Nat \ {0} /\ RollPerSeconds \in Nat \ {0}
  /\ Lengths \subseteq Nat
  /\ WriteCanFail \in BOOLEAN /\ ClockCanGoBack \in BOOLEAN
  /\ MaxLines \in Nat /\ MaxTime \in Nat \ {0}

VARIABLES
  now,             \* the system clock
  count_,
  startOfPeriod_,
  lastRoll_,
  lastFlush_,
  file_,           \* the AppendFile being written
  closedFiles,     \* the earlier files, oldest first
  open,            \* FALSE once the LogFile is destroyed
  log,             \* history: for every line passed to append(), the second in which
                   \* append() returned
  setBack          \* history: whether the clock has been set back

roll == <<startOfPeriod_, lastRoll_, lastFlush_>>
vars == <<now, count_, roll, file_, closedFiles, open, log, setBack>>

Period(t) == (t \div RollPerSeconds) * RollPerSeconds

\* An AppendFile: the lines written to it, how many of them have left the buffer, and
\* whether writing has failed, which ferror() would tell.
NewFile(t) == [name |-> t, lines |-> <<>>, flushed |-> 0, error |-> FALSE, writenBytes_ |-> 0]

\* What the clock may show some time after it showed t.
Reading(t) == {u \in 1 .. MaxTime : t <= u \/ ClockCanGoBack}

\* The constructor's rollFile(), at any second but 0, rolls.
Init ==
  /\ now \in 1 .. MaxTime
  /\ count_ = 0
  /\ startOfPeriod_ = Period(now) /\ lastRoll_ = now /\ lastFlush_ = now
  /\ file_ = NewFile(now) /\ closedFiles = <<>>
  /\ open = TRUE /\ log = <<>> /\ setBack = FALSE

\* Time passes, or somebody sets the clock; nobody reads it once the file is closed.
Tick ==
  /\ open
  /\ \/ now < MaxTime /\ now' = now + 1 /\ UNCHANGED setBack
     \/ ClockCanGoBack /\ now' \in 1 .. now - 1 /\ setBack' = TRUE
  /\ UNCHANGED <<count_, roll, file_, closedFiles, open, log>>

-----------------------------------------------------------------------------
(***************************************************************************)
(* append_unlock(): AppendFile::append(), then isNeedRollFile(), then      *)
(* rollFile() if need be.                                                  *)
(***************************************************************************)
\* What is left when the buffer of f cannot be written out: it is empty then.
Failed(f) ==
  IF WriteCanFail
  THEN {[f EXCEPT !.lines = text, !.flushed = Len(text), !.error = TRUE] :
          text \in Cuts(f.lines, f.flushed)}
  ELSE {}

\* fflush() or fclose().
Flushed(f) == {[f EXCEPT !.flushed = Len(f.lines)]} \union Failed(f)

\* The file with the next line, writenBytes_ counting it.
WithLine(len) ==
  [file_ EXCEPT !.lines = Append(@, Whole(Len(log) + 1)), !.writenBytes_ = @ + len]

WritesAgain(len) ==    \* fault: the loop does not stop for an error
  LET f == WithLine(len) IN
  {f} \union {[g EXCEPT !.lines = Append(@, Whole(Len(log) + 1))] : g \in Failed(f)}

\* AppendFile::append(): the loop ends when all is written or on an error, and
\* writenBytes_ counts all of the line in both cases.
Writes(len) == {WithLine(len)} \union Failed(WithLine(len))

\* append() reads the clock at t and, last, at u.
Appended(t, u) ==
  /\ open /\ Len(log) < MaxLines
  /\ now' = u /\ setBack' = (setBack \/ t < now \/ u < t)
  /\ log' = Append(log, u)
  /\ UNCHANGED open

RollWithoutClose(f, t) ==    \* fault: the FILE of the old file is leaked
  IF t > lastRoll_
  THEN /\ lastRoll_' = t /\ lastFlush_' = t /\ startOfPeriod_' = Period(t)
       /\ closedFiles' = Append(closedFiles, [f EXCEPT !.lines = SubSeq(@, 1, f.flushed)])
       /\ file_' = NewFile(t)
  ELSE file_' = f /\ UNCHANGED <<roll, closedFiles>>

RollAlways(f, t) ==    \* fault: now > lastRoll_ is not tested
  /\ lastRoll_' = t /\ lastFlush_' = t /\ startOfPeriod_' = Period(t)
  /\ \E g \in Flushed(f) : closedFiles' = Append(closedFiles, g)
  /\ file_' = NewFile(t)

RollInOldPeriod(f, t) ==    \* fault: startOfPeriod_ is not set
  IF t > lastRoll_
  THEN /\ lastRoll_' = t /\ lastFlush_' = t /\ UNCHANGED startOfPeriod_
       /\ \E g \in Flushed(f) : closedFiles' = Append(closedFiles, g)
       /\ file_' = NewFile(t)
  ELSE file_' = f /\ UNCHANGED <<roll, closedFiles>>

\* rollFile() at second t, with f for the current file.  Replacing file_ closes
\* the old file, which flushes it.
RollFile(f, t) ==
  IF t > lastRoll_
  THEN /\ lastRoll_' = t /\ lastFlush_' = t /\ startOfPeriod_' = Period(t)
       /\ \E g \in Flushed(f) : closedFiles' = Append(closedFiles, g)
       /\ file_' = NewFile(t)
  ELSE file_' = f /\ UNCHANGED <<roll, closedFiles>>

KeepFile(f) == file_' = f /\ UNCHANGED <<roll, closedFiles>>

TooLargeBefore(f) == file_.writenBytes_ > RollSize    \* fault: tested before the write

TooLarge(f) == f.writenBytes_ > RollSize

\* ++count_ >= checkEveryN_
TimeToCheck == count_ + 1 >= CheckEveryN

AppendRollsBySize(len) ==
  \E f \in Writes(len), t \in Reading(now) :
    /\ Appended(t, t)
    /\ TooLarge(f)
    /\ RollFile(f, t)
    /\ UNCHANGED count_

AppendOnly(len) ==
  \E f \in Writes(len) :
    /\ Appended(now, now)
    /\ ~TooLarge(f) /\ ~TimeToCheck
    /\ count_' = count_ + 1
    /\ KeepFile(f)

AppendRollsByDay(len) ==
  \E f \in Writes(len), t \in Reading(now) :
    /\ ~TooLarge(f) /\ TimeToCheck /\ count_' = 0
    /\ Period(t) # startOfPeriod_
    /\ \E u \in Reading(t) : Appended(t, u) /\ RollFile(f, u)

FlushForgotten(len) ==    \* fault
  \E f \in Writes(len), t \in Reading(now) :
    /\ Appended(t, t)
    /\ ~TooLarge(f) /\ TimeToCheck /\ count_' = 0
    /\ Period(t) = startOfPeriod_ /\ t - lastFlush_ > FlushInterval
    /\ lastFlush_' = t /\ file_' = f
    /\ UNCHANGED <<startOfPeriod_, lastRoll_, closedFiles>>

AppendFlushes(len) ==
  \E f \in Writes(len), t \in Reading(now) :
    /\ Appended(t, t)
    /\ ~TooLarge(f) /\ TimeToCheck /\ count_' = 0
    /\ Period(t) = startOfPeriod_ /\ t - lastFlush_ > FlushInterval
    /\ lastFlush_' = t /\ file_' \in Flushed(f)
    /\ UNCHANGED <<startOfPeriod_, lastRoll_, closedFiles>>

AppendChecks(len) ==
  \E f \in Writes(len), t \in Reading(now) :
    /\ Appended(t, t)
    /\ ~TooLarge(f) /\ TimeToCheck /\ count_' = 0
    /\ Period(t) = startOfPeriod_ /\ t - lastFlush_ <= FlushInterval
    /\ KeepFile(f)

-----------------------------------------------------------------------------
\* flush() does not touch lastFlush_.
Flush ==
  /\ open
  /\ file_' \in Flushed(file_)
  /\ UNCHANGED <<now, count_, roll, closedFiles, open, log, setBack>>

\* The destructor closes the file.
Destroy ==
  /\ open /\ open' = FALSE
  /\ file_' \in Flushed(file_)
  /\ UNCHANGED <<now, count_, roll, closedFiles, log, setBack>>

AppendLine ==
  \E len \in Lengths :
    \/ AppendRollsBySize(len) \/ AppendOnly(len) \/ AppendRollsByDay(len)
    \/ AppendFlushes(len) \/ AppendChecks(len)

\* The log file is no more.
Terminated == ~open /\ UNCHANGED vars

Next == Tick \/ AppendLine \/ Flush \/ Destroy \/ Terminated

Spec == Init /\ [][Next]_vars

-----------------------------------------------------------------------------
(***************************************************************************)
(* Safety.                                                                 *)
(***************************************************************************)
Files == Append(closedFiles, file_)

\* A new file never has the name of an earlier one, which it would be appended
\* to: not even when the clock is set back does a second name two files.
DistinctNames ==
  \A i, j \in DOMAIN Files : i < j => Files[i].name < Files[j].name

\* A file that append() leaves larger than rollSize_ is left so in the second in which
\* it was created, as the clock shows it.
OversizeOnlyWithinItsSecond ==
  file_.writenBytes_ > RollSize => log[Len(log)] <= lastRoll_

\* What the current file holds of another day than its own is at most what came
\* since the last check, fewer than checkEveryN_ lines, unless the clock was set
\* back.
StrayLinesBounded == setBack \/
  Cardinality({i \in DOMAIN file_.lines : Period(log[file_.lines[i].line]) # startOfPeriod_})
    <= count_

\* Nobody needs to call flush(): what is still in the stdio buffer came within
\* flushInterval_ seconds, but for the last lines, fewer than checkEveryN_, unless
\* the clock was set back.
FlushedInTime == setBack \/
  \A i, j \in file_.flushed + 1 .. Len(file_.lines) :
    file_.lines[j].line <= Len(log) - CheckEveryN + 1 =>
      log[file_.lines[j].line] - log[file_.lines[i].line] <= FlushInterval

-----------------------------------------------------------------------------
(***************************************************************************)
(* Refinement.                                                             *)
(***************************************************************************)
Lines(files) == FlattenSeq([i \in DOMAIN files |-> files[i].lines])

Sink == INSTANCE LogSink WITH
  CanFail <- WriteCanFail,
  given   <- Len(log),
  content <- Lines(Files),
  durable <- Len(Lines(closedFiles)) + file_.flushed,
  failed  <- \E i \in DOMAIN Files : Files[i].error,
  open    <- open

\* Read one after the other, the files are one text to which append() adds its line: no
\* roll loses, repeats or misplaces a line or takes back what was flushed.  A write
\* that fails takes the end off what was in the buffer, where a line may be torn, and
\* nothing else; the lines after it follow where it broke off.
ImplementsSink == Sink!SinkSpec
=============================================================================
