# A verification model of MultiThreadLog

MultiThreadLog is an asynchronous logging library in C++: business threads format
log lines into buffers, one logging thread swaps full buffers out and writes them
to a rolling log file. Around that sit a thread pool, the usual wrappers of
pthreads, and date and time zone arithmetic. This directory holds TLA+ models of
the library, the configurations with which TLC checks them, and proofs checked by
TLAPS. `PROJECT.json` lists components, runs, hazards, findings and theorems, and
for every definition the source lines it stands for.

## The system

| Component | State | Operations | Hard because | Correct when |
|---|---|---|---|---|
| `AsyncLogging` | `running_`, `latch_`, `currentBuffer_`, `nextBuffer_`, `buffers_`; locals of `threadFunc()`: two spare buffers, the batch, the output file | `append()` from any thread; `start()`, `stop()` by the owner; the loop of the logging thread | a swap of four buffers between two sides, a timed wait, a backlog limit, a `notify()` without the mutex | lines come out in order and once; losses are announced; no buffer goes missing; the logger sleeps only with nothing full; `stop()` ends it |
| `LogFile`, `AppendFile` | current file, bytes counted, `count_`, times of the last roll and flush and of the period | `append()`, `flush()`, `rollFile()` inside | two readings of the clock per call, clock set back, writes that fail part of the way, a check only every N lines | no line is lost by a roll, none by an error that was durable before; no name twice; late rolls and flushes are bounded |
| `ThreadPool` | queue, `running_`, threads, two condition variables | `start()`, `stop()`, `run()`, `take()`, `runInThread()` | overtaking at both conditions, `run()` inside tasks, an unlocked flag, failed thread creation | a task is in one place and runs once, FIFO; nobody sleeps who could work; `stop()` is final |
| `Thread` | `started_`, `joined_`, the data the child uses | `start()`, `join()`, destructor | handshake with the child, detach at destruction | `start()` returns with the tid set; the child never outlives what it uses |
| `CountDownLatch`, `MutexLock`, `Condition` | a count; a holder | `wait()`, `countDown()`, `lock()`, `unlock()`, waiting | the holder must be right across a wait; waits end for no reason; the latch may be destroyed as soon as `wait()` returns | every waiter is released, none early; `isLockedByThisThread()` tells the truth |
| `Logger` | level, output and flush functions, zone (global); cached second (per thread) | one line per object, FATAL aborts | stale cache, time and zone read apart, abort with lines still buffered | the stamp is the line's time in the zone; a FATAL line gets out |
| `LogStream`, `FixedBuffer` | characters and a cursor | `operator<<`, `append()`, `add()`, `reset()` | limits, `strcpy` against a length | what is counted is what was written, inside the buffer |
| `Date`, `Timestamp`, `TimeZone` | none (pure); a table of transitions | conversions | boundaries of calendars and transitions | round trips; agreement with a reference |
| `Singleton`, `ThreadLocal`, `ThreadLocalSingleton` | one instance, or one per thread | `instance()`, `value()`, the destructors at the end of a thread and of the process | first use by several threads; destructors that ask for other objects | one instance; a thread leaves nothing behind |

Interactions: a `Logger` passes its finished line to `g_output`, which an
application sets to `AsyncLogging::append()`; `AsyncLogging` owns a `Thread` and a
`CountDownLatch` and writes to a local `LogFile`; `LogFile` replaces its
`AppendFile`; `ThreadPool` owns `Thread`s. Not modelled, and not planned:
`CurrentThread` and `ProcessInfo` (caches of system calls, `/proc`),
`ReadSmallFile` (I/O), `Atomic` (one instruction per operation), `Exception`,
`StringPiece`, `Types` (values), tests and build files.

Asserts matter little at run time: `CMakeLists.txt:52` builds with `-DNDEBUG` by
default. The models check what the asserts say as invariants.

## The modules

| Module | What it is |
|---|---|
| `AsyncLogging` | the logger: `log/AsyncLogging.{h,cc}`, with the parts of `Thread`, `CountDownLatch`, `Condition` and `FixedBuffer` it goes through |
| `LogPipeline` | what the logger promises, without buffers; `AsyncLogging` implements it |
| `AsyncLogging_proofs` | theorems about `AsyncLogging`, one of them that it implements `LogPipeline` |
| `LogFile` | the rolling file: `log/LogFile.{h,cc}`, `AppendFile` of `log/FileUtil.{h,cc}` |
| `LogSink` | what a log file promises to those who write to it; `LogFile` implements it |
| `LogText` | what a failing write leaves of a text in a stdio buffer; used by both |
| `LogFile_proofs` | theorems about `LogFile`, one of them that it implements `LogSink` |
| `CountDownLatch` | the latch with its `MutexLock` and `Condition`, lock by lock: `log/CountDownLatch.{h,cc}`, `log/Mutex.h`, `log/Condition.h` |
| `Thread` | threads from `start()` to `join()` or destruction, with latches: `log/Thread.{h,cc}`; extends `CountDownLatch` |
| `Thread_proofs` | theorems about `CountDownLatch` and `Thread` |
| `Singletons` | objects made at first use: `log/Singleton.h`, `log/ThreadLocal.h`, `log/ThreadLocalSingleton.h` |
| `Singletons_proofs` | theorems about `Singletons` |
| `ThreadPool` | the pool: `log/ThreadPool.{h,cc}` |
| `ThreadPool_proofs` | theorems about `ThreadPool` |
| `Logger` | log statements: `log/Logging.{h,cc}` |
| `Logger_proofs` | theorems about `Logger` |
| `LogStream` | the buffer of one log line, character by character: `log/LogStream.{h,cc}` |
| `LogStream_proofs` | theorems about `LogStream` |
| `Date` | days and UTC: `log/Date.{h,cc}`, `toUtcTime()` and `fromUtcTime()` of `log/TimeZone.cc` |
| `TimeZone` | local time: `toLocalTime()`, `fromLocalTime()`, `findLocaltime()` of `log/TimeZone.cc`; extends `Date` |
| `Date_proofs` | theorems about `Date` and `TimeZone` |
| `CInteger` | `/` and `%` of C++ |
| `MCAsyncLogging`, `MCLogFile`, ... | values of the constants for TLC, one module each |

Definitions marked `fault` in the modules are variants of the definition that
follows them, as a plausible mistake in the code would give. `PROJECT.json` pairs
each with the property that must fail when it takes the definition's place; the
specifications never use them.

### AsyncLogging

One action is one stretch of code that no other thread can come between: a
critical section of `mutex_`, from the lock to the unlock or to the release inside
the wait; one access of the atomic `running_`; or statements on locals of the
logging thread. `owner` and `thread` are the program counters of the owner and the
logging thread. Business threads have none: `append()` is one critical section, so
only the order of the calls matters. `AppendToCurrent` and `AppendToFresh` are its
two branches. The owner goes `Start`, `CreateThread` (or `CreateThreadFails`),
`AwaitTid`, `AwaitLatch`, and `Stop`, `StopNotify`, `StopJoin`; the last three are
also what the destructor does. The logging thread goes `RunInThread`,
`EnterThreadFunc`, and in every round `TestRunning`, `WaitForSeconds` and
`WaitTimesOut` if there is no full buffer, `Swap`, `KeepBatch` or `DropBacklog`,
`WriteBuffer` for every buffer, `Recycle`, `Flush`; and at the end `Close`. The
wake-up by `notify()` is part of the notifying action; spurious wake-ups are
steps of `WaitTimesOut`.

A line is its position in the history `log`, which keeps lengths; a buffer is the
sequence of the lines copied into it and its length. `append()` and
`FixedBuffer::append()` both want `avail() > len`, so a line as long as a buffer
never fits and is not copied: the model keeps that. `file` is what the output was
given, with `0` for the notice about a dropped backlog; `synced` is how much of it
is known to have been flushed.

Abstracted: characters (a line is so many units, all of which are copied; what `strcpy()`
makes of them is the subject of `LogStream`), the text of lines, and the file behind
`output`, which `LogFile` models on its own. The owner calls `start()` and `stop()` once each, in this order,
which is what the asserts in `Thread` ask for.

### LogPipeline

Lines are accepted; a writer appends to the file any number of pending lines,
oldest first; it may give up a stretch of them and leave a notice; it may close
for good. The refinement maps `closed` to the logging thread having ended, and
`Longest` to `BufferSize - 1`.

### LogFile

`append()` is one action in five variants, one per way through
`isNeedRollFile()`: too large (`AppendRollsBySize`), not time to check
(`AppendOnly`), another day (`AppendRollsByDay`), time to flush (`AppendFlushes`),
nothing to do (`AppendChecks`). The whole call is an action because callers are
serialised by `mutex_` or by being one thread. The clock is not: a call reads it up to
twice, once to see whether a file is due and once more to name it, and any time may pass before
each of the readings, or, with `ClockCanGoBack`, somebody set the clock (`Reading`).
`rollFile()` is an operator on the current file and the second reading, with its guard
`now > lastRoll_`. Closed files stay in `closedFiles`; a day has `RollPerSeconds` seconds.

Of a `FILE` the model has the lines and how many of them are known to have left the stdio
buffer (`flushed`). With `WriteCanFail` the writing of the buffer may fail under `append()`,
whose loop then breaks, under a flush and under a close, whose results nobody looks at
(`Writes`, `Flushed`). What was in the buffer is then cut off at any place, inside a line too,
of which the beginning stays (`Failed`); the lines after it follow where it broke off,
and `writenBytes_` counts the whole line all the same.

### LogSink

One text, to which every line given is appended. A part of it from the beginning is durable,
and grows at the sink's pleasure or, whole, by a flush or the close. A write that fails, if
writes may, cuts the text somewhere behind that part and may tear a line there (`Becomes`,
`Cuts`); `given` keeps on counting, so that lines after it have their own numbers, and
`failed` tells that it has happened. The refinement reads the files one after the other
(`content`); durable are the lines of the closed files and the flushed ones of the current file.
Rolling is invisible in the sink: whatever else it does, it may only harden the text, or fail to.
This is all that `AsyncLogging` needs of its output: `file` there is `content` as long as no
write fails, `synced` is `durable`. The two are not composed, since neither has more to do with
the other.

### CountDownLatch and Thread

`CountDownLatch` has one action for every call into pthreads or access to the latch, with
what goes before it that no one else can see: `LockToWait` and `LockToCountDown` (the
`MutexLockGuard`), `TestCount` (the loop condition and, if it holds, the `UnassignGuard`
and the release inside `pthread_cond_wait()`), `WakeForNoReason`, `Relock`,
`CountDown`, `NotifyAll`, and `Unassign` and `Release`, the two halves of `unlock()`. `pc`
says where a caller is, `latch` in which latch.

`Thread` adds the `Thread` objects, the threads they start, and an owner. The
owner's steps are `Start` up to the wait for `latch_`, `StartReturns`,
`StartFails` (`pthread_create()` failed), `Join`, `JoinReturns` and `Destroy`, the destructor;
a thread goes `SetTid`, `SetName`, `CallFunc` as `runInThread()` does.
The rest is the application: it uses one latch to wait for its threads and
another to let them go, as `CountDownLatch.h` proposes, and counts down itself for a thread that
could not be created. With `MayDetach` the owner destroys Threads it has not joined, at any
time; a thread that then reads its Thread is undefined (`ReadsDead`).

### Singletons

Any thread asks for the object of the process at any time: `AskInstance`, `EnterInit` and
`MakeInstance` if `pthread_once()` lets it in, `ReturnInstance` when the init is done;
`Exit`, `destory` and `EndProcess` are `exit()`, called by one thread while others run. The
objects of a thread are touched by no other, so asking for one (`Ask`) is one action, and so is a
key visited at the end of the thread (`VisitKey`) with the destructor it calls and what that
asks for in its turn. Rounds over the keys and their number are those of pthreads. `asks`
says which destructor asks for which object; it is chosen once, among relations
without and with circles.

### ThreadPool

One action per critical section, and one per read of `running_` in
`runInThread()`, which happens outside the mutex. That read is a data race in
C++; `take()`, with its calls into pthreads, lies between any two of them, so that a
build can only see the value before or after the store in `stop()`, and both are
behaviours of the model. `notify()` wakes any one waiter, chosen by the action;
waiters may also wake for no reason. Clients call `run()` at any time except while
`start()` is under way (it reads `threads_` without a lock); tasks listed in
`NestedTasks` may call `run()` once themselves. A worker in `Unlucky` may fail to
be created.

### Logger

A statement is `LogStatement` (the macro's level test and the time that the constructor
takes), `FormatTime` (the stamp, from the thread's `t_lastSecond` and `t_time`), `AddSuffix` (the
second look at `g_logTimeZone`), `Output` (the destructor up to `g_output()`) and, for FATAL,
`FlushOutput` and `Abort`. A stamp is the second and zone it was formatted with and the suffix;
everything else in the line is left out. Between any two of these steps other threads log, the
clock passes on or is set, and the application sets a global (`Set`), the zone to an invalid one
too, which is UTC again. `zones` is the history of the zones and of the second in which each was
set. A `setTimeZone()` *during* a look at `g_logTimeZone` is a data race on its `shared_ptr` and
undefined; this alone is left to the application, as the tests do, who set zones when no other
thread logs. `stdio` is stdout's buffer, which may be written at any time; another output or flush
function is `"async"` and takes what it is given.

### LogStream

`data_` and `cur_` as in the code; a new buffer holds anything, and `reset()` clears
nothing. `append()` copies with `strcpy()` and advances by `len`, so a source has
the characters up to its first NUL and a `len`. That may be smaller: the case of a
`StringPiece` that is the beginning of a text, of another buffer read past its end,
and of a single `char`, which has no NUL behind it (undefined behaviour; the model
lets any of the listed characters follow). Such a copy may run past `data_`: then
`overrun` is set, and the buffer does nothing more. And it may be larger: the case of a
`std::string`, `StringPiece` or buffer with a NUL inside, and of the char `'\0'`. Then the NUL is
copied and what follows is not, but counted; the history `text` has `Stale` there, for
whatever `data_` held before. `convert()` and `convertHex()` are
recursive functions that give the digits in the order of the loops, on the integers
between the value and 0 that the loops can come to. `RoomAssumption` says that a number and
its NUL fit into the `kMaxNumericSize` characters asked for. Doubles and `Fmt` go through `snprintf()` and are texts like others.

### Date and TimeZone

The functions are operators under their own names, with C++ division where a
dividend may be negative. In `Date` the variables are not the program's: a calendar
that only knows how long months are turns its leaves one by one, forward and
backward from 1970-01-01, and the invariants compare the functions with the leaf.
`TimeZone` walks through the same calendar in a zone, which is the table that
`readTimeZoneFile()` builds: the whole calendar if the zone never changes, the days around its
transitions if it does. `std::lower_bound()` is a binary search; `gmtime_r()` and `timegm()`
are taken to agree with `toUtcTime()` and `fromUtcTime()`, as the comments there propose.

## The runs

| Run | Question | Bounds |
|---|---|---|
| `async` | are lines kept in order, once, and losses announced; do the buffers circulate; is `stop()` final; is the whole a log pipeline; do lines reach the disk, does `stop()` return | 6 lines of 1 and 3 units, buffers of 3, backlog limit 3 |
| `async_stop_drains` | *violated:* is everything logged before `stop()` in the file after it | 2 lines |
| `pool` | is a task in one place, served in order; is nobody forgotten; are tasks executed, does `run()` return once no new calls come, does `stop()`, when tasks call `run()`; is `stop()` prompt and final | 2 workers, one of which may fail, 2 clients, queue of 2, 4 tasks, all of which may nest |
| `pool_join` | *violated:* does `stop()` join only threads that were started | 1 task |
| `logfile` | do rolls keep the names apart, whatever the clock does; how late can rolls and flushes be; is the log one text, whatever is rolled, and what is left of it when a write, flush or close fails | 4 lines of 1 byte, files of 3, 4 seconds, days of 4, check every 2 |
| `thread` | does nobody pass a latch early, or wait for ever, or touch a dead one; is `holder_` right | 2 threads, one of which may fail to be created, 4 latches, 2 spurious wake-ups |
| `thread_detached` | *violated:* has a thread done with its `Thread` when that is destroyed | 2 threads |
| `singletons` | is there one object of the process; does a thread leave none of its own | 2 threads, 3 locals, 5 relations between them |
| `logger` | does a line show its own second, in a zone not replaced before it; is a FATAL line out before the abort | 2 threads, 2 lines, 2 settings, a zone and none, 3 seconds |
| `logstream` | does the buffer hold what was appended; do integers read back; what can be written past its end | 8 characters, numbers want 5, 7 texts (two longer than their `len`, two with a NUL inside it), integers of 8 bits |
| `logstream_room` | *violated:* is data added only where there is room for it | the same |
| `calendar` | do Julian day numbers, weekdays, dates and UTC follow the calendar; is local time the one in force, and does it come back | all 146097 days of the Gregorian cycle around 1970; seconds from December 1901 to January 2038, eight times of the day; 450 zones of up to three changes |

Why the bounds are enough. A buffer of 3 units holds two lines of 1, one, or none (a line
of 3 never fits), so `append()` finds room, finds none, finds one place too few, and finds none
even in a fresh buffer. Six such lines fill four buffers and leave lines to come: both spares of
the front end are used, a third is allocated, and a batch can have one buffer, two, three (trimmed to two when
recycled) and four (over the limit of 3, which stands for 25). The spares have no
state but being clean or not, so that longer runs repeat these situations; the proofs
cover every size. In the pool, two workers and two clients are enough to overtake a
notified thread; four tasks with a queue of two leave tasks queued at `stop()`
beyond one per worker, and callers waiting; with both workers busy in tasks that call
`run()` the queue is full and everybody stuck. In the file, a check every second line,
days of a few seconds and files of three bytes make every branch of `append()` happen. A file is
just full with its third line and outgrows `rollSize_` with its fourth, the last, at which it is
rolled or, if the clock has not passed its second, kept; what lines after that would meet is the
subject of the proofs.

Two threads and their owner make two waiters at the latch they begin with, which
`notify()` for `notifyAll()` would not both wake, and a waiter and a counter at every other; more
threads repeat these. In `singletons` two threads race for `pthread_once()`; three
locals make a chain against the order of the keys, which takes all but one of the rounds
that pthreads allows.

The Gregorian calendar repeats after 146097 days, so that
`calendar` meets every combination of month end, leap year and century; seconds are bounded by
TLC's integers. A zone of three changes has a first, a middle and a last one, each to
summer time or back. In `logstream` texts of up to three characters, numbers of up to four and
resets fill eight places to the last and leave old characters behind every cursor. In `logger` two
lines of one thread are enough for a cache to be used, and two settings for a zone to be
replaced between the two lines, or between the time and the formatting of one.

`MaxLines`, `MaxTasks`, `MaxSet` and `MaxTime` only bound the runs, and no property rests on
them: `RunReturnsOnceCallsEnd`, which does rest on callers not coming for ever, says so in
its premise (`CallsEnd`). When they are used up the
models stay in an explicit final state (`Terminated`), so that TLC's search for
deadlocks stays on in every run: nothing else may come to rest. For the logger that
includes `start()` waiting for ever for a thread that could not be created
(`StartHangs`).

### Fairness

`FairSpec` in `AsyncLogging` has weak fairness for the steps of the owner inside
`start()` and `stop()` and for those of the logging thread: the scheduler runs
threads that can run. The end of the timed wait is one of these steps, since
`pthread_cond_timedwait()` returns; a wall clock set back delays it (the comment at
`Condition.cc:18` says so) but does not cancel it. The mutex is assumed to let the
logging thread in eventually, although other threads go on calling `append()`;
pthreads do not promise that, but these critical sections are short and the model
has as many as `MaxLines`. Nobody is required to call `append()`, `start()` or
`stop()`, and creating the thread may fail. `FairSpec` in `ThreadPool` has weak
fairness for the owner and for every worker and client inside the pool's functions,
and so assumes that tasks end; spurious wake-ups are never relied on. It does not make
`notify()` fair: any waiter may be chosen, and a client that was chosen may find the place taken by
one who came later. `FairSpec`
in `Thread` has weak fairness for the owner, every thread and every caller inside a latch.
It does not make the owner do anything but return from what it has called and then
go on; it says nothing of spurious wake-ups, of which there are finitely many
(`MaxSpurious`), so that no waiter may rely on them.

## What the checks show

* A line taken by `append()` reaches the file once, in order, and within one timed
  wait and one round, unless it is longer than a buffer, dropped with a backlog that
  the file announces before any later line, or overtaken by `stop()`.
* `stop()` of the logger returns although it notifies without the mutex, but only
  because the wait is timed: with the timeout removed `StopReturns` fails.
* Nobody sleeps in the pool who could work: one `notify()` per task and per free
  place is enough although notified threads may be overtaken. With nested `run()`
  all workers may wait for room in the queue that only they empty, and
  nothing but `stop()` ends that; `stop()` does. A caller of `run()` may be overtaken at a full
queue as often as others call, and so for ever; it is let go once no new calls come.
* A roll loses no line and reuses no name, even with a clock set back. A write, flush or close
  that fails costs lines back to the last flush that worked, may leave half a line, and hurts
  nothing before that nor repeats anything; nobody is told. A file is
  oversize only until the clock has passed its second; fewer than `checkEveryN_`
  lines are in the wrong day's file; what is buffered without a `flush()` is from
  within `flushInterval_` seconds but for fewer than `checkEveryN_` lines. The last
  two need a clock that is not set back.
* Whoever waits at a latch gets past it, after it has been counted down and not before, and
  the thread that counts down last has done with the latch before the waiter can destroy it:
  `notifyAll()` inside the critical section is what this takes. With `notifyAll()` behind it
  `NothingDeadIsTouched` fails in `Thread::start()`.
* However many threads ask first, `Singleton` makes one object and all get it; only after
  `exit()` may `instance()` find none. The objects of a thread go with it even if the destructor of
  one asks for another that was just deleted: `t_value_ = NULL` and a further round
  see to that. Only destructors that ask in a circle leave something behind, or in a chain
  with more links than the rounds that pthreads allows.
* Whatever was in the buffer of a log line before, what it holds is what was appended
  and had room, in order, and whole up to a NUL inside, also behind a `strcpy()` that copied too
  much, as long as that stayed inside the buffer. It does if `len` is not less than what there is
  to copy: the test of `append()` and `kMaxNumericSize` leave room for the NUL.
* Dates, weekdays, UTC and local times convert back and forth, before 1970 and in the
  hour that comes twice when summer time ends; the latter only if summer time is one hour
  ahead, since `fromLocalTime()` takes 3600 seconds off.
* A log line is stamped with its own second, also when the clock is set back. Its zone
  can be stale: after `setTimeZone()` a thread that has already logged in this second
  goes on with the old zone until the second is over, and with the suffix of the new
  one. It can also be too new, if it was set after the time was taken. But it was not replaced
  before the line's second began, unless the clock was set back. On stdout a FATAL line is
  out before `abort()`.

Disagreements of code and text (the runs marked *violated*):

* `AsyncLogging.cc:67`: the loop ends on `running_` before a last swap; lines logged
  before `stop()` may be in neither the file nor a notice (`AsyncLogging.h:23`).
* `ThreadPool.cc:45`: a thread that could not be created is joined all the same,
  against `assert(started_)` in `Thread.cc:145`.
* `Thread.cc:50`: a thread that is not joined reads `name_` and calls `func_` of a `Thread`
  that may be destroyed, which `tests/Thread_test.cc:84` does.
* `LogStream.h:49`: the room is tested for `len` characters and `strcpy()` copies to the next NUL,
  so that more is added than there is room for (`LogStream.h:45`), past the end of `data_`.

Three more were met while modelling and have no run. `LogFile.cc:57`: a file that outgrows
`rollSize_` in the second of its creation is kept (`LogFile.cc:104` and `LogFile.h:40` say
otherwise); `OversizeOnlyWithinItsSecond` is what does hold. `Singleton.h:35`: `destory()` is
registered for every `T`, so that the memory leak that `tests/Singleton_test.cc` announces for a
class with `no_destroy()` does not come. `LogStream.h:49`: of data with a NUL inside only the beginning
is copied, while `cur_` advances by all of it, where the comment at `LogStream.h:122` has the data of the
other buffer added; `TextIsWhatWasAppended` holds but for those places, which are `Stale`.

## What is proved

All safety invariants that the passing runs check, both refinements and the action
properties; for every value of the constants that the named
assumptions admit. Every theorem follows from an inductive invariant, since hardly any of the
properties is inductive as it stands; what each had to be strengthened by is the argument why
the code is right.

`AsyncLogging_proofs`, for every `BufferSize > 0`, set of line lengths, `MaxLines`
and `BacklogLimit >= 2` (assumptions `BufferAssumption` and `NullAssumption`, the
latter that a null pointer is no buffer):

* `TypeCorrect` and `SupplyCorrect`, from the inductive invariant
  `IInv == TypeOK /\ BufferSupply /\ Handshake`. `TypeOK` is not inductive: `Swap`
  puts `newBuffer1` in place of `currentBuffer_`, so it must be there, which is
  because `Recycle` refilled it in the round before, which takes a batch with as many
  buffers as there are spares to refill. `BufferSupply` is that argument: the second spare was
  given away only if `nextBuffer_` had been used, and then there is a full buffer beside
  the current one. `Handshake` adds that the thread passes the latch once and begins a
  round with nothing written. `BacklogLimit >= 2` is needed because a batch cut to two
  must have had two.
* `NoWakeupLost`: `NoLostWakeup` is inductive by itself.
* `FlushesBetweenRounds`, from `Flushed`, which extends it to the time before the first
  round; `StopIsFinal`, the action property, from `Exited`: `stop()` has joined.
* `OrderCorrect` and `LossCorrect`, from `InvNow == IInv /\ InOrder /\ NoSilentLoss`: the file is
  in order because the queue of buffers (rest of the batch, `buffers_`, current buffer) is, and the queue
  because its lines are numbers of the history, below that of any line to come. A
  swap must not change the queue at all, which is where `BufferSupply` is needed again:
  the buffer that takes the place of the current one is empty.
* `PipelineImplemented`: under `InvNow` every step is one of `LogPipeline` or stutters.
  `DropBacklog` is the step that takes work: what it cuts off is a stretch of the pending lines
  behind those of the two buffers it keeps.

`LogFile_proofs`, for any sizes, intervals and clock (`LogFileAssumption`), from
`IInv == FileType /\ NamesInv /\ SizeInv /\ ClockInv /\ FlushInv /\ StrayInv`:

* `NamesCorrect`: the current file is named after `lastRoll_`, and a roll only happens if the
  clock has passed that, also when the clock was set back before. `SizeCorrect`.
* `StrayCorrect` and `FlushedCorrect`: `ClockInv` relates the seconds of the lines in the file
  and in the stdio buffer to `lastRoll_` and `lastFlush_`; the number of stray lines is at most
  `count_`, which is what makes "fewer than `checkEveryN_`" inductive.
* `SinkImplemented`: all files read one after the other are one text, of which a failing write,
  flush or close cuts the end off behind what was durable (`CutsConcat`). A roll closes a file and
  appends an empty one, which changes nothing (`FlattenSeq` of the community modules is a recursive
  function; the lemmas about it say how it behaves under `Append`).

`ThreadPool_proofs`, for any workers, clients, tasks, queue limits and failed threads
(`PoolAssumption`: clients are no numbers, and finitely many):

* `TypeCorrect` and `StoppedIsStill`, from `Base == TypeOK /\ PcInv /\ HandsInv /\ OwnerInv /\ WaitInv`:
  who has a task, how far `start()` and `stop()` are, and that nobody waits once `running_` is false.
* `OnePlaceCorrect`, from `Apart` (no two places hold the same task) and `Somewhere`;
  `OrderCorrect`, from `OrderInv`: the queue is the end of what was pushed.
* `ForgottenCorrect`: on top of `Base`, `NobodyForgotten` is inductive. A push adds a task and, if
  a worker waits, sends one on its way; a worker that overtakes one on its way takes a task from it,
  and then there is one task less to be on the way for.
* `PromptCorrect`, from `PromptInv`: the tasks taken since `stop()`, with the workers already inside
  `take()`, are no more than the workers that exist.

`Thread_proofs`, for any threads and latches, whichever threads cannot be created, with
detached threads or without (`ThreadAssumption`). `LockInv` concerns the latches alone: who
is inside has the mutex and is `holder_`. `OwnerInv` and `ChildInv` say where owner
and children stand, `CountInv` that a count is the number of those who have still to count down,
and `PassInv` what is true behind a latch:

* `HolderCorrect`, across waits, where `holder_` is given up and taken again;
  `NobodyEarly`; `DeadLatchesAreLeft`: a child inside `countDown()` holds the mutex, so that the owner
  cannot have left the wait, and the Thread is alive.

`Singletons_proofs`, for any threads, locals, rounds and relations between destructors
(`SingletonsAssumption`):

* `OneInstanceCorrect`, from `OnceInv`: `pthread_once()` has one thread in `init()`, and the
  object is there as soon as it is done.
* `LocalsCorrect`, from `LocalsInv`: without a circle every local has a rank above those whose
  destructors ask for it, and in round *r* of a thread's end all that is left has rank *r* at least,
  behind the visited key even *r* + 1; so a thread needs no more rounds than there are locals.

`Logger_proofs`, for any threads, zones, lines and clock (`LoggerAssumption`):

* `StampsCorrect`: `StampIsRight` says of every line, on its way or written, what
  `StampsAreRight` says of the written ones, and `CacheInv` the same of what `t_time` shows of the
  second `t_lastSecond`, so that a line may be stamped from the cache. `ClockInv` adds that while
  the clock only goes forward no zone was set, and no line begun, later than now: a zone set next
  replaces the one before it not before the second of any line there is. For a new stamp the zone
  shown is the last one, which nothing has replaced.
* `FatalCorrect`, from where the line is at each step of its destructor.

`Date_proofs`, for every `FirstDay >= -2440587`, where Julian day numbers become
positive (`DateAssumption`):

* `JulianDaysCorrect`, from the inductive invariant `CalendarInv`: the leaf is a date of
  the calendar from the year -4714 on and its Julian day number is that of 1970-01-01
  plus the leaves turned. The step of one day (`JulianOfDayAfter`) is proved in years that
  begin in March, in which the code counts; a step back is a step forward undone.
* `DatesAlwaysComeBack`: `getYearMonthDay()` inverts `getJulianDayNumber()`
  (`DateOfJulian`). With the days split into centuries, years and the day of the March
  year, every division of the code finds its part, because the last day of a March year
  exists only when the leap rule adds it.
* `UtcCorrect`: seconds and their parts, before 1970 too, where C++ division rounds the wrong way
  and the code corrects it.
* `LocalTimeCorrect`, for every set of zones with transitions in order and offsets of less than a day
  (`IsZone`; the code relies on the first for its binary search, the second is true of every
  zone there has been). `lower_bound()` is right for every sorted table
  (`SearchFinds`, by induction on the length it has left), so that the kind of local time found is the one in force.
* `LocalTimesAlwaysComeBack`, for a zone that satisfies `HasSummerTime`: two offsets an hour apart,
  told apart by `isDst`, and transitions more than an hour apart, as in all zones of the
  run. Without it `fromLocalTime()` does not undo `toLocalTime()`: it takes off 3600 seconds whatever the change was.

`LogStream_proofs`, for every size of the buffer, every text and `len`, every set of integers and
pointers, and every `kMaxNumericSize` that leaves them room (`StreamAssumption`, `RoomAssumption`):

* `TextCorrect` and `IntegersCorrect`, from `IInv == StreamType /\ HoldsText /\ HoldsNumber`. What was
  copied too far lies behind `cur_`, and the next copy begins there; so nothing before `cur_` ever
  changes, and the integer appended last stays where it was put. Sources shorter than their
  `len` are included: what `strcpy()` did not come to is `Stale` in the text, and nothing is said of it.
* `RoomCorrect`: on the same invariant, a step that writes past `data_` can only be the appending
  of a source with more characters than its `len`; `append()` wants one place more than `len`,
  which is the NUL's, and `RoomAssumption` leaves one for that of a number.
* `IntegersCorrect` rests on `ConvertReadsBack`, for every integer. The loop is
  taken by induction on the size of what is left to convert (`LoopWrites`): quotient and remainder
  have the sign of the integer or are 0 (`DivideByTen`), `zero[r]` is the same digit for *r* and
  *-r* (`DigitOfRemainder`), and the digit put down first is read last (`ReadingAppend`). Integers
  have no width in the model; that nothing overflows is seen from the definition, which only
  divides and never negates.
* `SixtyFourBitsHaveRoom` discharges `RoomAssumption` for the program, where `kMaxNumericSize` is 32:
  64 bits are at most 20 digits and a sign, or `0x` and 16 digits. One more division
  allows one more digit (`OneDigitMore`).

Induction. Facts about recursive functions (`FlattenSeq`, `lower_bound()`, the loops of `convert()`) are proved by
induction over a set of numbers (`SetInduction`), which follows from the library's
`WFMin`: that theorem takes a set and not an operator, and so can be used with the provers here.

Only model-checked: the four runs marked *violated*, which show counterexamples, and all
liveness properties (`FairSpec`), since TLAPS does neither liveness under fairness nor
`ENABLED`.

## Not modelled

* What a `LogStream` does after it has written past `data_`; the value a double is printed with;
  the width of integers.
* `FixedBuffer` inside `AsyncLogging` takes lines as units: characters, and what `strcpy()` makes
  of a line with a NUL inside or none behind it, are `LogStream`'s.
* A `setTimeZone()` during a thread's look at `g_logTimeZone`: a data race, and undefined.
* Zone files that are refused or cut short: `readTimeZoneFile()` prints the error and returns true
  all the same (`TimeZone.cc:188-192`), with a table that may be empty, of which
  `findLocaltime()` takes the `front()`, which is undefined. `IsZone` wants one local time at least.
* `fopen()` failing (the code goes on with a null `FILE`), tasks that throw (the
  process aborts), memory running out.
* A `func_` that throws (`runInThread()` aborts or rethrows), the names that Threads get by
  default, and `fork()`, after which the child process has one thread with a tid to be read
  anew (`afterFork()`).
* `getCount()`, which reads under the mutex; a `ThreadLocal` that is destroyed while threads use
  it; what happens between the deletion of the keys at `exit()` and the end of the process.
* What a FATAL line leaves when `AsyncLogging` is behind `g_output`: all that is not yet
  written is lost with the process; no text promises more.
* `ReadSmallFile`, `ProcessInfo`, `Timestamp`: reading of files and formatting.
* `append()` on a destroyed logger, `start()` or `stop()` called twice: callers'
  errors that the asserts exclude.

## Plan

Done: all modules, and the proofs of all safety properties. What could be added:

1. Liveness on paper: the ranking arguments behind the leads-to properties that TLC checks.
2. The value a double is printed with, which needs a model of `snprintf()`.
