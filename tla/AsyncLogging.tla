---------------------------- MODULE AsyncLogging ----------------------------
(***************************************************************************)
(* The asynchronous logging back end: log/AsyncLogging.{h,cc}.             *)
(*                                                                         *)
(* Any number of business threads call append(); one owner calls start()   *)
(* and stop(); the logging thread runs threadFunc(), which swaps the       *)
(* filled buffers out under mutex_ and writes them without holding it.     *)
(*                                                                         *)
(* One action is one stretch of code that no other thread can interleave   *)
(* with: a critical section of mutex_ from lock to unlock (or to the       *)
(* release inside the condition wait), one access of the atomic running_,  *)
(* or a run of statements on the logging thread's local variables.  Which  *)
(* business thread calls append() makes no difference to what it does, so  *)
(* callers have no identity: a line is known by its position in the order  *)
(* in which append() took the mutex.                                       *)
(***************************************************************************)
EXTENDS Integers, Sequences, SequencesExt

CONSTANTS
  BufferSize,     \* kLargeBuffer, in units of line length
  LineLengths,    \* the values of len that append() is called with
  BacklogLimit,   \* more buffers than this in one batch are cut (25 in the code)
  MaxLines,       \* bound: number of calls of append()
  Null            \* a unique_ptr that owns nothing

ASSUME BufferAssumption ==
  /\ BufferSize \in Nat \ {0}
  /\ LineLengths \subseteq Nat
  /\ BacklogLimit \in Nat /\ BacklogLimit >= 2
  /\ MaxLines \in Nat

\* What a FixedBuffer<kLargeBuffer> holds: the lines copied into data_, and
\* length() = cur_ - data_.
Buffer == [lines : Seq(Nat), length : Nat]

ASSUME NullAssumption == Null \notin Buffer

VARIABLES
  running_,        \* std::atomic<bool>
  latch_,          \* count of the CountDownLatch start() waits for
  owner,           \* where the owner of the object is in start() and stop()
  thread,          \* where the logging thread is in threadFunc()
  currentBuffer_,  \* the buffer append() fills
  nextBuffer_,     \* the spare of the front end, Null once it is in use
  buffers_,        \* the full buffers, oldest first
  newBuffer1,      \* the spares of the logging thread
  newBuffer2,
  buffersToWrite,  \* the batch the logging thread took
  written,         \* how many buffers of the batch the write loop has done
  log,             \* history: the length of every line passed to append()
  file,            \* what output.append() was given, in order
  synced,          \* how much of file is known to have left the stdio buffer
  dropped,         \* history: the lines erased from an overlong batch
  stopAt           \* history: how many lines had been logged when stop() began

frontEnd == <<currentBuffer_, nextBuffer_, buffers_, log>>
spares   == <<newBuffer1, newBuffer2>>
batch    == <<buffersToWrite, written>>
output   == <<file, synced>>
control  == <<running_, latch_, owner, thread, stopAt>>
vars     == <<control, frontEnd, spares, batch, output, dropped>>

-----------------------------------------------------------------------------
(***************************************************************************)
(* FixedBuffer.                                                            *)
(***************************************************************************)
NewBuffer == [lines |-> <<>>, length |-> 0]

\* Both append() and FixedBuffer::append() keep one byte free: avail() > len.
Fits(b, len) == BufferSize - b.length > len

\* A line that does not fit is silently not copied.
Put(b, n, len) ==
  IF Fits(b, len)
  THEN [lines |-> Append(b.lines, n), length |-> b.length + len]
  ELSE b

Reset(b) == [lines |-> <<>>, length |-> 0]

-----------------------------------------------------------------------------
(***************************************************************************)
(* The condition variable: where the logging thread is after notify().     *)
(***************************************************************************)
NotifyForgotten == thread    \* fault

Notified == IF thread = "waiting" THEN "woken" ELSE thread

Init ==
  /\ running_ = FALSE /\ latch_ = 1 /\ owner = "constructed" /\ thread = "none"
  /\ currentBuffer_ = NewBuffer /\ nextBuffer_ = NewBuffer /\ buffers_ = <<>>
  /\ newBuffer1 = Null /\ newBuffer2 = Null
  /\ buffersToWrite = <<>> /\ written = 0
  /\ log = <<>> /\ file = <<>> /\ synced = 0 /\ dropped = {} /\ stopAt = 0

-----------------------------------------------------------------------------
(***************************************************************************)
(* append(), called by any business thread at any time.                    *)
(***************************************************************************)
AppendToCurrent(len) ==
  /\ Len(log) < MaxLines
  /\ Fits(currentBuffer_, len)
  /\ log' = Append(log, len)
  /\ currentBuffer_' = Put(currentBuffer_, Len(log'), len)
  /\ UNCHANGED <<control, nextBuffer_, buffers_, spares, batch, output, dropped>>

AppendToFresh(len) ==
  /\ Len(log) < MaxLines
  /\ ~Fits(currentBuffer_, len)
  /\ log' = Append(log, len)
  /\ buffers_' = Append(buffers_, currentBuffer_)
  /\ currentBuffer_' = Put(IF nextBuffer_ # Null THEN nextBuffer_ ELSE NewBuffer,
                           Len(log'), len)
  /\ nextBuffer_' = Null
  /\ thread' = Notified
  /\ UNCHANGED <<running_, latch_, owner, stopAt, spares, batch, output, dropped>>

-----------------------------------------------------------------------------
(***************************************************************************)
(* The owner: start(), with Thread::start() inside it, and stop(), called  *)
(* by hand or by the destructor.                                           *)
(***************************************************************************)
OwnerGoes(from, to) == owner = from /\ owner' = to

data == <<frontEnd, spares, batch, output, dropped>>

Start ==
  /\ OwnerGoes("constructed", "creating")
  /\ running_' = TRUE
  /\ UNCHANGED <<latch_, thread, stopAt, data>>

CreateThread ==
  /\ OwnerGoes("creating", "awaitTid")
  /\ thread' = "spawned"
  /\ UNCHANGED <<running_, latch_, stopAt, data>>

\* Thread::start() returns at once, and start() goes on as if it had worked.
CreateThreadFails ==
  /\ OwnerGoes("creating", "awaitLatch")
  /\ UNCHANGED <<running_, latch_, thread, stopAt, data>>

\* Thread::start() waits for the child to have stored its tid.
AwaitTid ==
  /\ thread # "spawned"
  /\ OwnerGoes("awaitTid", "awaitLatch")
  /\ UNCHANGED <<running_, latch_, thread, stopAt, data>>

AwaitLatch ==
  /\ latch_ = 0
  /\ OwnerGoes("awaitLatch", "started")
  /\ UNCHANGED <<running_, latch_, thread, stopAt, data>>

Stop ==
  /\ OwnerGoes("started", "notifying")
  /\ running_' = FALSE
  /\ stopAt' = Len(log)
  /\ UNCHANGED <<latch_, thread, data>>

\* cond_.notify() without holding mutex_.
StopNotify ==
  /\ OwnerGoes("notifying", "joining")
  /\ thread' = Notified
  /\ UNCHANGED <<running_, latch_, stopAt, data>>

StopWithoutJoin ==    \* fault
  /\ OwnerGoes("joining", "stopped")
  /\ UNCHANGED <<running_, latch_, thread, stopAt, data>>

StopJoin ==
  /\ thread = "exited"
  /\ OwnerGoes("joining", "stopped")
  /\ UNCHANGED <<running_, latch_, thread, stopAt, data>>

-----------------------------------------------------------------------------
(***************************************************************************)
(* The logging thread.                                                     *)
(***************************************************************************)
ThreadGoes(from, to) == thread = from /\ thread' = to

\* Thread::runInThread() stores the tid and releases Thread::start().
RunInThread ==
  /\ ThreadGoes("spawned", "running")
  /\ UNCHANGED <<running_, latch_, owner, stopAt, data>>

EnterWithoutSpares ==    \* fault
  /\ ThreadGoes("running", "loop")
  /\ latch_' = latch_ - 1
  /\ UNCHANGED <<running_, owner, stopAt, data>>

EnterThreadFunc ==
  /\ ThreadGoes("running", "loop")
  /\ latch_' = latch_ - 1
  /\ newBuffer1' = NewBuffer /\ newBuffer2' = NewBuffer
  /\ UNCHANGED <<running_, owner, stopAt, frontEnd, batch, output, dropped>>

\* while (running_)
TestRunning ==
  /\ ThreadGoes("loop", IF running_ THEN "locking" ELSE "closing")
  /\ UNCHANGED <<running_, latch_, owner, stopAt, data>>

\* Take mutex_, find buffers_ empty and release mutex_ in waitForSeconds().
WaitForSeconds ==
  /\ buffers_ = <<>>
  /\ ThreadGoes("locking", "waiting")
  /\ UNCHANGED <<running_, latch_, owner, stopAt, data>>

WaitWithoutTimeout == FALSE    \* fault

\* The wait times out, or wakes up spuriously.
WaitTimesOut ==
  /\ ThreadGoes("waiting", "woken")
  /\ UNCHANGED <<running_, latch_, owner, stopAt, data>>

CurrentFirst == <<currentBuffer_>> \o buffers_    \* fault

TakenBatch == Append(buffers_, currentBuffer_)

\* The rest of the critical section.  buffers_ is not tested again after the
\* wait; the empty buffersToWrite of the last round becomes the new buffers_.
Swap ==
  /\ \/ thread = "woken"
     \/ thread = "locking" /\ buffers_ # <<>>
  /\ thread' = "trimming"
  /\ buffersToWrite' = TakenBatch
  /\ buffers_' = buffersToWrite
  /\ currentBuffer_' = newBuffer1
  /\ newBuffer1' = Null
  /\ IF nextBuffer_ = Null
     THEN nextBuffer_' = newBuffer2 /\ newBuffer2' = Null
     ELSE UNCHANGED <<nextBuffer_, newBuffer2>>
  /\ written' = 0
  /\ UNCHANGED <<running_, latch_, owner, stopAt, log, output, dropped>>

-----------------------------------------------------------------------------
(***************************************************************************)
(* Writing the batch, outside the critical section.                        *)
(***************************************************************************)
Notice == 0    \* stands in file for the line "Dropped log messages at ..."

FirstOne(bs) == SubSeq(bs, 1, 1)    \* fault

\* erase(begin() + 2, end()), and resize(2) on more than two buffers.
FirstTwo(bs) == SubSeq(bs, 1, IF Len(bs) < 2 THEN Len(bs) ELSE 2)

LinesOf(bs) == UNION {Range(bs[i].lines) : i \in DOMAIN bs}

TrimBatch ==    \* fault: resize(2) before the write loop
  /\ Len(buffersToWrite) <= BacklogLimit
  /\ ThreadGoes("trimming", "writing")
  /\ buffersToWrite' = FirstTwo(buffersToWrite)
  /\ UNCHANGED <<running_, latch_, owner, stopAt, frontEnd, spares, written, output, dropped>>

KeepBatch ==
  /\ Len(buffersToWrite) <= BacklogLimit
  /\ ThreadGoes("trimming", "writing")
  /\ UNCHANGED <<running_, latch_, owner, stopAt, data>>

DropWithoutNotice ==    \* fault: the notice goes to stderr only
  /\ Len(buffersToWrite) > BacklogLimit
  /\ ThreadGoes("trimming", "writing")
  /\ buffersToWrite' = FirstTwo(buffersToWrite)
  /\ dropped' = dropped \union (LinesOf(buffersToWrite) \ LinesOf(buffersToWrite'))
  /\ UNCHANGED <<running_, latch_, owner, stopAt, frontEnd, spares, written, output>>

DropBacklog ==
  /\ Len(buffersToWrite) > BacklogLimit
  /\ ThreadGoes("trimming", "writing")
  /\ file' = Append(file, Notice)
  /\ buffersToWrite' = FirstTwo(buffersToWrite)
  /\ dropped' = dropped \union (LinesOf(buffersToWrite) \ LinesOf(buffersToWrite'))
  /\ UNCHANGED <<running_, latch_, owner, stopAt, frontEnd, spares, written, synced>>

WriteBuffer ==
  /\ thread = "writing"
  /\ written < Len(buffersToWrite)
  /\ file' = file \o buffersToWrite[written + 1].lines
  /\ written' = written + 1
  /\ UNCHANGED <<control, frontEnd, spares, buffersToWrite, synced, dropped>>

\* The spares given to the front end are taken back from the end of what is
\* left of the batch, newBuffer1 first.
Recycle ==
  LET pool == FirstTwo(buffersToWrite)
      rest == IF newBuffer1 = Null THEN Len(pool) - 1 ELSE Len(pool)
  IN /\ written = Len(buffersToWrite)
     /\ ThreadGoes("writing", "flushing")
     /\ newBuffer1' = IF newBuffer1 = Null THEN Reset(pool[Len(pool)]) ELSE newBuffer1
     /\ newBuffer2' = IF newBuffer2 = Null THEN Reset(pool[rest]) ELSE newBuffer2
     /\ buffersToWrite' = <<>>
     /\ written' = 0
     /\ UNCHANGED <<running_, latch_, owner, stopAt, frontEnd, output, dropped>>

FlushForgotten ==    \* fault
  /\ ThreadGoes("flushing", "loop")
  /\ UNCHANGED <<running_, latch_, owner, stopAt, data>>

Flush ==
  /\ ThreadGoes("flushing", "loop")
  /\ synced' = Len(file)
  /\ UNCHANGED <<running_, latch_, owner, stopAt, frontEnd, spares, batch, file, dropped>>

\* The flush after the loop and the destruction of the local LogFile.
Close ==
  /\ ThreadGoes("closing", "exited")
  /\ synced' = Len(file)
  /\ UNCHANGED <<running_, latch_, owner, stopAt, frontEnd, spares, batch, file, dropped>>

-----------------------------------------------------------------------------
(***************************************************************************)
(* All is said and done, or start() hangs for want of a thread: the two    *)
(* ways in which everybody may come to rest.                               *)
(***************************************************************************)
StartHangs == owner = "awaitLatch" /\ thread = "none"

Terminated ==
  /\ Len(log) = MaxLines
  /\ owner = "stopped" \/ StartHangs
  /\ UNCHANGED vars

AppendLine == \E len \in LineLengths : AppendToCurrent(len) \/ AppendToFresh(len)

OwnerStep ==
  \/ CreateThread \/ CreateThreadFails \/ AwaitTid \/ AwaitLatch
  \/ StopNotify \/ StopJoin

ThreadStep ==
  \/ RunInThread \/ EnterThreadFunc
  \/ TestRunning \/ WaitForSeconds \/ WaitTimesOut \/ Swap
  \/ KeepBatch \/ DropBacklog \/ WriteBuffer \/ Recycle \/ Flush \/ Close

Next == AppendLine \/ Start \/ Stop \/ OwnerStep \/ ThreadStep \/ Terminated

Spec == Init /\ [][Next]_vars

\* The scheduler runs every thread that can run, and a timed wait ends.  That
\* anybody calls append(), start() or stop() is not assumed.
FairSpec == Spec /\ WF_vars(OwnerStep) /\ WF_vars(ThreadStep)

-----------------------------------------------------------------------------
(***************************************************************************)
(* Safety.                                                                 *)
(***************************************************************************)
\* Every variable has its type.
TypeOK ==
  /\ running_ \in BOOLEAN
  /\ latch_ \in {0, 1}
  /\ owner \in {"constructed", "creating", "awaitTid", "awaitLatch", "started",
                "notifying", "joining", "stopped"}
  /\ thread \in {"none", "spawned", "running", "loop", "locking", "waiting",
                 "woken", "trimming", "writing", "flushing", "closing", "exited"}
  /\ currentBuffer_ \in Buffer
  /\ nextBuffer_ \in Buffer \union {Null}
  /\ buffers_ \in Seq(Buffer)
  /\ newBuffer1 \in Buffer \union {Null}
  /\ newBuffer2 \in Buffer \union {Null}
  /\ buffersToWrite \in Seq(Buffer)
  /\ written \in 0 .. Len(buffersToWrite)
  /\ log \in Seq(LineLengths)
  /\ file \in Seq(Nat)
  /\ synced \in 0 .. Len(file)
  /\ dropped \subseteq Nat
  /\ stopAt \in 0 .. Len(log)

inLoop == {"loop", "locking", "waiting", "woken"}

\* The two pairs of buffers circulate without one ever going missing, which is
\* what the asserts of threadFunc() and the comment above the second of them
\* rely on: outside a round the logging thread owns two clean spares, the batch
\* is empty, and when it comes to recycle there are as many buffers in the batch
\* as spares to refill.
BufferSupply ==
  /\ thread \in inLoop \union {"flushing"} =>
       newBuffer1 = NewBuffer /\ newBuffer2 = NewBuffer
  /\ thread \notin {"trimming", "writing"} => buffersToWrite = <<>>
  /\ thread \in {"trimming", "writing"} =>
       /\ newBuffer1 = Null
       /\ newBuffer2 \in {Null, NewBuffer}
       /\ Len(buffersToWrite) >= (IF newBuffer2 = Null THEN 2 ELSE 1)
  /\ nextBuffer_ \in {Null, NewBuffer}
  /\ nextBuffer_ = Null => buffers_ # <<>>

\* The logging thread does not sleep on work: buffers_ was tested and the wait
\* entered under the mutex that append() holds when it fills a buffer and
\* notifies.
NoLostWakeup == thread = "waiting" => buffers_ = <<>>

\* The buffers whose lines are still to be written, oldest first.
Queue == SubSeq(buffersToWrite, written + 1, Len(buffersToWrite))
           \o buffers_ \o <<currentBuffer_>>

\* Lines appear in the file in the order in which append() took them and at
\* most once, across swaps, recycled buffers and dropped ones; what has not
\* been written yet comes after what has.
InOrder ==
  /\ \A i, j \in DOMAIN file : i < j /\ file[j] # Notice => file[i] < file[j]
  /\ \A i \in DOMAIN file, n \in LinesOf(Queue) : file[i] < n
  /\ \A b \in DOMAIN Queue : \A i, j \in DOMAIN Queue[b].lines :
       i < j => Queue[b].lines[i] < Queue[b].lines[j]
  /\ \A b, c \in DOMAIN Queue : b < c =>
       \A m \in Range(Queue[b].lines), n \in Range(Queue[c].lines) : m < n

\* The lines that a large buffer can hold at all.
Accepted == {n \in DOMAIN log : Fits(NewBuffer, log[n])}

\* No line is lost without being counted as dropped, none is invented, and a
\* dropped line does not come back: a buffer that is handed over, recycled or
\* erased takes exactly its own lines with it.
NoSilentLoss ==
  /\ (Range(file) \ {Notice}) \union LinesOf(Queue) \union dropped = Accepted
  /\ dropped \intersect (Range(file) \union LinesOf(Queue)) = {}

\* What an abort between two rounds can cost is only what the buffers hold:
\* whenever the logging thread may sleep, or has ended, all it wrote has left
\* the stdio buffer.
FlushedBetweenRounds ==
  thread \in inLoop \union {"closing", "exited"} => synced = Len(file)

\* stop() returns only when the logging thread writes no more, so that whoever
\* called it may destroy the logger or read the file.
NothingAfterStop == [][owner = "stopped" => UNCHANGED <<output, thread>>]_vars

-----------------------------------------------------------------------------
(***************************************************************************)
(* Liveness.                                                               *)
(***************************************************************************)
OnDisk == {file[i] : i \in 1 .. synced}

\* Every line logged while the logger runs reaches the disk, though it alone
\* does not fill a buffer: unless it is dropped with a backlog, or stop() is
\* called first.
LinesReachDisk ==
  \A n \in 1 .. MaxLines :
    n \in Accepted /\ owner = "started"
      ~> n \in OnDisk \union dropped \/ owner # "started"

\* stop() returns, although it notifies without the mutex and the logging
\* thread may be between its test of running_ and its wait.
StopReturns == owner = "notifying" ~> owner = "stopped"

\* "The logging thread is responsible for writing the log data it receives
\* into the file" (AsyncLogging.h:23): what was logged before stop() was called
\* is in the file, or announced as dropped, when it returns.
StopDrains ==
  owner = "stopped" =>
    \A n \in Accepted : n <= stopAt => n \in Range(file) \union dropped

-----------------------------------------------------------------------------
(***************************************************************************)
(* Buffers, swaps and the condition variable are only a way to be a log    *)
(* pipeline: nothing of them shows in the file.                            *)
(***************************************************************************)
Pipeline == INSTANCE LogPipeline WITH
  Lengths <- LineLengths, Longest <- BufferSize - 1, closed <- thread = "exited"

\* What the business threads and the reader of the file can tell: AsyncLogging
\* implements LogPipeline.  Above all, the notice of a loss is in the file before any
\* line later than those that are missing.
ImplementsPipeline == Pipeline!Spec
=============================================================================
