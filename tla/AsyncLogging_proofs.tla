------------------------- MODULE AsyncLogging_proofs -------------------------
(***************************************************************************)
(* Proofs about AsyncLogging, for buffers of any size, lines of any        *)
(* lengths, any number of lines and any BacklogLimit from 2 up.            *)
(*                                                                         *)
(* TypeOK alone is not inductive: that Swap installs a buffer at all, and  *)
(* that Recycle finds one, depends on how the spares travel between the    *)
(* two sides.  BufferSupply says that; Handshake says what else both lean  *)
(* on, that the logging thread passes through the latch once and starts    *)
(* each round with nothing written.                                        *)
(*                                                                         *)
(* On this rests what is proved of the lines: their order, that each is    *)
(* accounted for, and that the logger implements LogPipeline.              *)
(***************************************************************************)
EXTENDS AsyncLogging, FiniteSetTheorems, WellFoundedInduction, TLAPS

-----------------------------------------------------------------------------
(***************************************************************************)
(* Numbers.                                                                *)
(***************************************************************************)
\* A set of numbers has a least element.
LEMMA Least ==
  ASSUME NEW S, S \subseteq Nat, S # {}
  PROVE  \E x \in S : \A y \in S : x <= y
<1>1. PICK x \in S : \A y \in S : ~ (<<y, x>> \in OpToRel(<, Nat))
  BY NatLessThanWellFounded, WFMin
<1>2. \A y \in S : ~ (y < x)
  BY <1>1 DEF OpToRel
<1> QED
  BY <1>2

-----------------------------------------------------------------------------
beforeLoop == {"none", "spawned", "running"}

Handshake ==
  /\ owner \in {"constructed", "creating"} => thread = "none"
  /\ thread \in beforeLoop => latch_ = 1
  /\ thread = "trimming" => written = 0

IInv == TypeOK /\ BufferSupply /\ Handshake

\* A new buffer, a buffer with one more line and a buffer after reset() are
\* buffers; reset() leaves nothing behind.
LEMMA BufferOps ==
  /\ NewBuffer \in Buffer
  /\ \A b \in Buffer : Reset(b) = NewBuffer
  /\ \A b \in Buffer, n \in Nat, len \in LineLengths : Put(b, n, len) \in Buffer
<1>1. NewBuffer \in Buffer
  BY DEF NewBuffer, Buffer
<1>2. ASSUME NEW b \in Buffer PROVE Reset(b) = NewBuffer
  BY DEF Reset, NewBuffer, Buffer
<1>3. ASSUME NEW b \in Buffer, NEW n \in Nat, NEW len \in LineLengths
      PROVE  Put(b, n, len) \in Buffer
  <2>1. len \in Nat
    BY BufferAssumption
  <2>2. Append(b.lines, n) \in Seq(Nat) /\ b.length + len \in Nat
    BY <2>1 DEF Buffer
  <2> QED
    BY <2>2 DEF Put, Buffer
<1> QED
  BY <1>1, <1>2, <1>3

\* FirstTwo keeps the first two buffers of a batch, or all of a shorter one.
LEMMA FirstTwoOf ==
  ASSUME NEW bs \in Seq(Buffer), bs # <<>>
  PROVE  /\ FirstTwo(bs) \in Seq(Buffer)
         /\ Len(FirstTwo(bs)) \in 1 .. 2
         /\ Len(bs) >= 2 => Len(FirstTwo(bs)) = 2
<1>1. CASE Len(bs) = 1
  <2>1. FirstTwo(bs) = SubSeq(bs, 1, 1)
    BY <1>1 DEF FirstTwo
  <2> QED
    BY <1>1, <2>1
<1>2. CASE Len(bs) >= 2
  BY <1>2 DEF FirstTwo
<1>3. \A n \in Nat : n # 0 => n = 1 \/ n >= 2
  OBVIOUS
<1>4. Len(bs) \in Nat /\ Len(bs) # 0
  OBVIOUS
<1>5. Len(bs) = 1 \/ Len(bs) >= 2
  BY <1>3, <1>4, Zenon
<1> QED
  BY <1>1, <1>2, <1>5

LEMMA InitInv == Init => IInv
<1> SUFFICES ASSUME Init PROVE IInv
  OBVIOUS
<1>1. TypeOK
  <2>1. <<>> \in Seq(Buffer) /\ <<>> \in Seq(LineLengths) /\ <<>> \in Seq(Nat)
        /\ Len(<<>>) = 0
    OBVIOUS
  <2>2. {} \subseteq Nat /\ 0 \in 0 .. 0
    OBVIOUS
  <2> QED
    BY <2>1, <2>2, BufferOps DEF Init, TypeOK
<1>2. BufferSupply
  BY BufferOps, NullAssumption DEF Init, BufferSupply, inLoop
<1>3. Handshake
  BY DEF Init, Handshake, beforeLoop
<1> QED
  BY <1>1, <1>2, <1>3 DEF IInv

\* What the grouped variables stand for, one by one.
LEMMA UnchangedFrontEnd ==
  ASSUME UNCHANGED frontEnd
  PROVE  /\ UNCHANGED currentBuffer_ /\ UNCHANGED nextBuffer_ /\ UNCHANGED buffers_
         /\ UNCHANGED log
BY DEF frontEnd

LEMMA UnchangedBack ==
  /\ UNCHANGED spares => UNCHANGED newBuffer1 /\ UNCHANGED newBuffer2
  /\ UNCHANGED batch => UNCHANGED buffersToWrite /\ UNCHANGED written
  /\ UNCHANGED output => UNCHANGED file /\ UNCHANGED synced
  /\ UNCHANGED control =>
       /\ UNCHANGED running_ /\ UNCHANGED latch_ /\ UNCHANGED owner /\ UNCHANGED thread
       /\ UNCHANGED stopAt
BY DEF spares, batch, output, control

LEMMA UnchangedData ==
  ASSUME UNCHANGED data
  PROVE  /\ UNCHANGED currentBuffer_ /\ UNCHANGED nextBuffer_ /\ UNCHANGED buffers_
         /\ UNCHANGED log /\ UNCHANGED newBuffer1 /\ UNCHANGED newBuffer2
         /\ UNCHANGED buffersToWrite /\ UNCHANGED written /\ UNCHANGED file
         /\ UNCHANGED synced /\ UNCHANGED dropped
BY UnchangedFrontEnd, UnchangedBack DEF data

LEMMA UnchangedVars ==
  ASSUME UNCHANGED vars
  PROVE  /\ UNCHANGED running_ /\ UNCHANGED latch_ /\ UNCHANGED owner
         /\ UNCHANGED thread /\ UNCHANGED stopAt /\ UNCHANGED data
BY UnchangedBack DEF vars, data

LEMMA AppendInv ==
  ASSUME IInv, NEW len \in LineLengths, AppendToCurrent(len) \/ AppendToFresh(len)
  PROVE  IInv'
<1> USE DEF IInv
<1>1. /\ Append(log, len) \in Seq(LineLengths)
      /\ Len(Append(log, len)) = Len(log) + 1
      /\ stopAt \in 0 .. Len(log) + 1
  BY DEF TypeOK
<1>2. CASE AppendToCurrent(len)
  <2>1. /\ currentBuffer_' \in Buffer /\ log' = Append(log, len)
        /\ UNCHANGED nextBuffer_ /\ UNCHANGED buffers_
        /\ UNCHANGED control /\ UNCHANGED spares /\ UNCHANGED batch
        /\ UNCHANGED output /\ UNCHANGED dropped
    BY <1>1, <1>2, BufferOps DEF AppendToCurrent, TypeOK
  <2>2. TypeOK'
    BY <1>1, <2>1, UnchangedBack DEF TypeOK
  <2>3. BufferSupply'
    BY <2>1, UnchangedBack DEF BufferSupply
  <2>4. Handshake'
    BY <2>1, UnchangedBack DEF Handshake
  <2> QED
    BY <2>2, <2>3, <2>4
<1>3. CASE AppendToFresh(len)
  <2>0. /\ log' = Append(log, len) /\ nextBuffer_' = Null
        /\ buffers_' = Append(buffers_, currentBuffer_)
        /\ \E b \in Buffer : currentBuffer_' = Put(b, Len(log'), len)
    BY <1>3, BufferOps DEF AppendToFresh, TypeOK
  <2>1. currentBuffer_' \in Buffer /\ buffers_' \in Seq(Buffer) /\ buffers_' # <<>>
    <3>1. Len(log') \in Nat
      BY <1>1, <2>0
    <3>2. currentBuffer_' \in Buffer
      BY <2>0, <3>1, BufferOps
    <3>3. buffers_ \in Seq(Buffer) /\ currentBuffer_ \in Buffer
      BY DEF TypeOK
    <3> QED
      BY <2>0, <3>2, <3>3
  <2>2. /\ thread' = thread \/ (thread = "waiting" /\ thread' = "woken")
        /\ UNCHANGED running_ /\ UNCHANGED latch_ /\ UNCHANGED owner /\ UNCHANGED stopAt
        /\ UNCHANGED spares /\ UNCHANGED batch /\ UNCHANGED output /\ UNCHANGED dropped
    BY <1>3 DEF AppendToFresh, Notified
  <2>3. TypeOK'
    BY <1>1, <2>0, <2>1, <2>2, UnchangedBack DEF TypeOK
  <2>4. BufferSupply'
    BY <2>0, <2>1, <2>2, UnchangedBack DEF BufferSupply, inLoop
  <2>5. Handshake'
    BY <2>2, UnchangedBack DEF Handshake, beforeLoop
  <2> QED
    BY <2>3, <2>4, <2>5
<1> QED
  BY <1>2, <1>3

\* The steps that only move the owner or the logging thread along.
LEMMA ControlInv ==
  ASSUME IInv, UNCHANGED data, running_' \in BOOLEAN, latch_' = latch_,
         stopAt' \in {stopAt, Len(log)},
         \/ /\ thread' = thread \/ (thread = "waiting" /\ thread' = "woken")
            /\ owner # "constructed" => owner' # "creating"
            /\ owner' \in {"creating", "awaitLatch", "started", "notifying", "joining",
                          "stopped"}
         \/ owner = "creating" /\ owner' = "awaitTid" /\ thread' = "spawned"
         \/ /\ owner' = owner
            /\ <<thread, thread'>> \in
                 {<<"spawned", "running">>, <<"loop", "locking">>, <<"loop", "closing">>,
                  <<"locking", "waiting">>, <<"waiting", "woken">>, <<"trimming", "writing">>}
  PROVE  IInv'
<1> USE DEF IInv
<1>1. TypeOK'
  <2>1. /\ owner' \in {"constructed", "creating", "awaitTid", "awaitLatch", "started",
                       "notifying", "joining", "stopped"}
        /\ thread' \in {"none", "spawned", "running", "loop", "locking", "waiting", "woken",
                        "trimming", "writing", "flushing", "closing", "exited"}
    BY DEF TypeOK
  <2>2. stopAt' \in 0 .. Len(log)
    BY DEF TypeOK
  <2> QED
    BY <2>1, <2>2, UnchangedData DEF TypeOK
<1>2. BufferSupply'
  BY UnchangedData DEF BufferSupply, Handshake, inLoop
<1>3. Handshake'
  BY UnchangedData DEF Handshake, BufferSupply, beforeLoop, inLoop
<1> QED
  BY <1>1, <1>2, <1>3

LEMMA OwnerInv ==
  ASSUME IInv, Start \/ Stop \/ OwnerStep
  PROVE  IInv'
<1> USE DEF OwnerGoes
<1>0. running_ \in BOOLEAN
  BY DEF IInv, TypeOK
<1>1. CASE Start \/ Stop
  BY <1>0, <1>1, ControlInv DEF Start, Stop
<1>2. CASE CreateThread \/ CreateThreadFails
  BY <1>0, <1>2, ControlInv DEF CreateThread, CreateThreadFails
<1>3. CASE AwaitTid \/ AwaitLatch
  BY <1>0, <1>3, ControlInv DEF AwaitTid, AwaitLatch
<1>4. CASE StopNotify \/ StopJoin
  BY <1>0, <1>4, ControlInv DEF StopNotify, StopJoin, Notified
<1> QED
  BY <1>1, <1>2, <1>3, <1>4 DEF OwnerStep

LEMMA SwapInv == ASSUME IInv, Swap PROVE IInv'
<1> USE DEF IInv
<1>1. thread \in {"woken", "locking"} /\ thread' = "trimming"
  BY DEF Swap
<1>2. newBuffer1 = NewBuffer /\ newBuffer2 = NewBuffer /\ buffersToWrite = <<>>
  BY <1>1 DEF BufferSupply, inLoop
<1>3. /\ buffersToWrite' \in Seq(Buffer)
      /\ Len(buffersToWrite') = Len(buffers_) + 1
  BY DEF Swap, TakenBatch, TypeOK
<1>4. NewBuffer # Null
  BY BufferOps, NullAssumption
<1>5. /\ buffers_' = <<>> /\ currentBuffer_' = NewBuffer /\ nextBuffer_' = NewBuffer
      /\ newBuffer1' = Null /\ newBuffer2' \in {Null, NewBuffer} /\ written' = 0
  BY <1>2 DEF Swap, BufferSupply
<1>6. newBuffer2' = Null => Len(buffersToWrite') >= 2
  <2>1. CASE nextBuffer_ = Null
    <3>1. Len(buffers_) >= 1
      BY <2>1 DEF BufferSupply, TypeOK
    <3> QED
      BY <1>3, <3>1
  <2>2. CASE nextBuffer_ # Null
    BY <1>2, <1>4, <2>2 DEF Swap
  <2> QED
    BY <2>1, <2>2
<1>7. /\ UNCHANGED running_ /\ UNCHANGED latch_ /\ UNCHANGED owner /\ UNCHANGED stopAt
      /\ UNCHANGED log /\ UNCHANGED output /\ UNCHANGED dropped
  BY DEF Swap
<1>8. TypeOK'
  BY <1>1, <1>3, <1>5, <1>7, BufferOps, UnchangedBack DEF TypeOK
<1>9. BufferSupply'
  BY <1>1, <1>3, <1>4, <1>5, <1>6 DEF BufferSupply, inLoop, TypeOK
<1>10. Handshake'
  BY <1>1, <1>5, <1>7 DEF Handshake, beforeLoop
<1> QED
  BY <1>8, <1>9, <1>10

LEMMA RecycleInv == ASSUME IInv, Recycle PROVE IInv'
<1> USE DEF IInv
<1> DEFINE pool == FirstTwo(buffersToWrite)
<1>1. thread = "writing" /\ thread' = "flushing"
  BY DEF Recycle, ThreadGoes
<1>2. /\ newBuffer1 = Null /\ newBuffer2 \in {Null, NewBuffer}
      /\ buffersToWrite \in Seq(Buffer) /\ buffersToWrite # <<>>
      /\ newBuffer2 = Null => Len(buffersToWrite) >= 2
  BY <1>1 DEF BufferSupply, TypeOK
<1>3. pool \in Seq(Buffer) /\ Len(pool) \in 1 .. 2 /\ (newBuffer2 = Null => Len(pool) = 2)
  BY <1>2, FirstTwoOf
<1>4. pool[Len(pool)] \in Buffer /\ (newBuffer2 = Null => pool[Len(pool) - 1] \in Buffer)
  BY <1>3
<1>5. newBuffer1' = NewBuffer /\ newBuffer2' = NewBuffer
  BY <1>2, <1>4, BufferOps DEF Recycle
<1>6. /\ buffersToWrite' = <<>> /\ written' = 0
      /\ UNCHANGED running_ /\ UNCHANGED latch_ /\ UNCHANGED owner /\ UNCHANGED stopAt
      /\ UNCHANGED frontEnd /\ UNCHANGED output /\ UNCHANGED dropped
  BY DEF Recycle
<1>7. TypeOK'
  BY <1>1, <1>5, <1>6, BufferOps, UnchangedBack, UnchangedFrontEnd DEF TypeOK
<1>8. BufferSupply'
  BY <1>1, <1>5, <1>6, UnchangedFrontEnd DEF BufferSupply, inLoop
<1>9. Handshake'
  BY <1>1, <1>6 DEF Handshake, beforeLoop
<1> QED
  BY <1>7, <1>8, <1>9

LEMMA WritingInv == ASSUME IInv, DropBacklog \/ WriteBuffer PROVE IInv'
<1> USE DEF IInv
<1>1. CASE DropBacklog
  <2>1. /\ thread = "trimming" /\ thread' = "writing"
        /\ UNCHANGED running_ /\ UNCHANGED latch_ /\ UNCHANGED owner /\ UNCHANGED stopAt
        /\ UNCHANGED frontEnd /\ UNCHANGED spares /\ UNCHANGED written /\ UNCHANGED synced
    BY <1>1 DEF DropBacklog, ThreadGoes
  <2>2. buffersToWrite \in Seq(Buffer) /\ Len(buffersToWrite) > 2
    BY <1>1, BufferAssumption DEF DropBacklog, TypeOK
  <2>3. buffersToWrite' \in Seq(Buffer) /\ Len(buffersToWrite') = 2
    BY <1>1, <2>2, FirstTwoOf DEF DropBacklog
  <2>4. file' \in Seq(Nat) /\ Len(file') = Len(file) + 1
    BY <1>1 DEF DropBacklog, Notice, TypeOK
  <2>5. dropped' \subseteq Nat
    <3>1. ASSUME NEW i \in DOMAIN buffersToWrite PROVE Range(buffersToWrite[i].lines) \subseteq Nat
      <4>1. buffersToWrite[i] \in Buffer
        BY <2>2
      <4>2. buffersToWrite[i].lines \in Seq(Nat)
        BY <4>1 DEF Buffer
      <4> QED
        BY <4>2 DEF Range
    <3>2. LinesOf(buffersToWrite) \subseteq Nat
      BY <3>1 DEF LinesOf
    <3> QED
      BY <1>1, <3>2 DEF DropBacklog, TypeOK
  <2>6. written = 0
    BY <2>1 DEF Handshake
  <2>7. TypeOK'
    BY <2>1, <2>3, <2>4, <2>5, <2>6, UnchangedBack, UnchangedFrontEnd DEF TypeOK
  <2>8. BufferSupply'
    BY <2>1, <2>3, UnchangedBack, UnchangedFrontEnd DEF BufferSupply, inLoop
  <2>9. Handshake'
    BY <2>1 DEF Handshake, beforeLoop
  <2> QED
    BY <2>7, <2>8, <2>9
<1>2. CASE WriteBuffer
  <2>1. /\ thread = "writing" /\ written < Len(buffersToWrite) /\ written' = written + 1
        /\ UNCHANGED control /\ UNCHANGED frontEnd /\ UNCHANGED spares
        /\ UNCHANGED buffersToWrite /\ UNCHANGED synced /\ UNCHANGED dropped
    BY <1>2 DEF WriteBuffer
  <2>2. buffersToWrite[written + 1] \in Buffer
    BY <2>1 DEF TypeOK
  <2>3. file' \in Seq(Nat) /\ Len(file') >= Len(file)
    <3> DEFINE s == buffersToWrite[written + 1].lines
    <3>1. s \in Seq(Nat)
      BY <2>2 DEF Buffer
    <3>2. file \in Seq(Nat) /\ file' = file \o s
      BY <1>2 DEF WriteBuffer, TypeOK
    <3> HIDE DEF s
    <3> QED
      BY <3>1, <3>2
  <2>4. TypeOK'
    BY <2>1, <2>3, UnchangedBack, UnchangedFrontEnd DEF TypeOK
  <2>5. BufferSupply'
    BY <2>1, UnchangedBack, UnchangedFrontEnd DEF BufferSupply
  <2>6. Handshake'
    BY <2>1, UnchangedBack DEF Handshake
  <2> QED
    BY <2>4, <2>5, <2>6
<1> QED
  BY <1>1, <1>2

LEMMA EnterInv == ASSUME IInv, EnterThreadFunc PROVE IInv'
<1> USE DEF IInv
<1>1. /\ thread = "running" /\ thread' = "loop" /\ latch_' = latch_ - 1
      /\ newBuffer1' = NewBuffer /\ newBuffer2' = NewBuffer
      /\ UNCHANGED running_ /\ UNCHANGED owner /\ UNCHANGED stopAt /\ UNCHANGED frontEnd
      /\ UNCHANGED batch /\ UNCHANGED output /\ UNCHANGED dropped
  BY DEF EnterThreadFunc, ThreadGoes
<1>2. latch_' = 0
  BY <1>1 DEF Handshake, beforeLoop
<1>3. TypeOK'
  BY <1>1, <1>2, BufferOps, UnchangedBack, UnchangedFrontEnd DEF TypeOK
<1>4. BufferSupply'
  BY <1>1, UnchangedBack, UnchangedFrontEnd DEF BufferSupply, inLoop
<1>5. Handshake'
  BY <1>1 DEF Handshake, beforeLoop
<1> QED
  BY <1>3, <1>4, <1>5

LEMMA FlushInv == ASSUME IInv, Flush \/ Close PROVE IInv'
<1> USE DEF IInv
<1>1. /\ <<thread, thread'>> \in {<<"flushing", "loop">>, <<"closing", "exited">>}
      /\ synced' = Len(file) /\ UNCHANGED file
      /\ UNCHANGED running_ /\ UNCHANGED latch_ /\ UNCHANGED owner /\ UNCHANGED stopAt
      /\ UNCHANGED frontEnd /\ UNCHANGED spares /\ UNCHANGED batch /\ UNCHANGED dropped
  BY DEF Flush, Close, ThreadGoes
<1>2. TypeOK'
  BY <1>1, UnchangedBack, UnchangedFrontEnd DEF TypeOK
<1>3. BufferSupply'
  BY <1>1, UnchangedBack, UnchangedFrontEnd DEF BufferSupply, inLoop
<1>4. Handshake'
  BY <1>1, UnchangedBack DEF Handshake, beforeLoop
<1> QED
  BY <1>2, <1>3, <1>4

LEMMA ThreadInv == ASSUME IInv, ThreadStep PROVE IInv'
<1>0. running_ \in BOOLEAN
  BY DEF IInv, TypeOK
<1>1. CASE RunInThread \/ TestRunning \/ WaitForSeconds \/ WaitTimesOut \/ KeepBatch
  BY <1>0, <1>1, ControlInv
     DEF RunInThread, TestRunning, WaitForSeconds, WaitTimesOut, KeepBatch, ThreadGoes
<1>2. CASE EnterThreadFunc
  BY <1>2, EnterInv
<1>3. CASE Swap
  BY <1>3, SwapInv
<1>4. CASE DropBacklog \/ WriteBuffer
  BY <1>4, WritingInv
<1>5. CASE Recycle
  BY <1>5, RecycleInv
<1>6. CASE Flush \/ Close
  BY <1>6, FlushInv
<1> QED
  BY <1>1, <1>2, <1>3, <1>4, <1>5, <1>6 DEF ThreadStep

LEMMA Inductive == IInv /\ [Next]_vars => IInv'
<1> SUFFICES ASSUME IInv, [Next]_vars PROVE IInv'
  OBVIOUS
<1>1. CASE AppendLine
  BY <1>1, AppendInv DEF AppendLine
<1>2. CASE Start \/ Stop \/ OwnerStep
  BY <1>2, OwnerInv
<1>3. CASE ThreadStep
  BY <1>3, ThreadInv
<1>4. CASE UNCHANGED vars
  <2>1. TypeOK'
    BY <1>4, UnchangedVars, UnchangedData DEF IInv, TypeOK
  <2>2. BufferSupply'
    BY <1>4, UnchangedVars, UnchangedData DEF IInv, BufferSupply
  <2>3. Handshake'
    BY <1>4, UnchangedVars, UnchangedData DEF IInv, Handshake
  <2> QED
    BY <2>1, <2>2, <2>3 DEF IInv
<1> QED
  BY <1>1, <1>2, <1>3, <1>4 DEF Next, Terminated

LEMMA Invariance == Spec => []IInv
<1>1. IInv /\ [Next]_vars => IInv'
  BY Inductive
<1> QED
  BY InitInv, <1>1, PTL DEF Spec

\* Every variable of the logger always has its type: above all, append() always
\* finds a buffer in currentBuffer_.
THEOREM TypeCorrect == Spec => []TypeOK
<1>1. IInv => TypeOK
  BY DEF IInv
<1> QED
  BY Invariance, <1>1, PTL

\* The asserts of threadFunc() hold: the batch is never empty, and it has a
\* buffer for each spare that the front end took.
THEOREM SupplyCorrect == Spec => []BufferSupply
<1>1. IInv => BufferSupply
  BY DEF IInv
<1> QED
  BY Invariance, <1>1, PTL

-----------------------------------------------------------------------------
(***************************************************************************)
(* The wait, the flush and the end.  Each needs to know of a step only     *)
(* where it takes the logging thread and what it does to a few variables.  *)
(***************************************************************************)
\* append() fills a buffer and wakes the logging thread in one critical
\* section, and the thread finds no buffer and falls asleep in one.
THEOREM NoWakeupLost == Spec => []NoLostWakeup
<1>1. Init => NoLostWakeup
  BY DEF Init, NoLostWakeup
<1>2. ASSUME NoLostWakeup, [Next]_vars PROVE NoLostWakeup'
  <2> SUFFICES (thread' # "waiting") \/ (thread = "waiting" /\ buffers_' = buffers_)
                \/ buffers_' = <<>>
    BY <1>2 DEF NoLostWakeup
  <2> USE DEF ThreadGoes, OwnerGoes, Notified
  <2>1. CASE AppendLine
    <3>1. ASSUME NEW len \in LineLengths, AppendToCurrent(len)
          PROVE  thread' = thread /\ buffers_' = buffers_
      BY <3>1, UnchangedBack DEF AppendToCurrent
    <3>2. ASSUME NEW len \in LineLengths, AppendToFresh(len) PROVE thread' # "waiting"
      BY <3>2 DEF AppendToFresh
    <3> QED
      BY <2>1, <3>1, <3>2 DEF AppendLine
  <2>2. CASE Start \/ Stop \/ OwnerStep
    <3>1. thread' = thread \/ thread' \in {"spawned", "woken"}
      BY <2>2 DEF Start, Stop, OwnerStep, CreateThread,
         CreateThreadFails, AwaitTid, AwaitLatch, StopNotify, StopJoin
    <3>2. UNCHANGED data
      BY <2>2 DEF Start, Stop, OwnerStep, CreateThread,
         CreateThreadFails, AwaitTid, AwaitLatch, StopNotify, StopJoin
    <3> QED
      BY <3>1, <3>2, UnchangedData
  <2>3. CASE WaitForSeconds
    BY <2>3, UnchangedData DEF WaitForSeconds
  <2>4. CASE WriteBuffer
    BY <2>4, UnchangedBack DEF WriteBuffer
  <2>5. CASE ThreadStep /\ ~WaitForSeconds /\ ~WriteBuffer
    BY <2>5 DEF ThreadStep, RunInThread, EnterThreadFunc, TestRunning, WaitTimesOut,
       Swap, KeepBatch, DropBacklog, Recycle, Flush, Close
  <2>6. CASE UNCHANGED vars
    BY <2>6, UnchangedVars, UnchangedData
  <2> QED
    BY <1>2, <2>1, <2>2, <2>3, <2>4, <2>5, <2>6 DEF Next, Terminated
<1> QED
  BY <1>1, <1>2, PTL DEF Spec

\* FlushedBetweenRounds, and that nothing is written before the first round.
Flushed == thread \notin {"trimming", "writing", "flushing"} => synced = Len(file)

\* Between two rounds, and once it has ended, the logging thread has nothing left
\* in the stdio buffer.
THEOREM FlushesBetweenRounds == Spec => []FlushedBetweenRounds
<1>1. Init => Flushed
  BY DEF Init, Flushed
<1>2. ASSUME IInv, Flushed, [Next]_vars PROVE Flushed'
  <2> SUFFICES \/ thread' \in {"trimming", "writing", "flushing"}
               \/ UNCHANGED output /\ (thread' = thread
                                      \/ thread \notin {"trimming", "writing", "flushing"})
               \/ synced' = Len(file')
    BY <1>2, UnchangedBack DEF Flushed
  <2> USE DEF ThreadGoes, OwnerGoes, Notified
  <2>1. CASE AppendLine
    <3>1. ASSUME NEW len \in LineLengths, AppendToCurrent(len)
          PROVE  thread' = thread /\ UNCHANGED output
      BY <3>1, UnchangedBack DEF AppendToCurrent
    <3>2. ASSUME NEW len \in LineLengths, AppendToFresh(len)
          PROVE  (thread' = thread \/ thread = "waiting") /\ UNCHANGED output
      BY <3>2 DEF AppendToFresh
    <3> QED
      BY <2>1, <3>1, <3>2 DEF AppendLine
  <2>2. CASE Start \/ Stop \/ OwnerStep
    <3>1. owner = "creating" => thread = "none"
      BY <1>2 DEF IInv, Handshake
    <3>2. UNCHANGED data /\ (thread' = thread \/ thread \in {"none", "waiting"})
      BY <2>2, <3>1 DEF Start, Stop, OwnerStep, CreateThread,
         CreateThreadFails, AwaitTid, AwaitLatch, StopNotify, StopJoin
    <3> QED
      BY <3>2 DEF data
  <2>3. CASE RunInThread \/ TestRunning \/ WaitForSeconds \/ WaitTimesOut
    BY <2>3 DEF RunInThread, TestRunning, WaitForSeconds, WaitTimesOut, data
  <2>4. CASE EnterThreadFunc \/ Swap
    BY <2>4 DEF EnterThreadFunc, Swap, output
  <2>5. CASE KeepBatch \/ DropBacklog \/ Recycle
    BY <2>5 DEF KeepBatch, DropBacklog, Recycle
  <2>6. CASE WriteBuffer
    BY <2>6, UnchangedBack DEF WriteBuffer
  <2>7. CASE Flush \/ Close
    BY <2>7 DEF Flush, Close
  <2>8. CASE UNCHANGED vars
    BY <2>8, UnchangedVars DEF data
  <2> QED
    BY <1>2, <2>1, <2>2, <2>3, <2>4, <2>5, <2>6, <2>7, <2>8
       DEF Next, ThreadStep, Terminated
<1>3. Flushed => FlushedBetweenRounds
  BY DEF Flushed, FlushedBetweenRounds, inLoop
<1> QED
  BY Invariance, <1>1, <1>2, <1>3, PTL DEF Spec

Exited == owner = "stopped" => thread = "exited"

\* When stop() has returned the file stays as it is, whatever is still appended
\* to the buffers.
THEOREM StopIsFinal == Spec => NothingAfterStop
<1>1. Init => Exited
  BY DEF Init, Exited
<1>2. ASSUME IInv, Exited, [Next]_vars
      PROVE  Exited' /\ (owner = "stopped" => owner' = "stopped" /\ UNCHANGED output)
  <2> USE DEF Exited, ThreadGoes, OwnerGoes, Notified
  <2>1. CASE AppendLine
    <3>1. ASSUME NEW len \in LineLengths, AppendToCurrent(len)
          PROVE  thread' = thread /\ UNCHANGED <<owner, output>>
      BY <3>1, UnchangedBack DEF AppendToCurrent
    <3>2. ASSUME NEW len \in LineLengths, AppendToFresh(len)
          PROVE  (thread' = thread \/ thread = "waiting") /\ UNCHANGED <<owner, output>>
      BY <3>2 DEF AppendToFresh
    <3> QED
      BY <1>2, <2>1, <3>1, <3>2 DEF AppendLine
  <2>2. CASE Start \/ Stop \/ OwnerStep
    BY <1>2, <2>2 DEF data, Start, Stop, OwnerStep, CreateThread,
       CreateThreadFails, AwaitTid, AwaitLatch, StopNotify, StopJoin
  <2>3. CASE WriteBuffer
    BY <1>2, <2>3, UnchangedBack DEF WriteBuffer
  <2>4. CASE ThreadStep /\ ~WriteBuffer
    <3>1. thread # "exited" /\ owner' = owner
      BY <2>4 DEF ThreadStep, RunInThread, EnterThreadFunc, TestRunning, WaitForSeconds,
         WaitTimesOut, Swap, KeepBatch, DropBacklog, Recycle, Flush, Close
    <3> QED
      BY <1>2, <3>1
  <2>5. CASE UNCHANGED vars
    BY <1>2, <2>5, UnchangedVars DEF data
  <2> QED
    BY <1>2, <2>1, <2>2, <2>3, <2>4, <2>5 DEF Next, Terminated
<1>3. IInv /\ Exited /\ [Next]_vars
        => Exited' /\ [owner = "stopped" => UNCHANGED <<output, thread>>]_vars
  <2> SUFFICES ASSUME IInv, Exited, [Next]_vars
               PROVE  Exited' /\ (owner = "stopped" => UNCHANGED <<output, thread>>)
    OBVIOUS
  <2>1. Exited' /\ (owner = "stopped" => owner' = "stopped" /\ UNCHANGED output)
    BY <1>2
  <2> QED
    BY <2>1 DEF Exited
<1> QED
  BY Invariance, <1>1, <1>3, PTL DEF Spec, NothingAfterStop

-----------------------------------------------------------------------------
(***************************************************************************)
(* The lines in a sequence of buffers.                                     *)
(***************************************************************************)
Increasing(s) == \A i, j \in DOMAIN s : i < j => s[i] < s[j]

Before(ms, ns) == \A m \in ms, n \in ns : m < n

\* The last two conjuncts of InOrder, of any sequence of buffers.
Sorted(qs) ==
  /\ \A b \in DOMAIN qs : Increasing(qs[b].lines)
  /\ \A b, c \in DOMAIN qs : b < c => Before(Range(qs[b].lines), Range(qs[c].lines))

LEMMA BufferLines ==
  ASSUME NEW b \in Buffer
  PROVE  b.lines \in Seq(Nat) /\ b.length \in Nat /\ Range(b.lines) \subseteq Nat
<1>1. b.lines \in Seq(Nat) /\ b.length \in Nat
  BY DEF Buffer
<1> QED
  BY <1>1 DEF Range

\* What a sequence of buffers holds.
LEMMA LinesIn ==
  ASSUME NEW qs \in Seq(Buffer)
  PROVE  /\ \A n : n \in LinesOf(qs) <=> \E i \in 1 .. Len(qs) : n \in Range(qs[i].lines)
         /\ LinesOf(qs) \subseteq Nat
<1>1. \A n : n \in LinesOf(qs) <=> \E i \in 1 .. Len(qs) : n \in Range(qs[i].lines)
  <2>1. DOMAIN qs = 1 .. Len(qs)
    OBVIOUS
  <2> QED
    BY <2>1 DEF LinesOf
<1>2. ASSUME NEW i \in 1 .. Len(qs) PROVE Range(qs[i].lines) \subseteq Nat
  BY BufferLines
<1> QED
  BY <1>1, <1>2

LEMMA OneBuffer ==
  ASSUME NEW b \in Buffer
  PROVE  /\ <<b>> \in Seq(Buffer)
         /\ LinesOf(<<b>>) = Range(b.lines)
         /\ Sorted(<<b>>) <=> Increasing(b.lines)
<1>1. <<b>> \in Seq(Buffer) /\ DOMAIN <<b>> = {1} /\ <<b>>[1] = b
  OBVIOUS
<1>2. LinesOf(<<b>>) = Range(b.lines)
  BY <1>1 DEF LinesOf
<1>3. Sorted(<<b>>) <=> Increasing(b.lines)
  BY <1>1 DEF Sorted
<1> QED
  BY <1>1, <1>2, <1>3

LEMMA NoBuffer ==
  /\ <<>> \in Seq(Buffer) /\ LinesOf(<<>>) = {} /\ Sorted(<<>>)
  /\ Range(NewBuffer.lines) = {} /\ Increasing(NewBuffer.lines)
<1>1. DOMAIN <<>> = {} /\ <<>> \in Seq(Buffer)
  OBVIOUS
<1>2. NewBuffer.lines = <<>>
  BY DEF NewBuffer
<1> QED
  BY <1>1, <1>2 DEF LinesOf, Sorted, Range, Increasing

\* One sequence of buffers after the other.
LEMMA BothBuffers ==
  ASSUME NEW ps \in Seq(Buffer), NEW qs \in Seq(Buffer)
  PROVE  /\ ps \o qs \in Seq(Buffer)
         /\ LinesOf(ps \o qs) = LinesOf(ps) \union LinesOf(qs)
         /\ Sorted(ps \o qs) <=> /\ Sorted(ps) /\ Sorted(qs)
                                 /\ Before(LinesOf(ps), LinesOf(qs))
<1> DEFINE cs == ps \o qs
           m  == Len(ps)
           k  == Len(qs)
<1>1. /\ cs \in Seq(Buffer) /\ m \in Nat /\ k \in Nat
      /\ \A i \in 1 .. m : i \in 1 .. m + k /\ cs[i] = ps[i]
      /\ \A i \in 1 .. k : m + i \in 1 .. m + k /\ cs[m + i] = qs[i]
  <2>1. cs \in Seq(Buffer) /\ m \in Nat /\ k \in Nat
    OBVIOUS
  <2>2. ASSUME NEW i \in 1 .. m PROVE i \in 1 .. m + k /\ cs[i] = ps[i]
    OBVIOUS
  <2>3. ASSUME NEW i \in 1 .. k PROVE m + i \in 1 .. m + k /\ cs[m + i] = qs[i]
    OBVIOUS
  <2> QED
    BY <2>1, <2>2, <2>3
<1>2. DOMAIN cs = 1 .. m + k /\ DOMAIN ps = 1 .. m /\ DOMAIN qs = 1 .. k
  <2>1. Len(cs) = m + k
    OBVIOUS
  <2>2. DOMAIN cs = 1 .. Len(cs)
    BY <1>1
  <2> QED
    BY <2>1, <2>2
<1> HIDE DEF cs, m, k
<1>3. \A i \in 1 .. m + k : i \in 1 .. m \/ (i - m \in 1 .. k /\ m + (i - m) = i)
  BY <1>1
<1>4. LinesOf(cs) = LinesOf(ps) \union LinesOf(qs)
  <2>1. ASSUME NEW n \in LinesOf(cs) PROVE n \in LinesOf(ps) \union LinesOf(qs)
    <3>1. PICK i \in 1 .. m + k : n \in Range(cs[i].lines)
      BY <1>2 DEF LinesOf
    <3>2. CASE i \in 1 .. m
      BY <1>1, <1>2, <3>1, <3>2 DEF LinesOf
    <3>3. CASE i - m \in 1 .. k /\ m + (i - m) = i
      <4>1. cs[i] = qs[i - m]
        BY <1>1, <3>3
      <4> QED
        BY <1>2, <3>1, <3>3, <4>1 DEF LinesOf
    <3> QED
      BY <1>3, <3>2, <3>3
  <2>2. ASSUME NEW n \in LinesOf(ps) PROVE n \in LinesOf(cs)
    BY <1>1, <1>2 DEF LinesOf
  <2>3. ASSUME NEW n \in LinesOf(qs) PROVE n \in LinesOf(cs)
    <3>1. PICK i \in 1 .. k : n \in Range(qs[i].lines)
      BY <1>2 DEF LinesOf
    <3>2. n \in Range(cs[m + i].lines) /\ m + i \in 1 .. m + k
      BY <1>1, <3>1
    <3> QED
      BY <1>2, <3>2 DEF LinesOf
  <2> QED
    BY <2>1, <2>2, <2>3
<1>5. ASSUME Sorted(cs)
      PROVE  Sorted(ps) /\ Sorted(qs) /\ Before(LinesOf(ps), LinesOf(qs))
  <2>1. Sorted(ps)
    <3>1. \A b \in DOMAIN ps : Increasing(ps[b].lines)
      BY <1>1, <1>2, <1>5 DEF Sorted
    <3>2. ASSUME NEW b \in 1 .. m, NEW c \in 1 .. m, b < c
          PROVE  Before(Range(ps[b].lines), Range(ps[c].lines))
      BY <1>1, <1>2, <1>5, <3>2 DEF Sorted
    <3> QED
      BY <1>2, <3>1, <3>2 DEF Sorted
  <2>2. Sorted(qs)
    <3>1. ASSUME NEW b \in 1 .. k PROVE Increasing(qs[b].lines)
      <4>1. m + b \in DOMAIN cs /\ cs[m + b] = qs[b]
        BY <1>1, <1>2
      <4> QED
        BY <4>1, <1>5 DEF Sorted
    <3>2. ASSUME NEW b \in 1 .. k, NEW c \in 1 .. k, b < c
          PROVE  Before(Range(qs[b].lines), Range(qs[c].lines))
      <4>1. /\ m + b \in DOMAIN cs /\ cs[m + b] = qs[b]
            /\ m + c \in DOMAIN cs /\ cs[m + c] = qs[c] /\ m + b < m + c
        BY <1>1, <1>2, <3>2
      <4> QED
        BY <4>1, <1>5 DEF Sorted
    <3> QED
      BY <1>2, <3>1, <3>2 DEF Sorted
  <2>3. ASSUME NEW x \in LinesOf(ps), NEW y \in LinesOf(qs) PROVE x < y
    <3>1. PICK b \in 1 .. m : x \in Range(ps[b].lines)
      BY <1>2 DEF LinesOf
    <3>2. PICK c \in 1 .. k : y \in Range(qs[c].lines)
      BY <1>2 DEF LinesOf
    <3>3. /\ b \in DOMAIN cs /\ cs[b] = ps[b]
          /\ m + c \in DOMAIN cs /\ cs[m + c] = qs[c] /\ b < m + c
      <4>1. b <= m /\ 1 <= c
        OBVIOUS
      <4>2. b < m + c
        BY <1>1, <4>1
      <4> QED
        BY <1>1, <1>2, <4>2
    <3>4. Before(Range(ps[b].lines), Range(qs[c].lines))
      BY <3>3, <1>5 DEF Sorted
    <3> QED
      BY <3>1, <3>2, <3>4 DEF Before
  <2> QED
    BY <2>1, <2>2, <2>3 DEF Before
<1>6. ASSUME Sorted(ps), Sorted(qs), Before(LinesOf(ps), LinesOf(qs))
      PROVE  Sorted(cs)
  <2>1. ASSUME NEW b \in 1 .. m + k
        PROVE  \/ b \in DOMAIN ps /\ cs[b] = ps[b]
               \/ b - m \in DOMAIN qs /\ cs[b] = qs[b - m] /\ b > m
    <3>1. b - m \in 1 .. k /\ m + (b - m) = b => b > m
      BY <1>1
    <3> QED
      BY <1>1, <1>2, <1>3, <3>1
  <2>2. ASSUME NEW b \in 1 .. m + k PROVE Increasing(cs[b].lines)
    BY <2>1, <1>6 DEF Sorted
  <2>3. ASSUME NEW b \in 1 .. m + k, NEW c \in 1 .. m + k, b < c
        PROVE  Before(Range(cs[b].lines), Range(cs[c].lines))
    <3>1. CASE c \in DOMAIN ps /\ cs[c] = ps[c]
      <4>1. ~ (b > m)
        BY <1>1, <1>2, <2>3, <3>1
      <4>2. b \in DOMAIN ps /\ cs[b] = ps[b]
        BY <2>1, <4>1
      <4> QED
        BY <2>3, <3>1, <4>2, <1>6 DEF Sorted
    <3>2. CASE b \in DOMAIN ps /\ cs[b] = ps[b] /\ c - m \in DOMAIN qs /\ cs[c] = qs[c - m]
      <4>1. Range(ps[b].lines) \subseteq LinesOf(ps) /\ Range(qs[c - m].lines) \subseteq LinesOf(qs)
        BY <3>2 DEF LinesOf
      <4> QED
        BY <3>2, <4>1, <1>6 DEF Before
    <3>3. CASE /\ b - m \in DOMAIN qs /\ cs[b] = qs[b - m]
               /\ c - m \in DOMAIN qs /\ cs[c] = qs[c - m]
      <4>1. b - m < c - m
        BY <1>1, <2>3
      <4> QED
        BY <3>3, <4>1, <1>6 DEF Sorted
    <3> QED
      BY <2>1, <3>1, <3>2, <3>3
  <2> QED
    BY <1>2, <2>2, <2>3 DEF Sorted
<1> QED
  BY <1>1, <1>4, <1>5, <1>6 DEF cs

-----------------------------------------------------------------------------
(***************************************************************************)
(* InOrder and NoSilentLoss.  Between them they are inductive: what keeps  *)
(* the file in order is that the queue is, and what keeps the queue in     *)
(* order is that every line in it is one of log.                           *)
(***************************************************************************)
Rest == SubSeq(buffersToWrite, written + 1, Len(buffersToWrite))

FileInOrder(f) ==
  \A i, j \in DOMAIN f : i < j /\ f[j] # Notice => f[i] < f[j]

Order(f, q) == FileInOrder(f) /\ Before(Range(f), LinesOf(q)) /\ Sorted(q)

\* InOrder and NoSilentLoss speak of the queue only through its lines and Sorted.
LEMMA InOrderIs == (InOrder <=> Order(file, Queue)) /\ (InOrder' <=> Order(file', Queue'))
<1>1. ASSUME NEW f, NEW q
      PROVE  /\ Sorted(q) <=>
                  /\ \A b \in DOMAIN q : \A i, j \in DOMAIN q[b].lines :
                       i < j => q[b].lines[i] < q[b].lines[j]
                  /\ \A b, c \in DOMAIN q : b < c =>
                       \A m \in Range(q[b].lines), n \in Range(q[c].lines) : m < n
             /\ Before(Range(f), LinesOf(q)) <=>
                  \A i \in DOMAIN f, n \in LinesOf(q) : f[i] < n
  BY DEF Sorted, Increasing, Before, Range
<1>2. InOrder <=> Order(file, Queue)
  BY <1>1 DEF InOrder, FileInOrder, Order
<1>3. InOrder' <=> Order(file', Queue')
  BY <1>1 DEF InOrder, FileInOrder, Order
<1> QED
  BY <1>2, <1>3

\* The three places where a line may wait.
QueueOf(r, bs, b) == r \o bs \o <<b>>

LEMMA QueueIs ==
  ASSUME NEW r \in Seq(Buffer), NEW bs \in Seq(Buffer), NEW b \in Buffer
  PROVE  /\ QueueOf(r, bs, b) \in Seq(Buffer)
         /\ LinesOf(QueueOf(r, bs, b)) = LinesOf(r) \union LinesOf(bs) \union Range(b.lines)
         /\ Sorted(QueueOf(r, bs, b)) <=>
              /\ Sorted(r) /\ Sorted(bs) /\ Increasing(b.lines)
              /\ Before(LinesOf(r), LinesOf(bs))
              /\ Before(LinesOf(r) \union LinesOf(bs), Range(b.lines))
<1> DEFINE full == r \o bs
           one  == <<b>>
<1>1. /\ full \in Seq(Buffer) /\ LinesOf(full) = LinesOf(r) \union LinesOf(bs)
      /\ Sorted(full) <=> /\ Sorted(r) /\ Sorted(bs) /\ Before(LinesOf(r), LinesOf(bs))
  BY BothBuffers
<1>2. /\ one \in Seq(Buffer) /\ LinesOf(one) = Range(b.lines)
      /\ Sorted(one) <=> Increasing(b.lines)
  BY OneBuffer
<1>3. QueueOf(r, bs, b) = full \o one
  BY DEF QueueOf
<1> HIDE DEF full, one
<1>4. /\ full \o one \in Seq(Buffer)
      /\ LinesOf(full \o one) = LinesOf(full) \union LinesOf(one)
      /\ Sorted(full \o one) <=> /\ Sorted(full) /\ Sorted(one)
                                 /\ Before(LinesOf(full), LinesOf(one))
  BY <1>1, <1>2, BothBuffers
<1> QED
  BY <1>1, <1>2, <1>3, <1>4

\* What a queue q made of these parts holds, and when it is in order.
QueueHas(q, r, bs, b) ==
  /\ r \in Seq(Buffer) /\ bs \in Seq(Buffer) /\ b \in Buffer
  /\ LinesOf(q) = LinesOf(r) \union LinesOf(bs) \union Range(b.lines)
  /\ Sorted(q) <=> /\ Sorted(r) /\ Sorted(bs) /\ Increasing(b.lines)
                   /\ Before(LinesOf(r), LinesOf(bs))
                   /\ Before(LinesOf(r) \union LinesOf(bs), Range(b.lines))

LEMMA QueueNow ==
  /\ TypeOK => QueueHas(Queue, Rest, buffers_, currentBuffer_)
  /\ TypeOK' => QueueHas(Queue', Rest', buffers_', currentBuffer_')
<1>1. /\ Queue = QueueOf(Rest, buffers_, currentBuffer_)
      /\ Queue' = QueueOf(Rest', buffers_', currentBuffer_')
  BY DEF Queue, QueueOf, Rest
<1>2. ASSUME NEW bs \in Seq(Buffer), NEW n \in 0 .. Len(bs)
      PROVE  SubSeq(bs, n + 1, Len(bs)) \in Seq(Buffer)
  OBVIOUS
<1>3. TypeOK => Rest \in Seq(Buffer) /\ buffers_ \in Seq(Buffer) /\ currentBuffer_ \in Buffer
  BY <1>2 DEF TypeOK, Rest
<1>4. TypeOK' => /\ Rest' \in Seq(Buffer) /\ buffers_' \in Seq(Buffer)
                 /\ currentBuffer_' \in Buffer
  BY <1>2 DEF TypeOK, Rest
<1>5. ASSUME NEW q, NEW r \in Seq(Buffer), NEW bs \in Seq(Buffer), NEW b \in Buffer,
             q = QueueOf(r, bs, b)
      PROVE  QueueHas(q, r, bs, b)
  BY <1>5, QueueIs, ZenonT(30) DEF QueueHas
<1> QED
  BY <1>1, <1>3, <1>4, <1>5

\* A sequence with one more element, and one sequence after another.
LEMMA AppendIs ==
  ASSUME NEW s \in Seq(Nat), NEW n \in Nat
  PROVE  /\ Len(s) \in Nat /\ DOMAIN s = 1 .. Len(s) /\ DOMAIN Append(s, n) = 1 .. Len(s) + 1
         /\ \A i \in 1 .. Len(s) : Append(s, n)[i] = s[i]
         /\ Append(s, n)[Len(s) + 1] = n
         /\ Range(Append(s, n)) = Range(s) \union {n}
<1> DEFINE t == Append(s, n)
<1>1. /\ DOMAIN t = 1 .. Len(s) + 1 /\ t[Len(s) + 1] = n /\ Len(s) \in Nat
      /\ DOMAIN s = 1 .. Len(s) /\ \A i \in 1 .. Len(s) : t[i] = s[i]
  OBVIOUS
<1> HIDE DEF t
<1>2. Range(t) = Range(s) \union {n}
  BY <1>1 DEF Range
<1> QED
  BY <1>1, <1>2 DEF t

LEMMA ConcatIs ==
  ASSUME NEW s \in Seq(Nat), NEW t \in Seq(Nat)
  PROVE  /\ Range(s \o t) = Range(s) \union Range(t)
         /\ FileInOrder(s) /\ Increasing(t) /\ Before(Range(s), Range(t))
              => FileInOrder(s \o t)
<1> DEFINE u == s \o t
           m == Len(s)
           k == Len(t)
<1>1. /\ m \in Nat /\ k \in Nat /\ DOMAIN s = 1 .. m /\ DOMAIN t = 1 .. k
      /\ \A i \in 1 .. m : i \in 1 .. m + k /\ u[i] = s[i]
      /\ \A i \in 1 .. k : m + i \in 1 .. m + k /\ u[m + i] = t[i]
  <2>1. m \in Nat /\ k \in Nat /\ DOMAIN s = 1 .. m /\ DOMAIN t = 1 .. k
    OBVIOUS
  <2>2. ASSUME NEW i \in 1 .. m PROVE i \in 1 .. m + k /\ u[i] = s[i]
    OBVIOUS
  <2>3. ASSUME NEW i \in 1 .. k PROVE m + i \in 1 .. m + k /\ u[m + i] = t[i]
    OBVIOUS
  <2> QED
    BY <2>1, <2>2, <2>3
<1>2. DOMAIN u = 1 .. m + k
  <2>1. u \in Seq(Nat) /\ Len(u) = m + k
    OBVIOUS
  <2>2. DOMAIN u = 1 .. Len(u)
    BY <2>1
  <2> QED
    BY <2>1, <2>2
<1> HIDE DEF u, m, k
<1>3. ASSUME NEW i \in 1 .. m + k
      PROVE  \/ i \in 1 .. m /\ u[i] = s[i]
             \/ i > m /\ i - m \in 1 .. k /\ u[i] = t[i - m]
  <2>1. i \in 1 .. m \/ (i > m /\ i - m \in 1 .. k /\ m + (i - m) = i)
    BY <1>1
  <2> QED
    BY <1>1, <2>1
<1>4. Range(u) = Range(s) \union Range(t)
  <2>1. ASSUME NEW x \in Range(u) PROVE x \in Range(s) \union Range(t)
    BY <1>1, <1>2, <1>3 DEF Range
  <2>2. ASSUME NEW x \in Range(s) PROVE x \in Range(u)
    BY <1>1, <1>2 DEF Range
  <2>3. ASSUME NEW x \in Range(t) PROVE x \in Range(u)
    <3>1. PICK i \in 1 .. k : x = t[i]
      BY <1>1 DEF Range
    <3>2. m + i \in 1 .. m + k /\ u[m + i] = x
      BY <1>1, <3>1
    <3> QED
      BY <1>2, <3>2 DEF Range
  <2> QED
    BY <2>1, <2>2, <2>3
<1>5. ASSUME FileInOrder(s), Increasing(t), Before(Range(s), Range(t))
      PROVE  FileInOrder(u)
  <2> SUFFICES ASSUME NEW i \in 1 .. m + k, NEW j \in 1 .. m + k, i < j, u[j] # Notice
               PROVE  u[i] < u[j]
    BY <1>2 DEF FileInOrder
  <2>1. CASE j \in 1 .. m /\ u[j] = s[j]
    <3>1. i \in 1 .. m /\ u[i] = s[i]
      BY <1>1, <2>1
    <3> QED
      BY <1>1, <1>5, <2>1, <3>1 DEF FileInOrder
  <2>2. CASE i \in 1 .. m /\ u[i] = s[i] /\ j - m \in 1 .. k /\ u[j] = t[j - m]
    <3>1. s[i] \in Range(s) /\ t[j - m] \in Range(t)
      BY <1>1, <2>2 DEF Range
    <3> QED
      BY <1>5, <2>2, <3>1 DEF Before
  <2>3. CASE /\ i - m \in 1 .. k /\ u[i] = t[i - m] /\ j - m \in 1 .. k /\ u[j] = t[j - m]
    <3>1. i - m < j - m
      BY <1>1
    <3> QED
      BY <1>1, <1>5, <2>3, <3>1 DEF Increasing
  <2> QED
    BY <1>3, <2>1, <2>2, <2>3
<1> QED
  BY <1>4, <1>5 DEF u

\* FixedBuffer::append(): the line is the last of the buffer, or it is not there.
LEMMA PutIs ==
  ASSUME NEW b \in Buffer, NEW n \in Nat, NEW len
  PROVE  /\ Fits(b, len) => /\ Range(Put(b, n, len).lines) = Range(b.lines) \union {n}
                            /\ Increasing(b.lines) /\ Before(Range(b.lines), {n})
                                 => Increasing(Put(b, n, len).lines)
         /\ ~Fits(b, len) => Put(b, n, len) = b
<1> DEFINE s == b.lines
           t == Append(s, n)
<1>1. s \in Seq(Nat)
  BY BufferLines
<1>2. Fits(b, len) => Put(b, n, len).lines = t
  BY DEF Put
<1>3. ~Fits(b, len) => Put(b, n, len) = b
  BY DEF Put
<1> HIDE DEF s
<1>4. /\ DOMAIN t = 1 .. Len(s) + 1 /\ t[Len(s) + 1] = n /\ Len(s) \in Nat
      /\ DOMAIN s = 1 .. Len(s) /\ \A i \in 1 .. Len(s) : t[i] = s[i]
      /\ Range(t) = Range(s) \union {n}
  BY <1>1, AppendIs
<1> HIDE DEF t
<1>6. ASSUME Increasing(s), Before(Range(s), {n})
      PROVE  Increasing(t)
  <2>1. \A i \in 1 .. Len(s) : s[i] < n
    BY <1>4, <1>6 DEF Before, Range
  <2>2. \A i, j \in 1 .. Len(s) : i < j => s[i] < s[j]
    BY <1>4, <1>6 DEF Increasing
  <2> QED
    BY <1>4, <2>1, <2>2 DEF Increasing
<1> QED
  BY <1>2, <1>3, <1>4, <1>6 DEF s

\* The lines passed to append() and, among them, those that fit into a buffer.
LEMMA AcceptedIs ==
  ASSUME TypeOK, NEW len \in LineLengths, log' = Append(log, len)
  PROVE  /\ Accepted \subseteq 1 .. Len(log) /\ Len(log) \in Nat /\ Len(log') = Len(log) + 1
         /\ Accepted' = Accepted \union (IF Fits(NewBuffer, len) THEN {Len(log')} ELSE {})
<1>1. /\ log \in Seq(LineLengths) /\ Len(log) \in Nat /\ DOMAIN log = 1 .. Len(log)
      /\ log' \in Seq(LineLengths) /\ Len(log') = Len(log) + 1
      /\ DOMAIN log' = 1 .. Len(log) + 1
      /\ log'[Len(log) + 1] = len /\ \A i \in 1 .. Len(log) : log'[i] = log[i]
  BY DEF TypeOK
<1>2. Accepted' = {n \in DOMAIN log' : Fits(NewBuffer, log'[n])}
  BY DEF Accepted, Fits, NewBuffer
<1> QED
  BY <1>1, <1>2 DEF Accepted

LEMMA AcceptedNow == TypeOK => Accepted \subseteq 1 .. Len(log)
BY DEF Accepted, TypeOK

\* A step that leaves the lines in the queue alone, and one that adds a line.
LEMMA QueueKept ==
  ASSUME InOrder, NoSilentLoss, UNCHANGED <<file, log, dropped>>,
         LinesOf(Queue') = LinesOf(Queue), Sorted(Queue')
  PROVE  InOrder' /\ NoSilentLoss'
<1>1. Order(file', Queue')
  BY InOrderIs DEF Order
<1>2. Accepted' = Accepted
  BY DEF Accepted, Fits, NewBuffer
<1> QED
  BY <1>1, <1>2, InOrderIs DEF NoSilentLoss

LEMMA QueueGrows ==
  ASSUME TypeOK, InOrder, NoSilentLoss, NEW len \in LineLengths,
         log' = Append(log, len), UNCHANGED <<file, dropped>>, Sorted(Queue'),
         LinesOf(Queue') = LinesOf(Queue) \union
                             (IF Fits(NewBuffer, len) THEN {Len(log')} ELSE {})
  PROVE  InOrder' /\ NoSilentLoss'
<1> DEFINE new == IF Fits(NewBuffer, len) THEN {Len(log')} ELSE {}
<1>1. /\ Accepted \subseteq 1 .. Len(log) /\ Len(log) \in Nat /\ Len(log') = Len(log) + 1
      /\ Accepted' = Accepted \union new
  BY AcceptedIs
<1>2. new \subseteq {Len(log) + 1}
  BY <1>1
<1>3. LinesOf(Queue') = LinesOf(Queue) \union new
  OBVIOUS
<1> HIDE DEF new
<1>4. Range(file) \ {Notice} \subseteq Accepted /\ dropped \subseteq Accepted
  BY DEF NoSilentLoss
<1>5. Before(Range(file'), LinesOf(Queue'))
  <2>1. ASSUME NEW m \in Range(file) PROVE m < Len(log) + 1
    <3>1. m = 0 \/ m \in 1 .. Len(log)
      BY <1>1, <1>4 DEF Notice
    <3> QED
      BY <1>1, <3>1
  <2>2. Before(Range(file), LinesOf(Queue))
    BY InOrderIs DEF Order
  <2> QED
    BY <1>2, <1>3, <2>1, <2>2 DEF Before
<1>6. InOrder'
  BY <1>5, InOrderIs DEF Order
<1>7. Len(log) + 1 \notin Accepted /\ Len(log) + 1 # Notice
  BY <1>1 DEF Notice
<1>8. dropped \intersect new = {}
  BY <1>2, <1>4, <1>7
<1>9. NoSilentLoss'
  BY <1>1, <1>3, <1>8 DEF NoSilentLoss
<1> QED
  BY <1>6, <1>9

InvNow == IInv /\ InOrder /\ NoSilentLoss

\* What is known of the queue before a step.
LEMMA QueueFacts ==
  ASSUME InvNow
  PROVE  /\ Rest \in Seq(Buffer) /\ buffers_ \in Seq(Buffer) /\ currentBuffer_ \in Buffer
         /\ LinesOf(Queue) = LinesOf(Rest) \union LinesOf(buffers_)
                               \union Range(currentBuffer_.lines)
         /\ Sorted(Rest) /\ Sorted(buffers_) /\ Increasing(currentBuffer_.lines)
         /\ Before(LinesOf(Rest), LinesOf(buffers_))
         /\ Before(LinesOf(Rest) \union LinesOf(buffers_), Range(currentBuffer_.lines))
         /\ LinesOf(Queue) \subseteq 1 .. Len(log)
<1>1. TypeOK /\ InOrder /\ NoSilentLoss
  BY DEF InvNow, IInv
<1>2. QueueHas(Queue, Rest, buffers_, currentBuffer_)
  BY <1>1, QueueNow
<1>3. Sorted(Queue)
  BY <1>1, InOrderIs DEF Order
<1>4. LinesOf(Queue) \subseteq 1 .. Len(log)
  BY <1>1 DEF NoSilentLoss, Accepted, TypeOK
<1> QED
  BY <1>2, <1>3, <1>4 DEF QueueHas

LEMMA AppendLines ==
  ASSUME InvNow, IInv', NEW len \in LineLengths,
         AppendToCurrent(len) \/ AppendToFresh(len)
  PROVE  InOrder' /\ NoSilentLoss'
<1> DEFINE n == Len(log')
<1>1. TypeOK /\ InOrder /\ NoSilentLoss /\ TypeOK' /\ log' = Append(log, len)
  BY DEF InvNow, IInv, AppendToCurrent, AppendToFresh
<1>2. /\ n \in Nat /\ Len(log) \in Nat /\ n = Len(log) + 1
  BY <1>1, AcceptedIs
<1>3. Before(LinesOf(Queue), {n})
  BY <1>2, QueueFacts DEF Before
<1>4. len \in Nat /\ BufferSize \in Nat
  BY BufferAssumption
<1>5. /\ QueueHas(Queue', Rest', buffers_', currentBuffer_')
      /\ buffers_ \in Seq(Buffer) /\ currentBuffer_ \in Buffer
  BY <1>1, QueueNow, QueueFacts
<1> HIDE DEF n
<1>6. CASE AppendToCurrent(len)
  <2>1. /\ UNCHANGED <<file, dropped, buffers_>> /\ Rest' = Rest
        /\ Fits(currentBuffer_, len) /\ currentBuffer_' = Put(currentBuffer_, n, len)
    BY <1>6, UnchangedBack DEF AppendToCurrent, Rest, n
  <2>2. Fits(NewBuffer, len)
    <3>1. currentBuffer_.length \in Nat
      BY <1>5, BufferLines
    <3> QED
      BY <1>4, <2>1, <3>1 DEF Fits, NewBuffer
  <2>3. /\ Range(currentBuffer_'.lines) = Range(currentBuffer_.lines) \union {n}
        /\ Increasing(currentBuffer_'.lines)
    <3>1. Before(Range(currentBuffer_.lines), {n}) /\ Increasing(currentBuffer_.lines)
      BY <1>3, QueueFacts DEF Before
    <3> QED
      BY <1>2, <1>5, <2>1, <3>1, PutIs
  <2>4. LinesOf(Queue') = LinesOf(Queue) \union {n}
    BY <1>5, <2>1, <2>3, QueueFacts DEF QueueHas
  <2>5. Sorted(Queue')
    <3>1. Before(LinesOf(Rest) \union LinesOf(buffers_), Range(currentBuffer_'.lines))
      BY <1>3, <2>3, QueueFacts DEF Before
    <3> QED
      BY <1>5, <2>1, <2>3, <3>1, QueueFacts DEF QueueHas
  <2> QED
    BY <1>1, <2>1, <2>2, <2>4, <2>5, QueueGrows DEF n
<1>7. CASE AppendToFresh(len)
  <2>1. nextBuffer_ \in {Null, NewBuffer}
    BY DEF InvNow, IInv, BufferSupply
  <2>2. /\ UNCHANGED <<file, dropped>> /\ Rest' = Rest
        /\ buffers_' = Append(buffers_, currentBuffer_)
        /\ currentBuffer_' = Put(NewBuffer, n, len)
    BY <1>7, <2>1, UnchangedBack DEF AppendToFresh, Rest, n
  <2> DEFINE new == IF Fits(NewBuffer, len) THEN {n} ELSE {}
  <2>3. Range(currentBuffer_'.lines) = new /\ Increasing(currentBuffer_'.lines)
    <3>1. Before(Range(NewBuffer.lines), {n})
      BY NoBuffer DEF Before
    <3>2. /\ Fits(NewBuffer, len) =>
               /\ Range(Put(NewBuffer, n, len).lines) = Range(NewBuffer.lines) \union {n}
               /\ Increasing(Put(NewBuffer, n, len).lines)
          /\ ~Fits(NewBuffer, len) => Put(NewBuffer, n, len) = NewBuffer
      BY <1>2, <3>1, NoBuffer, BufferOps, PutIs
    <3> QED
      BY <2>2, <3>2, NoBuffer
  <2> HIDE DEF new
  <2>4. buffers_' = buffers_ \o <<currentBuffer_>>
    BY <1>5, <2>2
  <2>5. /\ LinesOf(buffers_') = LinesOf(buffers_) \union Range(currentBuffer_.lines)
        /\ Sorted(buffers_')
    <3>1. /\ <<currentBuffer_>> \in Seq(Buffer)
          /\ LinesOf(<<currentBuffer_>>) = Range(currentBuffer_.lines)
          /\ Sorted(<<currentBuffer_>>)
      BY OneBuffer, QueueFacts
    <3>2. Before(LinesOf(buffers_), Range(currentBuffer_.lines))
      BY QueueFacts DEF Before
    <3> QED
      BY <2>4, <3>1, <3>2, BothBuffers, QueueFacts, ZenonT(30)
  <2>6. LinesOf(Queue') = LinesOf(Queue) \union new
    BY <1>5, <2>2, <2>3, <2>5, QueueFacts DEF QueueHas
  <2>7. Sorted(Queue')
    <3>1. Before(LinesOf(Rest), LinesOf(buffers_'))
      BY <2>5, QueueFacts DEF Before
    <3>2. Before(LinesOf(Rest) \union LinesOf(buffers_'), Range(currentBuffer_'.lines))
      <4>1. LinesOf(Rest) \union LinesOf(buffers_') \subseteq LinesOf(Queue)
        BY <2>5, QueueFacts
      <4> QED
        BY <1>3, <2>3, <4>1 DEF Before, new
    <3> QED
      BY <1>5, <2>2, <2>3, <2>5, <3>1, <3>2, QueueFacts DEF QueueHas
  <2> QED
    BY <1>1, <2>2, <2>6, <2>7, QueueGrows DEF n, new
<1> QED
  BY <1>6, <1>7

LEMMA SwapLines ==
  ASSUME InvNow, IInv', Swap
  PROVE  InOrder' /\ NoSilentLoss'
<1>1. thread \in {"woken", "locking"}
  BY DEF Swap
<1>2. newBuffer1 = NewBuffer /\ buffersToWrite = <<>> /\ written = 0
  BY <1>1, SMTT(30) DEF InvNow, IInv, BufferSupply, TypeOK, inLoop
<1>3. /\ buffersToWrite' = Append(buffers_, currentBuffer_) /\ written' = 0
      /\ buffers_' = <<>> /\ currentBuffer_' = NewBuffer
      /\ UNCHANGED <<file, log, dropped>>
  BY <1>2, UnchangedBack DEF Swap, TakenBatch
<1>4. TypeOK' /\ InOrder /\ NoSilentLoss
  BY DEF InvNow, IInv
<1>5. QueueHas(Queue', Rest', buffers_', currentBuffer_')
  BY <1>4, QueueNow
<1>6. Rest = <<>>
  BY <1>2 DEF Rest
<1>7. Rest' = buffers_ \o <<currentBuffer_>>
  <2>1. buffersToWrite' = buffers_ \o <<currentBuffer_>> /\ buffersToWrite' \in Seq(Buffer)
    BY <1>3, <1>4, QueueFacts DEF TypeOK
  <2>2. \A bs \in Seq(Buffer) : SubSeq(bs, 0 + 1, Len(bs)) = bs
    OBVIOUS
  <2> QED
    BY <1>3, <2>1, <2>2 DEF Rest
<1>8. LinesOf(Rest) = {}
  BY <1>6, NoBuffer
<1>9. LinesOf(Rest') = LinesOf(Queue) /\ Sorted(Rest')
  <2> DEFINE one == <<currentBuffer_>>
  <2>1. one \in Seq(Buffer) /\ LinesOf(one) = Range(currentBuffer_.lines) /\ Sorted(one)
    BY OneBuffer, QueueFacts
  <2>2. Before(LinesOf(buffers_), Range(currentBuffer_.lines))
    BY QueueFacts DEF Before
  <2>3. Rest' = buffers_ \o one
    BY <1>7
  <2> HIDE DEF one
  <2>4. /\ LinesOf(buffers_ \o one) = LinesOf(buffers_) \union LinesOf(one)
        /\ Sorted(buffers_ \o one)
    BY <2>1, <2>2, BothBuffers, QueueFacts
  <2> QED
    BY <1>8, <2>1, <2>3, <2>4, QueueFacts
<1>10. LinesOf(Queue') = LinesOf(Queue)
  BY <1>3, <1>5, <1>9, NoBuffer DEF QueueHas
<1>11. Sorted(Queue')
  <2>1. \A s : Before(s, {})
    BY DEF Before
  <2> QED
    BY <1>3, <1>5, <1>9, <2>1, NoBuffer DEF QueueHas
<1> QED
  BY <1>3, <1>4, <1>10, <1>11, QueueKept

\* erase() and resize() keep the two oldest buffers of the batch.
LEMMA TrimIs ==
  ASSUME NEW bs \in Seq(Buffer), Len(bs) > 2
  PROVE  /\ FirstTwo(bs) \in Seq(Buffer) /\ SubSeq(bs, 3, Len(bs)) \in Seq(Buffer)
         /\ bs = FirstTwo(bs) \o SubSeq(bs, 3, Len(bs))
<1>1. FirstTwo(bs) = SubSeq(bs, 1, 2)
  BY DEF FirstTwo
<1>2. bs = SubSeq(bs, 1, 2) \o SubSeq(bs, 3, Len(bs))
  OBVIOUS
<1>3. SubSeq(bs, 1, 2) \in Seq(Buffer) /\ SubSeq(bs, 3, Len(bs)) \in Seq(Buffer)
  OBVIOUS
<1> QED
  BY <1>1, <1>2, <1>3

LEMMA DropLines ==
  ASSUME InvNow, IInv', DropBacklog
  PROVE  InOrder' /\ NoSilentLoss'
<1> DEFINE cut == SubSeq(buffersToWrite, 3, Len(buffersToWrite))
<1>1. /\ TypeOK /\ TypeOK' /\ InOrder /\ NoSilentLoss /\ thread = "trimming" /\ written = 0
      /\ buffersToWrite \in Seq(Buffer) /\ file \in Seq(Nat)
  BY DEF InvNow, IInv, Handshake, TypeOK, DropBacklog, ThreadGoes
<1>2. /\ Len(buffersToWrite) > 2
      /\ written' = 0 /\ file' = Append(file, Notice)
      /\ buffersToWrite' = FirstTwo(buffersToWrite)
      /\ dropped' = dropped \union (LinesOf(buffersToWrite) \ LinesOf(buffersToWrite'))
      /\ UNCHANGED <<log, buffers_, currentBuffer_>>
  BY <1>1, BufferAssumption, UnchangedFrontEnd DEF DropBacklog
<1>3. \A bs \in Seq(Buffer) : SubSeq(bs, 0 + 1, Len(bs)) = bs
  OBVIOUS
<1>4. Rest = buffersToWrite /\ Rest' = buffersToWrite'
  BY <1>1, <1>2, <1>3 DEF Rest, TypeOK
<1>5. cut \in Seq(Buffer) /\ Rest' \in Seq(Buffer) /\ Rest = Rest' \o cut
  BY <1>1, <1>2, <1>4, TrimIs
<1> HIDE DEF cut
<1>6. /\ LinesOf(Rest) = LinesOf(Rest') \union LinesOf(cut)
      /\ Sorted(Rest') /\ Before(LinesOf(Rest'), LinesOf(cut))
  BY <1>5, BothBuffers, QueueFacts
<1>7. LinesOf(cut) \subseteq Nat /\ LinesOf(cut) \subseteq LinesOf(Queue)
  BY <1>5, <1>6, LinesIn, QueueFacts
<1>8. LinesOf(Rest') \intersect LinesOf(cut) = {}
  BY <1>6, <1>7 DEF Before
<1>9. dropped' = dropped \union LinesOf(cut)
  BY <1>2, <1>4, <1>6, <1>8
<1>10. QueueHas(Queue', Rest', buffers_, currentBuffer_)
  BY <1>1, <1>2, QueueNow
<1>11. LinesOf(Queue') = LinesOf(Rest') \union LinesOf(buffers_) \union Range(currentBuffer_.lines)
  BY <1>10 DEF QueueHas
<1>12. LinesOf(Queue') \subseteq LinesOf(Queue) /\ LinesOf(Queue) = LinesOf(Queue') \union LinesOf(cut)
  BY <1>6, <1>11, QueueFacts
<1>13. Sorted(Queue')
  <2>1. /\ Before(LinesOf(Rest'), LinesOf(buffers_))
        /\ Before(LinesOf(Rest') \union LinesOf(buffers_), Range(currentBuffer_.lines))
    BY <1>6, QueueFacts DEF Before
  <2> QED
    BY <1>6, <1>10, <2>1, QueueFacts DEF QueueHas
<1>14. Range(file') = Range(file) \union {Notice}
  BY <1>1, <1>2, AppendIs DEF Notice
<1>15. FileInOrder(file) /\ Before(Range(file), LinesOf(Queue))
  BY <1>1, InOrderIs DEF Order
<1>16. InOrder'
  <2>1. FileInOrder(file')
    <3>1. /\ DOMAIN file' = 1 .. Len(file) + 1 /\ DOMAIN file = 1 .. Len(file)
          /\ file'[Len(file) + 1] = Notice /\ Len(file) \in Nat
          /\ \A i \in 1 .. Len(file) : file'[i] = file[i]
      BY <1>1, <1>2
    <3>2. \A i \in 1 .. Len(file) + 1 : file'[i] # Notice => i \in 1 .. Len(file)
      BY <3>1
    <3>3. \A i \in 1 .. Len(file) + 1, j \in 1 .. Len(file) : i < j => i \in 1 .. Len(file)
      BY <3>1
    <3> QED
      BY <1>15, <3>1, <3>2, <3>3 DEF FileInOrder
  <2>2. \A n \in LinesOf(Queue) : 0 < n
    BY QueueFacts
  <2>3. Before(Range(file'), LinesOf(Queue'))
    BY <1>12, <1>14, <1>15, <2>2 DEF Before, Notice
  <2> QED
    BY <1>13, <2>1, <2>3, InOrderIs DEF Order
<1>17. Accepted' = Accepted
  BY <1>2 DEF Accepted, Fits, NewBuffer
<1>18. \A n \in LinesOf(cut) : n # Notice /\ n \notin Range(file) /\ n \notin LinesOf(Queue')
  <2>1. ASSUME NEW n \in LinesOf(cut) PROVE n # Notice /\ n \in Nat /\ n \in LinesOf(Queue)
    BY <1>7, QueueFacts DEF Notice
  <2>2. ASSUME NEW n \in LinesOf(cut) PROVE n \notin Range(file)
    BY <1>15, <2>1 DEF Before
  <2>3. ASSUME NEW n \in LinesOf(cut) PROVE n \notin LinesOf(buffers_)
    <3>1. Before(LinesOf(cut), LinesOf(buffers_))
      BY <1>6, QueueFacts DEF Before
    <3> QED
      BY <2>1, <3>1 DEF Before
  <2>4. ASSUME NEW n \in LinesOf(cut) PROVE n \notin Range(currentBuffer_.lines)
    <3>1. Before(LinesOf(cut), Range(currentBuffer_.lines))
      BY <1>6, QueueFacts DEF Before
    <3> QED
      BY <2>1, <3>1 DEF Before
  <2> QED
    BY <1>8, <1>11, <2>1, <2>2, <2>3, <2>4
<1>19. Notice \notin dropped
  BY <1>1, AcceptedNow DEF NoSilentLoss, Notice
<1>20. NoSilentLoss'
  <2>1. (Range(file') \ {Notice}) \union LinesOf(Queue') \union dropped' = Accepted'
    BY <1>1, <1>9, <1>12, <1>14, <1>17 DEF NoSilentLoss
  <2>2. dropped' \intersect (Range(file') \union LinesOf(Queue')) = {}
    BY <1>1, <1>9, <1>12, <1>14, <1>18, <1>19 DEF NoSilentLoss
  <2> QED
    BY <2>1, <2>2 DEF NoSilentLoss
<1> QED
  BY <1>16, <1>20

LEMMA WriteLines ==
  ASSUME InvNow, IInv', WriteBuffer
  PROVE  InOrder' /\ NoSilentLoss'
<1> DEFINE b   == buffersToWrite[written + 1]
           one == <<b>>
<1>1. /\ TypeOK /\ TypeOK' /\ InOrder /\ NoSilentLoss
      /\ buffersToWrite \in Seq(Buffer) /\ file \in Seq(Nat)
      /\ written \in Nat /\ written < Len(buffersToWrite)
      /\ written' = written + 1 /\ file' = file \o b.lines
      /\ UNCHANGED <<log, dropped, buffersToWrite, buffers_, currentBuffer_>>
  BY UnchangedFrontEnd DEF InvNow, IInv, TypeOK, WriteBuffer
<1>2. b \in Buffer /\ b.lines \in Seq(Nat)
  BY <1>1, BufferLines
<1>3. Rest = one \o Rest' /\ Rest' \in Seq(Buffer)
  <2>1. ASSUME NEW bs \in Seq(Buffer), NEW n \in Nat, n < Len(bs)
        PROVE  /\ SubSeq(bs, n + 1, Len(bs)) = <<bs[n + 1]>> \o SubSeq(bs, n + 1 + 1, Len(bs))
               /\ SubSeq(bs, n + 1 + 1, Len(bs)) \in Seq(Buffer)
    BY <2>1
  <2> QED
    BY <1>1, <2>1 DEF Rest
<1>4. one \in Seq(Buffer) /\ LinesOf(one) = Range(b.lines) /\ (Sorted(one) <=> Increasing(b.lines))
  BY <1>2, OneBuffer
<1> HIDE DEF one, b
<1>5. /\ LinesOf(Rest) = Range(b.lines) \union LinesOf(Rest')
      /\ Sorted(Rest') /\ Increasing(b.lines) /\ Before(Range(b.lines), LinesOf(Rest'))
  BY <1>3, <1>4, BothBuffers, QueueFacts
<1>6. QueueHas(Queue', Rest', buffers_, currentBuffer_)
  BY <1>1, QueueNow
<1>7. LinesOf(Queue) = Range(b.lines) \union LinesOf(Queue')
  BY <1>5, <1>6, QueueFacts DEF QueueHas
<1>8. Sorted(Queue')
  <2>1. /\ Before(LinesOf(Rest'), LinesOf(buffers_))
        /\ Before(LinesOf(Rest') \union LinesOf(buffers_), Range(currentBuffer_.lines))
    BY <1>5, QueueFacts DEF Before
  <2> QED
    BY <1>5, <1>6, <2>1, QueueFacts DEF QueueHas
<1>9. FileInOrder(file) /\ Before(Range(file), LinesOf(Queue))
  BY <1>1, InOrderIs DEF Order
<1>10. Range(file') = Range(file) \union Range(b.lines)
  BY <1>1, <1>2, ConcatIs
<1>11. InOrder'
  <2>1. FileInOrder(file')
    <3>1. Before(Range(file), Range(b.lines))
      BY <1>7, <1>9 DEF Before
    <3> QED
      BY <1>1, <1>2, <1>5, <1>9, <3>1, ConcatIs
  <2>2. Before(Range(b.lines), LinesOf(Queue'))
    <3>1. /\ Before(Range(b.lines), LinesOf(buffers_))
          /\ Before(Range(b.lines), Range(currentBuffer_.lines))
      BY <1>5, QueueFacts DEF Before
    <3> QED
      BY <1>5, <1>6, <3>1 DEF QueueHas, Before
  <2>3. Before(Range(file'), LinesOf(Queue'))
    BY <1>7, <1>9, <1>10, <2>2 DEF Before
  <2> QED
    BY <1>8, <2>1, <2>3, InOrderIs DEF Order
<1>12. Accepted' = Accepted
  BY <1>1 DEF Accepted, Fits, NewBuffer
<1>13. \A n \in Range(b.lines) : n # Notice
  BY <1>7, QueueFacts DEF Notice
<1>14. NoSilentLoss'
  BY <1>1, <1>7, <1>10, <1>12, <1>13 DEF NoSilentLoss
<1> QED
  BY <1>11, <1>14

LEMMA RecycleLines ==
  ASSUME InvNow, IInv', Recycle
  PROVE  InOrder' /\ NoSilentLoss'
<1>1. /\ TypeOK' /\ InOrder /\ NoSilentLoss /\ buffersToWrite \in Seq(Buffer)
      /\ written = Len(buffersToWrite) /\ written' = 0 /\ buffersToWrite' = <<>>
      /\ UNCHANGED <<file, log, dropped, buffers_, currentBuffer_>>
  BY UnchangedFrontEnd, UnchangedBack DEF InvNow, IInv, TypeOK, Recycle
<1>2. Rest = <<>> /\ Rest' = <<>>
  <2>1. \A bs \in Seq(Buffer) : SubSeq(bs, Len(bs) + 1, Len(bs)) = <<>>
    OBVIOUS
  <2>2. SubSeq(<<>>, 0 + 1, Len(<<>>)) = <<>>
    OBVIOUS
  <2> QED
    BY <1>1, <2>1, <2>2 DEF Rest
<1>3. QueueHas(Queue', Rest, buffers_, currentBuffer_)
  BY <1>1, <1>2, QueueNow
<1>4. LinesOf(Queue') = LinesOf(Queue) /\ Sorted(Queue')
  BY <1>3, QueueFacts DEF QueueHas
<1> QED
  BY <1>1, <1>4, QueueKept

\* The steps that touch neither the queue nor what was made of it.
LEMMA OtherLines ==
  ASSUME InOrder, NoSilentLoss, UNCHANGED <<frontEnd, batch, file, dropped>>
  PROVE  InOrder' /\ NoSilentLoss'
<1>1. /\ UNCHANGED <<file, log, dropped>> /\ Queue' = Queue
  BY UnchangedFrontEnd, UnchangedBack DEF Queue
<1>2. Sorted(Queue)
  BY InOrderIs DEF Order
<1>3. LinesOf(Queue') = LinesOf(Queue) /\ Sorted(Queue')
  BY <1>1, <1>2
<1> QED
  BY <1>1, <1>3, QueueKept

LEMMA LinesKept ==
  ASSUME InvNow, [Next]_vars
  PROVE  InvNow'
<1>1. IInv' /\ InOrder /\ NoSilentLoss
  BY Inductive DEF InvNow
<1> SUFFICES InOrder' /\ NoSilentLoss'
  BY <1>1 DEF InvNow
<1>2. CASE AppendLine
  BY <1>1, <1>2, AppendLines DEF AppendLine
<1>3. CASE Swap \/ DropBacklog \/ WriteBuffer \/ Recycle
  BY <1>1, <1>3, SwapLines, DropLines, WriteLines, RecycleLines
<1>4. CASE EnterThreadFunc \/ Flush \/ Close
  BY <1>1, <1>4, UnchangedBack, OtherLines DEF EnterThreadFunc, Flush, Close
<1>5. ASSUME UNCHANGED data
      PROVE  UNCHANGED <<frontEnd, batch, file, dropped>>
  BY <1>5, UnchangedBack DEF data
<1>6. CASE Start \/ Stop \/ OwnerStep
  <2>1. UNCHANGED data
    BY <1>6 DEF Start, Stop, OwnerStep, CreateThread, CreateThreadFails, AwaitTid, AwaitLatch,
       StopNotify, StopJoin
  <2> QED
    BY <1>1, <1>5, <2>1, OtherLines
<1>7. CASE RunInThread \/ TestRunning \/ WaitForSeconds \/ WaitTimesOut \/ KeepBatch
  <2>1. UNCHANGED data
    BY <1>7 DEF RunInThread, TestRunning, WaitForSeconds, WaitTimesOut, KeepBatch
  <2> QED
    BY <1>1, <1>5, <2>1, OtherLines
<1>8. CASE UNCHANGED vars
  BY <1>1, <1>5, <1>8, UnchangedVars, OtherLines
<1> QED
  BY <1>2, <1>3, <1>4, <1>6, <1>7, <1>8 DEF Next, ThreadStep, Terminated

LEMMA LinesInit == Init => InvNow
<1> SUFFICES ASSUME Init PROVE InOrder /\ NoSilentLoss
  BY InitInv DEF InvNow
<1>1. /\ TypeOK /\ file = <<>> /\ log = <<>> /\ dropped = {} /\ buffers_ = <<>>
      /\ currentBuffer_ = NewBuffer /\ buffersToWrite = <<>> /\ written = 0
  BY InitInv DEF Init, IInv
<1>2. Rest = <<>>
  BY <1>1 DEF Rest
<1>3. QueueHas(Queue, <<>>, <<>>, NewBuffer)
  BY <1>1, <1>2, QueueNow
<1>4. \A s : Before(s, {}) /\ Before({}, s)
  BY DEF Before
<1>5. LinesOf(Queue) = {} /\ Sorted(Queue)
  BY <1>3, <1>4, NoBuffer DEF QueueHas
<1>6. Range(file) = {} /\ DOMAIN file = {} /\ DOMAIN log = {}
  BY <1>1 DEF Range
<1>7. InOrder
  BY <1>4, <1>5, <1>6, InOrderIs DEF Order, FileInOrder
<1>8. NoSilentLoss
  BY <1>1, <1>5, <1>6 DEF NoSilentLoss, Accepted
<1> QED
  BY <1>7, <1>8

LEMMA LinesInvariant == Spec => []InvNow
<1>1. InvNow /\ [Next]_vars => InvNow'
  BY LinesKept
<1> QED
  BY LinesInit, <1>1, PTL DEF Spec

\* Lines are written in the order in which append() took them and at most once.
THEOREM OrderCorrect == Spec => []InOrder
<1>1. InvNow => InOrder
  BY DEF InvNow
<1> QED
  BY LinesInvariant, <1>1, PTL

\* Every line that was accepted is in the file, in a buffer on its way there, or
\* among the announced losses, and never in two of these.
THEOREM LossCorrect == Spec => []NoSilentLoss
<1>1. InvNow => NoSilentLoss
  BY DEF InvNow
<1> QED
  BY LinesInvariant, <1>1, PTL

-----------------------------------------------------------------------------
(***************************************************************************)
(* The refinement of LogPipeline.                                          *)
(***************************************************************************)
LEMMA PipelineRange == \A s : Pipeline!Range(s) = Range(s)
BY DEF Pipeline!Range, Range

LEMMA InIncreasingOrderIs ==
  ASSUME NEW S
  PROVE  Pipeline!InIncreasingOrder(S) =
           [i \in 1 .. Cardinality(S) |->
              CHOOSE n \in S : Cardinality({m \in S : m < n}) = i - 1]
BY DEF Pipeline!InIncreasingOrder, Pipeline!Cardinality, Cardinality

\* The first k elements of an increasing sequence are k.
LEMMA CountFirst ==
  ASSUME NEW s \in Seq(Nat), Increasing(s), NEW k \in 0 .. Len(s)
  PROVE  Cardinality({s[i] : i \in 1 .. k}) = k
<1> DEFINE T == {s[i] : i \in 1 .. k}
           f == [i \in 1 .. k |-> s[i]]
<1>1. \A i, j \in 1 .. k : i < j => s[i] < s[j] /\ s[i] \in Nat /\ s[j] \in Nat
  BY DEF Increasing
<1>2. \A i, j \in 1 .. k : s[i] = s[j] => i = j
  <2>1. \A i, j \in 1 .. k : i < j \/ j < i \/ i = j
    OBVIOUS
  <2>2. \A m, n \in Nat : m < n => m # n
    OBVIOUS
  <2> QED
    BY <1>1, <2>1, <2>2
<1>3. f \in Injection(1 .. k, T)
  <2>1. f \in [1 .. k -> T]
    OBVIOUS
  <2>2. \A i, j \in 1 .. k : f[i] = f[j] => i = j
    BY <1>2
  <2> HIDE DEF f, T
  <2> QED
    BY <2>1, <2>2 DEF Injection, IsInjective
<1>4. f \in Surjection(1 .. k, T)
  BY DEF Surjection
<1>5. ExistsBijection(1 .. k, T)
  BY <1>3, <1>4 DEF ExistsBijection, Bijection
<1> QED
  BY <1>5, FS_CountingElements

\* An increasing sequence is what the abstract writer makes of its elements.
LEMMA IncreasingOrder ==
  ASSUME NEW s \in Seq(Nat), Increasing(s)
  PROVE  Pipeline!InIncreasingOrder(Range(s)) = s
<1> DEFINE S == Range(s)
           below(n) == {m \in S : m < n}
<1>1. /\ DOMAIN s = 1 .. Len(s) /\ Len(s) \in Nat
      /\ \A i \in 1 .. Len(s) : s[i] \in Nat /\ s[i] \in S
  BY DEF Range
<1>2. S = {s[i] : i \in 1 .. Len(s)}
  BY <1>1 DEF Range
<1>3. Cardinality(S) = Len(s)
  <2>1. Len(s) \in 0 .. Len(s)
    BY <1>1
  <2>2. Cardinality({s[i] : i \in 1 .. Len(s)}) = Len(s)
    BY <2>1, CountFirst
  <2> QED
    BY <1>2, <2>2
<1>4. ASSUME NEW i \in 1 .. Len(s)
      PROVE  Cardinality(below(s[i])) = i - 1
  <2>1. \A j \in 1 .. Len(s) : s[j] < s[i] <=> j \in 1 .. i - 1
    <3>1. \A j \in 1 .. Len(s) : j < i => s[j] < s[i]
      BY <1>1 DEF Increasing
    <3>2. \A j \in 1 .. Len(s) : i < j => s[i] < s[j]
      BY <1>1 DEF Increasing
    <3>3. \A j \in 1 .. Len(s) : ~ (s[i] < s[i]) /\ (s[i] < s[j] => ~ (s[j] < s[i]))
      BY <1>1
    <3>4. \A j \in 1 .. Len(s) : j \in 1 .. i - 1 <=> j < i
      BY <1>1
    <3>5. \A j \in 1 .. Len(s) : j < i \/ j = i \/ i < j
      BY <1>1
    <3> QED
      BY <3>1, <3>2, <3>3, <3>4, <3>5
  <2>2. \A j \in 1 .. i - 1 : j \in 1 .. Len(s)
    BY <1>1
  <2>3. below(s[i]) = {s[j] : j \in 1 .. i - 1}
    BY <1>2, <2>1, <2>2
  <2>4. i - 1 \in 0 .. Len(s)
    BY <1>1
  <2> QED
    BY <2>3, <2>4, CountFirst
<1> HIDE DEF S, below
<1>5. ASSUME NEW i \in 1 .. Len(s)
      PROVE  (CHOOSE n \in S : Cardinality(below(n)) = i - 1) = s[i]
  <2>1. s[i] \in S /\ Cardinality(below(s[i])) = i - 1
    BY <1>1, <1>4
  <2>2. ASSUME NEW n \in S, Cardinality(below(n)) = i - 1 PROVE n = s[i]
    <3>1. PICK j \in 1 .. Len(s) : n = s[j]
      BY <1>2
    <3>2. j - 1 = i - 1
      BY <1>4, <2>2, <3>1
    <3>3. j = i
      BY <3>2
    <3> QED
      BY <3>1, <3>3
  <2> QED
    BY <2>1, <2>2
<1>6. Pipeline!InIncreasingOrder(S)
        = [i \in 1 .. Len(s) |-> CHOOSE n \in S : Cardinality(below(n)) = i - 1]
  BY <1>3, InIncreasingOrderIs DEF below
<1>7. s = [i \in 1 .. Len(s) |-> s[i]]
  BY <1>1
<1> QED
  BY <1>5, <1>6, <1>7 DEF S

\* What the pipeline has pending is what the buffers hold.
LEMMA PendingIs ==
  ASSUME InvNow
  PROVE  Pipeline!Pending = LinesOf(Queue)
<1>1. TypeOK /\ InOrder /\ NoSilentLoss /\ file \in Seq(Nat)
  BY DEF InvNow, IInv, TypeOK
<1>2. Accepted = {n \in DOMAIN log : log[n] <= BufferSize - 1}
  <2>1. \A n \in DOMAIN log : log[n] \in Nat
    <3>1. log \in Seq(LineLengths)
      BY <1>1 DEF TypeOK
    <3>2. \A n \in DOMAIN log : log[n] \in LineLengths
      BY <3>1
    <3> QED
      BY <3>2, BufferAssumption
  <2>2. BufferSize \in Nat
    BY BufferAssumption
  <2>3. \A k \in Nat : BufferSize - 0 > k <=> k <= BufferSize - 1
    BY <2>2
  <2> QED
    BY <2>1, <2>3 DEF Accepted, Fits, NewBuffer
<1>3. Pipeline!Pending = Accepted \ (Range(file) \union dropped)
  BY <1>2, PipelineRange DEF Pipeline!Pending
<1>4. Before(Range(file), LinesOf(Queue))
  BY <1>1, InOrderIs DEF Order
<1>5. ASSUME NEW n \in LinesOf(Queue) PROVE n \notin Range(file) /\ n # Notice
  BY <1>4, QueueFacts DEF Before, Notice
<1>6. Notice \notin Accepted
  BY <1>1, AcceptedNow DEF Notice
<1> QED
  BY <1>1, <1>3, <1>5, <1>6 DEF NoSilentLoss

LEMMA WriteMaps ==
  ASSUME InvNow, WriteBuffer
  PROVE  [Pipeline!Next]_Pipeline!vars
<1> DEFINE b   == buffersToWrite[written + 1]
           one == <<b>>
           s   == b.lines
<1>1. /\ TypeOK /\ buffersToWrite \in Seq(Buffer) /\ written \in Nat
      /\ written < Len(buffersToWrite) /\ written' = written + 1 /\ file' = file \o s
      /\ file \in Seq(Nat) /\ thread = "writing" /\ thread' = "writing"
      /\ UNCHANGED <<log, dropped>>
  BY UnchangedFrontEnd, UnchangedBack DEF InvNow, IInv, TypeOK, WriteBuffer
<1>2. b \in Buffer /\ s \in Seq(Nat)
  BY <1>1, BufferLines
<1>3. \E later \in Seq(Buffer) : Rest = one \o later
  <2>1. ASSUME NEW bs \in Seq(Buffer), NEW n \in Nat, n < Len(bs)
        PROVE  /\ SubSeq(bs, n + 1, Len(bs)) = <<bs[n + 1]>> \o SubSeq(bs, n + 1 + 1, Len(bs))
               /\ SubSeq(bs, n + 1 + 1, Len(bs)) \in Seq(Buffer)
    BY <2>1
  <2> QED
    BY <1>1, <2>1 DEF Rest
<1>4. one \in Seq(Buffer) /\ LinesOf(one) = Range(s) /\ (Sorted(one) <=> Increasing(s))
  BY <1>2, OneBuffer
<1>5. PICK later \in Seq(Buffer) : Rest = one \o later
  BY <1>3
<1> HIDE DEF one, b, s
<1>6. /\ LinesOf(Rest) = Range(s) \union LinesOf(later)
      /\ Increasing(s) /\ Before(Range(s), LinesOf(later))
  BY <1>4, <1>5, BothBuffers, QueueFacts
<1> DEFINE after == LinesOf(later) \union LinesOf(buffers_) \union Range(currentBuffer_.lines)
<1>7. LinesOf(Queue) = Range(s) \union after
  BY <1>6, QueueFacts
<1>8. Before(Range(s), after)
  BY <1>6, QueueFacts DEF Before
<1>9. ~ (thread = "exited") /\ UNCHANGED (thread = "exited")
  BY <1>1
<1>10. CASE s = <<>>
  <2>1. \A f \in Seq(Nat) : f \o <<>> = f
    OBVIOUS
  <2>2. file' = file
    BY <1>1, <1>10, <2>1
  <2> QED
    BY <1>1, <1>9, <2>2 DEF Pipeline!vars
<1>11. CASE s # <<>>
  <2> DEFINE n == s[Len(s)]
  <2>1. Len(s) \in 1 .. Len(s) /\ DOMAIN s = 1 .. Len(s)
    BY <1>2, <1>11
  <2>2. n \in Range(s) /\ n \in DOMAIN log
    <3>1. n \in Range(s)
      BY <2>1 DEF Range
    <3>2. n \in 1 .. Len(log) /\ DOMAIN log = 1 .. Len(log)
      BY <1>1, <1>7, <3>1, QueueFacts DEF TypeOK
    <3> QED
      BY <3>1, <3>2
  <2>3. \A m \in Range(s) : m <= n
    <3>1. ASSUME NEW i \in 1 .. Len(s) PROVE s[i] <= s[Len(s)]
      <4>1. i < Len(s) \/ i = Len(s)
        BY <1>2
      <4>2. s[i] \in Nat /\ s[Len(s)] \in Nat
        BY <1>2, <2>1
      <4>3. i < Len(s) => s[i] < s[Len(s)]
        BY <1>6, <2>1 DEF Increasing
      <4> QED
        BY <4>1, <4>2, <4>3
    <3> QED
      BY <2>1, <3>1 DEF Range
  <2>4. \A m \in after : ~ (m <= n)
    <3>1. \A m \in after : n < m /\ m \in Nat
      BY <1>7, <1>8, <2>2, QueueFacts DEF Before
    <3>2. n \in Nat
      BY <1>2, <2>1
    <3> QED
      BY <3>1, <3>2
  <2> HIDE DEF n, after
  <2>5. {m \in Pipeline!Pending : m <= n} = Range(s)
    BY <1>7, <2>3, <2>4, PendingIs
  <2>6. Pipeline!InIncreasingOrder({m \in Pipeline!Pending : m <= n}) = s
    BY <1>2, <1>6, <2>5, IncreasingOrder
  <2>7. Pipeline!WriteUpTo(n)
    BY <1>1, <1>9, <2>6 DEF Pipeline!WriteUpTo
  <2> QED
    BY <2>2, <2>7 DEF Pipeline!Next
<1> QED
  BY <1>10, <1>11

LEMMA DropMaps ==
  ASSUME InvNow, IInv', DropBacklog
  PROVE  Pipeline!Next
<1> DEFINE cut   == SubSeq(buffersToWrite, 3, Len(buffersToWrite))
           gone  == LinesOf(cut)
           later == LinesOf(buffers_) \union Range(currentBuffer_.lines)
<1>1. /\ TypeOK /\ thread = "trimming" /\ thread' = "writing" /\ written = 0
      /\ buffersToWrite \in Seq(Buffer)
  BY DEF InvNow, IInv, Handshake, TypeOK, DropBacklog, ThreadGoes
<1>2. /\ Len(buffersToWrite) > 2 /\ file' = Append(file, Notice)
      /\ buffersToWrite' = FirstTwo(buffersToWrite)
      /\ dropped' = dropped \union (LinesOf(buffersToWrite) \ LinesOf(buffersToWrite'))
      /\ UNCHANGED log
  BY <1>1, BufferAssumption, UnchangedFrontEnd DEF DropBacklog
<1>3. \A bs \in Seq(Buffer) : SubSeq(bs, 0 + 1, Len(bs)) = bs
  OBVIOUS
<1>4. Rest = buffersToWrite
  BY <1>1, <1>3 DEF Rest
<1> DEFINE kept == FirstTwo(buffersToWrite)
<1>5. cut \in Seq(Buffer) /\ kept \in Seq(Buffer) /\ Rest = kept \o cut
  BY <1>1, <1>2, <1>4, TrimIs
<1> HIDE DEF cut, kept
<1>6. LinesOf(Rest) = LinesOf(kept) \union gone /\ Before(LinesOf(kept), gone)
  BY <1>5, BothBuffers, QueueFacts
<1>7. /\ LinesOf(Queue) = LinesOf(kept) \union gone \union later
      /\ Before(gone, later) /\ LinesOf(Queue) \subseteq 1 .. Len(log) /\ Len(log) \in Nat
  BY <1>1, <1>6, QueueFacts DEF Before, TypeOK
<1> HIDE DEF gone, later
<1>8. dropped' = dropped \union gone
  <2>1. LinesOf(kept) \intersect gone = {}
    BY <1>6, <1>7 DEF Before
  <2>2. LinesOf(buffersToWrite) = LinesOf(kept) \union gone
    BY <1>4, <1>6
  <2> QED
    BY <1>2, <2>1, <2>2 DEF kept
<1>9. \E first, last \in 1 .. Len(log) + 1 :
        \A m \in LinesOf(Queue) : m \in gone <=> first <= m /\ m <= last
  <2>1. CASE gone = {}
    <3>1. \A m \in LinesOf(Queue) : ~ (Len(log) + 1 <= m)
      BY <1>7
    <3>2. Len(log) + 1 \in 1 .. Len(log) + 1
      BY <1>7
    <3> QED
      BY <2>1, <3>1, <3>2
  <2>2. CASE gone # {}
    <3>1. gone \subseteq 1 .. Len(log) /\ gone \subseteq Nat /\ later \subseteq Nat
      BY <1>7
    <3>2. PICK first \in gone : \A m \in gone : first <= m
      BY <2>2, <3>1, Least
    <3>3. \A m \in LinesOf(kept) : ~ (first <= m)
      BY <1>6, <1>7, <3>1 DEF Before
    <3>4. \E last \in 1 .. Len(log) + 1 : /\ \A m \in gone : m <= last
                                          /\ \A m \in later : ~ (m <= last)
      <4>1. CASE later = {}
        <5>1. \A m \in gone : m <= Len(log) + 1
          BY <1>7, <3>1
        <5>2. Len(log) + 1 \in 1 .. Len(log) + 1
          BY <1>7
        <5> QED
          BY <4>1, <5>1, <5>2
      <4>2. CASE later # {}
        <5>1. PICK next \in later : \A m \in later : next <= m
          BY <3>1, <4>2, Least
        <5>2. \A m \in gone : m < next
          BY <1>7 DEF Before
        <5>3. first < next /\ first \in 1 .. Len(log) /\ next \in 1 .. Len(log)
          BY <1>7, <3>1, <5>2
        <5>4. next - 1 \in 1 .. Len(log) + 1
          BY <1>7, <5>3
        <5>5. \A m \in gone : m <= next - 1
          BY <3>1, <5>2, <5>3
        <5>6. \A m \in later : ~ (m <= next - 1)
          BY <3>1, <5>1
        <5> QED
          BY <5>4, <5>5, <5>6
      <4> QED
        BY <4>1, <4>2
    <3>5. PICK last \in 1 .. Len(log) + 1 : /\ \A m \in gone : m <= last
                                            /\ \A m \in later : ~ (m <= last)
      BY <3>4
    <3>6. first \in 1 .. Len(log) + 1
      BY <1>7, <3>1
    <3> QED
      BY <1>7, <3>2, <3>3, <3>5, <3>6
  <2> QED
    BY <2>1, <2>2
<1>10. PICK first \in 1 .. Len(log) + 1, last \in 1 .. Len(log) + 1 :
         \A m \in LinesOf(Queue) : m \in gone <=> first <= m /\ m <= last
  BY <1>9
<1>11. gone = {m \in Pipeline!Pending : first <= m /\ m <= last}
  BY <1>7, <1>10, PendingIs
<1>12. Pipeline!Drop(first, last)
  BY <1>1, <1>2, <1>8, <1>11 DEF Pipeline!Drop, Notice
<1> QED
  BY <1>12 DEF Pipeline!Next

\* A step that accepts no line and writes none is one of closing or of nothing.
LEMMA QuietMaps ==
  ASSUME UNCHANGED <<log, file, dropped>>,
         (thread' = "exited" <=> thread = "exited") \/ thread' = "exited"
  PROVE  [Pipeline!Next]_Pipeline!vars
<1>1. CASE thread' = "exited"
  BY <1>1 DEF Pipeline!Next, Pipeline!Close
<1>2. CASE thread' = "exited" <=> thread = "exited"
  BY <1>2 DEF Pipeline!vars
<1> QED
  BY <1>1, <1>2

LEMMA StepMaps ==
  ASSUME InvNow, [Next]_vars
  PROVE  [Pipeline!Next]_Pipeline!vars
<1> USE DEF ThreadGoes, OwnerGoes, Notified
<1>1. CASE AppendLine
  <2>1. PICK len \in LineLengths : AppendToCurrent(len) \/ AppendToFresh(len)
    BY <1>1 DEF AppendLine
  <2>2. /\ Len(log) < MaxLines /\ log' = Append(log, len)
        /\ UNCHANGED <<file, dropped>> /\ UNCHANGED (thread = "exited")
    BY <2>1, UnchangedBack DEF AppendToCurrent, AppendToFresh
  <2>3. Pipeline!Accept(len)
    BY <2>2 DEF Pipeline!Accept
  <2> QED
    BY <2>3 DEF Pipeline!Next
<1>2. CASE WriteBuffer
  BY <1>2, WriteMaps
<1>3. CASE DropBacklog
  BY <1>3, DropMaps, Inductive DEF InvNow
<1>4. CASE Start \/ Stop \/ OwnerStep
  <2>1. UNCHANGED data /\ (thread' = "exited" <=> thread = "exited")
    <3>1. owner = "creating" => thread = "none"
      BY DEF InvNow, IInv, Handshake
    <3> QED
      BY <1>4, <3>1 DEF Start, Stop, OwnerStep, CreateThread, CreateThreadFails, AwaitTid,
         AwaitLatch, StopNotify, StopJoin
  <2> QED
    BY <2>1, UnchangedData, QuietMaps
<1>5. CASE RunInThread \/ TestRunning \/ WaitForSeconds \/ WaitTimesOut \/ KeepBatch
  <2>1. UNCHANGED data /\ (thread' = "exited" <=> thread = "exited")
    BY <1>5 DEF RunInThread, TestRunning, WaitForSeconds, WaitTimesOut, KeepBatch
  <2> QED
    BY <2>1, UnchangedData, QuietMaps
<1>6. CASE EnterThreadFunc \/ Swap \/ Recycle \/ Flush \/ Close
  <2>1. UNCHANGED <<log, file, dropped>>
    BY <1>6, UnchangedFrontEnd, UnchangedBack DEF EnterThreadFunc, Swap, Recycle, Flush, Close
  <2>2. (thread' = "exited" <=> thread = "exited") \/ thread' = "exited"
    BY <1>6 DEF EnterThreadFunc, Swap, Recycle, Flush, Close
  <2> QED
    BY <2>1, <2>2, QuietMaps
<1>7. CASE UNCHANGED vars
  BY <1>7, UnchangedVars, UnchangedData, QuietMaps
<1> QED
  BY <1>1, <1>2, <1>3, <1>4, <1>5, <1>6, <1>7 DEF Next, ThreadStep, Terminated

\* AsyncLogging implements LogPipeline: of all the buffers, swaps and wakeups
\* nothing shows in the file but lines in order and announced gaps.
THEOREM PipelineImplemented == Spec => ImplementsPipeline
<1>1. Init => Pipeline!Init
  BY DEF Init, Pipeline!Init
<1>2. InvNow /\ [Next]_vars => [Pipeline!Next]_Pipeline!vars
  BY StepMaps
<1> QED
  BY LinesInvariant, <1>1, <1>2, PTL DEF Spec, ImplementsPipeline, Pipeline!Spec
=============================================================================
