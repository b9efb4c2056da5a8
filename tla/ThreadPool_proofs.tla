--------------------------- MODULE ThreadPool_proofs ---------------------------
(***************************************************************************)
(* Proofs about ThreadPool, for any number of workers, clients and tasks   *)
(* and any limit of the queue, threads that could not be created and       *)
(* spurious wake-ups included.                                             *)
(***************************************************************************)
EXTENDS ThreadPool, FiniteSetTheorems, TLAPS

Labels == {"none", "init", "failed", "testing", "taking", "waitNotEmpty", "wokenTake", "executing",
           "submitting", "waitNotFull", "wokenRun", "finishing", "exited", "idle"}

\* The places of run().
Submitting == {"submitting", "waitNotFull", "wokenRun"}

\* Clients are never where only workers get to, nor workers where only clients are.
PcInv ==
  /\ \A c \in Clients : pc[c] \in Submitting \union {"idle"}
  /\ \A w \in Workers : pc[w] # "idle"

\* Who has a task, to pass on or to execute.
HandsInv ==
  /\ \A c \in Callers : arg[c] # 0 <=> pc[c] \in Submitting
  /\ \A w \in Workers : task[w] # 0 <=> pc[w] \in Submitting \union {"executing", "finishing"}

OwnerInv ==
  /\ running_ <=> owner \in {"starting", "started"}
  /\ owner = "constructed" => threads_ = 0
  /\ owner \notin {"constructed", "starting"} => threads_ = NumThreads
  /\ owner \in {"constructed", "starting", "started"} => joined = 0
  /\ owner = "stopped" => joined = threads_
  /\ \A w \in Workers : /\ w > threads_ => pc[w] = "none"
                        /\ w <= joined => pc[w] = "exited"

\* Nobody waits once stop() has cleared running_.
WaitInv == \A c \in Callers : pc[c] \in {"waitNotEmpty", "waitNotFull"} => running_

-----------------------------------------------------------------------------
(***************************************************************************)
(* Operators and steps.                                                    *)
(***************************************************************************)
LEMMA CallersFinite ==
  /\ Clients \intersect Workers = {} /\ Workers \subseteq Callers /\ Clients \subseteq Callers
  /\ Workers \subseteq Nat \ {0}
  /\ IsFiniteSet(Callers) /\ IsFiniteSet(Workers)
  /\ \A label : IsFiniteSet(At(label))
<1>1. NumThreads \in Nat /\ Clients \intersect Nat = {} /\ IsFiniteSet(Clients)
  BY PoolAssumption
<1>2. Workers \subseteq Nat \ {0}
  BY <1>1 DEF Workers
<1>3. IsFiniteSet(Workers)
  BY <1>1, FS_Interval DEF Workers
<1>4. IsFiniteSet(Callers)
  BY <1>1, <1>3, FS_Union DEF Callers
<1>5. \A label : IsFiniteSet(At(label))
  BY <1>4, FS_Subset DEF At
<1> QED
  BY <1>1, <1>2, <1>3, <1>4, <1>5 DEF Callers

\* notify() wakes one waiter, if there is one.
LEMMA NotifiedOne ==
  ASSUME NEW pcs \in [Callers -> Labels], NEW waiting \in Labels, NEW woken \in Labels,
         NEW after \in Notified(pcs, waiting, woken)
  PROVE  /\ after \in [Callers -> Labels]
         /\ \/ after = pcs /\ \A c \in Callers : pcs[c] # waiting
            \/ \E x \in Callers : pcs[x] = waiting /\ after = [pcs EXCEPT ![x] = woken]
BY DEF Notified

LEMMA StepCases ==
  ASSUME [Next]_vars
  PROVE  \/ Start \/ Stop \/ CreateThread \/ StartReturns \/ Join \/ StopReturns
         \/ \E c \in Clients : ClientCallsRun(c)
         \/ \E c \in Callers : RunWaits(c) \/ RunGivesUp(c) \/ RunPushes(c) \/ SpuriousWakeUp(c)
         \/ \E w \in Workers :
              \/ InitCallback(w) \/ TestRunning(w) \/ TakeWaits(w) \/ TakeReturnsNothing(w)
              \/ TakeReturnsTask(w) \/ TaskCallsRun(w) \/ Finish(w)
         \/ UNCHANGED vars
BY CallersFinite DEF Next, OwnerStep, RunStep, WorkerStep, Terminated

-----------------------------------------------------------------------------
(***************************************************************************)
(* Types.                                                                  *)
(***************************************************************************)
\* A sequence of tasks stays one when more tasks are known.
LEMMA MoreTasks ==
  ASSUME NEW m \in Nat, NEW n \in Nat, m <= n, NEW s \in Seq(1 .. m)
  PROVE  s \in Seq(1 .. n)
<1>1. s = [i \in 1 .. Len(s) |-> s[i]] /\ Len(s) \in Nat /\ \A i \in 1 .. Len(s) : s[i] \in 1 .. n
  OBVIOUS
<1> QED
  BY <1>1

LEMMA TypeStart == Init => TypeOK /\ PcInv /\ HandsInv /\ OwnerInv /\ WaitInv
<1> SUFFICES ASSUME Init PROVE TypeOK /\ PcInv /\ HandsInv /\ OwnerInv /\ WaitInv
  OBVIOUS
<1>1. NumThreads \in Nat /\ MaxTasks \in Nat /\ MaxQueueSize \in Nat
  BY PoolAssumption
<1>2. \A c \in Callers : pc[c] \in {"none", "idle"} /\ (c \in Workers <=> pc[c] = "none")
  BY DEF Init
<1>3. TypeOK
  <2>1. queue_ \in Seq(Tasks) /\ pushed \in Seq(Tasks) /\ Len(queue_) = 0
    BY DEF Init
  <2>2. running_ \in BOOLEAN
    BY DEF Init
  <2> QED
    BY <1>1, <2>1, <2>2 DEF Init, TypeOK, Tasks
<1>4. PcInv /\ HandsInv /\ WaitInv
  BY <1>2, CallersFinite DEF Init, PcInv, HandsInv, WaitInv, Submitting
<1>5. OwnerInv
  BY <1>2, CallersFinite DEF Init, OwnerInv
<1> QED
  BY <1>3, <1>4, <1>5

\* The program counters after run() has pushed its task, and after take() has one.
LEMMA PushesPc ==
  ASSUME pc \in [Callers -> Labels], NEW c \in Callers, RunPushes(c)
  PROVE  LET next == [pc EXCEPT ![c] = AfterRun(c)] IN
         /\ next \in [Callers -> Labels] /\ pc' \in [Callers -> Labels]
         /\ \/ pc' = next /\ \A d \in Callers : next[d] # "waitNotEmpty"
            \/ \E x \in Callers : next[x] = "waitNotEmpty" /\ pc' = [next EXCEPT ![x] = "wokenTake"]
<1> DEFINE next == [pc EXCEPT ![c] = AfterRun(c)]
<1>1. next \in [Callers -> Labels]
  BY DEF AfterRun, Labels
<1>2. pc' \in Notified(next, "waitNotEmpty", "wokenTake")
  BY DEF RunPushes
<1>3. "waitNotEmpty" \in Labels /\ "wokenTake" \in Labels
  BY DEF Labels
<1> HIDE DEF next
<1>4. /\ pc' \in [Callers -> Labels]
      /\ \/ pc' = next /\ \A d \in Callers : next[d] # "waitNotEmpty"
         \/ \E x \in Callers : next[x] = "waitNotEmpty" /\ pc' = [next EXCEPT ![x] = "wokenTake"]
  BY <1>1, <1>2, <1>3, NotifiedOne
<1> QED
  BY <1>1, <1>4 DEF next

LEMMA TakesPc ==
  ASSUME pc \in [Callers -> Labels], NEW w \in Workers, TakeReturnsTask(w)
  PROVE  LET next == [pc EXCEPT ![w] = "executing"] IN
         /\ next \in [Callers -> Labels] /\ pc' \in [Callers -> Labels]
         /\ \/ pc' = next /\ (MaxQueueSize > 0 => \A d \in Callers : next[d] # "waitNotFull")
            \/ \E x \in Callers : next[x] = "waitNotFull" /\ pc' = [next EXCEPT ![x] = "wokenRun"]
<1> DEFINE next == [pc EXCEPT ![w] = "executing"]
<1>1. next \in [Callers -> Labels]
  BY CallersFinite DEF Labels
<1>2. pc' \in IF MaxQueueSize > 0 THEN Notified(next, "waitNotFull", "wokenRun") ELSE {next}
  BY DEF TakeReturnsTask
<1>3. "waitNotFull" \in Labels /\ "wokenRun" \in Labels
  BY DEF Labels
<1> HIDE DEF next
<1>4. /\ pc' \in [Callers -> Labels]
      /\ \/ pc' = next /\ (MaxQueueSize > 0 => \A d \in Callers : next[d] # "waitNotFull")
         \/ \E x \in Callers : next[x] = "waitNotFull" /\ pc' = [next EXCEPT ![x] = "wokenRun"]
  <2>1. CASE MaxQueueSize > 0
    BY <1>1, <1>2, <1>3, <2>1, NotifiedOne
  <2>2. CASE ~(MaxQueueSize > 0)
    BY <1>1, <1>2, <2>2
  <2> QED
    BY <2>1, <2>2
<1> QED
  BY <1>1, <1>4 DEF next

\* TypeOK without its parts about running_ and pc.
DataType ==
  /\ queue_ \in Seq(Tasks) /\ (MaxQueueSize > 0 => Len(queue_) <= MaxQueueSize)
  /\ threads_ \in 0 .. NumThreads
  /\ owner \in {"constructed", "starting", "started", "joining", "stopped", "undefined"}
  /\ joined \in 0 .. threads_
  /\ task \in [Workers -> {0} \union Tasks]
  /\ arg \in [Callers -> {0} \union Tasks]
  /\ calls \in 0 .. MaxTasks
  /\ pushed \in Seq(Tasks)
  /\ done \subseteq Tasks /\ rejected \subseteq Tasks
  /\ atStop \in Nat

LEMMA TypeParts == TypeOK <=> running_ \in BOOLEAN /\ pc \in [Callers -> Labels] /\ DataType
BY DEF TypeOK, DataType, Labels

LEMMA PcKept ==
  ASSUME pc \in [Callers -> Labels], [Next]_vars
  PROVE  pc' \in [Callers -> Labels]
<1>1. Workers \subseteq Callers /\ Clients \subseteq Callers
  BY CallersFinite
<1>2. CASE Start \/ StartReturns \/ Join \/ StopReturns \/ UNCHANGED vars
  BY <1>2 DEF Start, StartReturns, Join, StopReturns, vars
<1>3. CASE Stop
  BY <1>3 DEF Stop, WakeUp, Labels
<1>4. CASE CreateThread
  BY <1>4 DEF CreateThread, Labels
<1>5. ASSUME NEW c \in Clients, ClientCallsRun(c)
      PROVE  pc' \in [Callers -> Labels]
  BY <1>5 DEF ClientCallsRun, Labels
<1>6. ASSUME NEW c \in Callers, RunWaits(c) \/ RunGivesUp(c) \/ SpuriousWakeUp(c)
      PROVE  pc' \in [Callers -> Labels]
  BY <1>6 DEF RunWaits, RunGivesUp, SpuriousWakeUp, WakeUp, AfterRun, Labels
<1>7. ASSUME NEW c \in Callers, RunPushes(c)
      PROVE  pc' \in [Callers -> Labels]
  BY <1>7, PushesPc
<1>8. ASSUME NEW w \in Workers,
             \/ InitCallback(w) \/ TestRunning(w) \/ TakeWaits(w) \/ TakeReturnsNothing(w)
             \/ TaskCallsRun(w) \/ Finish(w)
      PROVE  pc' \in [Callers -> Labels]
  BY <1>8 DEF InitCallback, TestRunning, TakeWaits, TakeReturnsNothing, TaskCallsRun, Finish, Labels
<1>9. ASSUME NEW w \in Workers, TakeReturnsTask(w)
      PROVE  pc' \in [Callers -> Labels]
  BY <1>9, TakesPc
<1> QED
  BY <1>2, <1>3, <1>4, <1>5, <1>6, <1>7, <1>8, <1>9, StepCases

LEMMA DataKept ==
  ASSUME DataType, HandsInv, [Next]_vars
  PROVE  DataType'
<1>1. /\ NumThreads \in Nat /\ MaxTasks \in Nat /\ MaxQueueSize \in Nat
      /\ Workers = 1 .. NumThreads /\ Workers \subseteq Callers /\ Clients \subseteq Callers
  BY PoolAssumption, CallersFinite DEF Workers
<1>2. CASE Start \/ StartReturns \/ Join \/ StopReturns \/ CreateThread \/ Stop \/ UNCHANGED vars
  <2>1. UNCHANGED <<queue_, task, arg, calls, pushed, done, rejected>>
    BY <1>2 DEF Start, StartReturns, Join, StopReturns, CreateThread, Stop, vars, pool, history
  <2>2. threads_' \in 0 .. NumThreads /\ joined' \in 0 .. threads_' /\ atStop' \in Nat
        /\ owner' \in {"constructed", "starting", "started", "joining", "stopped", "undefined"}
    BY <1>1, <1>2 DEF DataType, Start, StartReturns, Join, StopReturns, CreateThread, Stop, vars,
                      pool, ownerAt, history
  <2> QED
    BY <2>1, <2>2 DEF DataType, Tasks
<1>3. ASSUME NEW c \in Clients, ClientCallsRun(c)
      PROVE  DataType'
  <2>1. /\ calls' = calls + 1 /\ calls' \in 0 .. MaxTasks /\ UNCHANGED <<queue_, task, pushed>>
        /\ UNCHANGED <<threads_, owner, joined, rejected, atStop>>
        /\ arg' \in [Callers -> {0} \union Tasks'] /\ done' \subseteq Tasks'
    <3>1. /\ calls' = calls + 1 /\ calls' \in 0 .. MaxTasks /\ UNCHANGED <<queue_, task, pushed>>
          /\ UNCHANGED <<threads_, owner, joined, rejected, atStop>>
          /\ Tasks \subseteq Tasks' /\ calls' \in Tasks'
      BY <1>1, <1>3 DEF DataType, Tasks, ClientCallsRun, pool, ownerAt
    <3>2. done' \in {done, done \union {calls'}} /\ arg' \in {arg, [arg EXCEPT ![c] = calls']}
      BY <1>3 DEF ClientCallsRun
    <3>3. arg \in [Callers -> {0} \union Tasks'] /\ done \subseteq Tasks'
      BY <3>1 DEF DataType
    <3> HIDE DEF Tasks
    <3> QED
      BY <1>1, <3>1, <3>2, <3>3
  <2>2. queue_' \in Seq(Tasks') /\ pushed' \in Seq(Tasks')
    BY <1>1, <2>1, MoreTasks DEF DataType, Tasks
  <2>3. task' \in [Workers -> {0} \union Tasks'] /\ rejected' \subseteq Tasks'
    BY <1>1, <2>1 DEF DataType, Tasks
  <2> QED
    BY <2>1, <2>2, <2>3 DEF DataType
<1>4. ASSUME NEW c \in Callers, RunWaits(c) \/ SpuriousWakeUp(c)
      PROVE  DataType'
  BY <1>4 DEF DataType, Tasks, RunWaits, SpuriousWakeUp, pool, ownerAt, history
<1>5. ASSUME NEW c \in Callers, RunGivesUp(c)
      PROVE  DataType'
  BY <1>5 DEF DataType, Tasks, RunGivesUp, InRun, HandsInv, Submitting, pool, ownerAt
<1>6. ASSUME NEW c \in Callers, RunPushes(c)
      PROVE  DataType'
  <2>1. /\ arg[c] \in Tasks /\ UNCHANGED <<task, calls, threads_, owner, joined, done, rejected, atStop>>
        /\ queue_' = Append(queue_, arg[c]) /\ pushed' = Append(pushed, arg[c])
        /\ arg' = [arg EXCEPT ![c] = 0] /\ ~IsFull
    BY <1>6 DEF DataType, RunPushes, InRun, HandsInv, Submitting, ownerAt
  <2>2. /\ queue_' \in Seq(Tasks) /\ pushed' \in Seq(Tasks) /\ arg' \in [Callers -> {0} \union Tasks]
        /\ Len(queue_') = Len(queue_) + 1 /\ Len(queue_) \in Nat
    BY <2>1 DEF DataType
  <2>3. MaxQueueSize > 0 => Len(queue_') <= MaxQueueSize
    BY <1>1, <2>1, <2>2 DEF IsFull
  <2> QED
    BY <2>1, <2>2, <2>3 DEF DataType, Tasks
<1>7. ASSUME NEW w \in Workers,
             InitCallback(w) \/ TestRunning(w) \/ TakeWaits(w) \/ TakeReturnsNothing(w)
      PROVE  DataType'
  BY <1>1, <1>7 DEF DataType, Tasks, InitCallback, TestRunning, TakeWaits, TakeReturnsNothing, pool,
                    ownerAt, history
<1>8. ASSUME NEW w \in Workers, TakeReturnsTask(w)
      PROVE  DataType'
  <2>1. /\ queue_ \in Seq(Tasks) /\ queue_ # <<>> /\ queue_' = Tail(queue_)
        /\ task' = [task EXCEPT ![w] = Head(queue_)]
        /\ UNCHANGED <<threads_, owner, joined, arg, calls, pushed, done, rejected, atStop>>
    BY <1>8 DEF DataType, TakeReturnsTask, ownerAt, history
  <2>2. Head(queue_) \in Tasks /\ queue_' \in Seq(Tasks) /\ Len(queue_') = Len(queue_) - 1
        /\ Len(queue_) \in Nat
    BY <2>1
  <2> QED
    BY <1>1, <2>1, <2>2 DEF DataType, Tasks
<1>9. ASSUME NEW w \in Workers, TaskCallsRun(w)
      PROVE  DataType'
  <2>1. /\ calls' = calls + 1 /\ calls' \in 0 .. MaxTasks /\ UNCHANGED <<queue_, task, pushed>>
        /\ UNCHANGED <<threads_, owner, joined, done, rejected, atStop>>
        /\ arg' \in [Callers -> {0} \union Tasks']
    BY <1>1, <1>9 DEF DataType, Tasks, TaskCallsRun, pool, ownerAt
  <2>2. queue_' \in Seq(Tasks') /\ pushed' \in Seq(Tasks')
    BY <1>1, <2>1, MoreTasks DEF DataType, Tasks
  <2>3. task' \in [Workers -> {0} \union Tasks'] /\ rejected' \subseteq Tasks' /\ done' \subseteq Tasks'
    BY <1>1, <2>1 DEF DataType, Tasks
  <2> QED
    BY <2>1, <2>2, <2>3 DEF DataType
<1>10. ASSUME NEW w \in Workers, Finish(w)
       PROVE  DataType'
  <2>1. /\ task[w] \in Tasks /\ done' = done \union {task[w]} /\ task' = [task EXCEPT ![w] = 0]
        /\ UNCHANGED <<queue_, threads_, owner, joined, arg, calls, pushed, rejected, atStop>>
    BY <1>10 DEF DataType, Finish, HandsInv, pool, ownerAt
  <2> QED
    BY <2>1 DEF DataType, Tasks
<1> QED
  BY <1>2, <1>3, <1>4, <1>5, <1>6, <1>7, <1>8, <1>9, <1>10, StepCases

LEMMA TypeKept ==
  ASSUME TypeOK, HandsInv, [Next]_vars
  PROVE  TypeOK'
<1>1. DataType' /\ pc' \in [Callers -> Labels]
  BY TypeParts, PcKept, DataKept
<1>2. running_' \in BOOLEAN
  <2>1. running_' \in {running_, TRUE, FALSE}
    BY StepCases
       DEF Start, Stop, CreateThread, StartReturns, Join, StopReturns, ClientCallsRun, RunWaits,
           RunGivesUp, RunPushes, SpuriousWakeUp, InitCallback, TestRunning, TakeWaits,
           TakeReturnsNothing, TakeReturnsTask, TaskCallsRun, Finish, vars, pool
  <2> QED
    BY <2>1 DEF TypeOK
<1> QED
  BY <1>1, <1>2 DEF TypeOK, DataType, Labels

-----------------------------------------------------------------------------
(***************************************************************************)
(* Where the threads are.                                                  *)
(***************************************************************************)
\* What the steps that notify do to each program counter.
LEMMA PushesMoves ==
  ASSUME pc \in [Callers -> Labels], NEW c \in Callers, RunPushes(c)
  PROVE  /\ pc[c] \in {"submitting", "wokenRun"} /\ pc'[c] = AfterRun(c)
         /\ \A d \in Callers \ {c} :
              pc'[d] = pc[d] \/ (pc[d] = "waitNotEmpty" /\ pc'[d] = "wokenTake")
<1> DEFINE next == [pc EXCEPT ![c] = AfterRun(c)]
<1>1. /\ next \in [Callers -> Labels] /\ pc' \in [Callers -> Labels]
      /\ \/ pc' = next /\ \A d \in Callers : next[d] # "waitNotEmpty"
         \/ \E x \in Callers : next[x] = "waitNotEmpty" /\ pc' = [next EXCEPT ![x] = "wokenTake"]
  BY PushesPc
<1>2. next[c] = AfterRun(c) /\ \A d \in Callers \ {c} : next[d] = pc[d]
  OBVIOUS
<1>3. pc[c] \in {"submitting", "wokenRun"} /\ AfterRun(c) # "waitNotEmpty"
  BY DEF RunPushes, InRun, AfterRun
<1> HIDE DEF next
<1> QED
  BY <1>1, <1>2, <1>3

LEMMA TakesMoves ==
  ASSUME pc \in [Callers -> Labels], NEW w \in Workers, TakeReturnsTask(w)
  PROVE  /\ pc[w] \in {"taking", "wokenTake"} /\ pc'[w] = "executing"
         /\ \A d \in Callers \ {w} :
              pc'[d] = pc[d] \/ (pc[d] = "waitNotFull" /\ pc'[d] = "wokenRun")
<1> DEFINE next == [pc EXCEPT ![w] = "executing"]
<1>1. /\ next \in [Callers -> Labels] /\ pc' \in [Callers -> Labels]
      /\ \/ pc' = next /\ (MaxQueueSize > 0 => \A d \in Callers : next[d] # "waitNotFull")
         \/ \E x \in Callers : next[x] = "waitNotFull" /\ pc' = [next EXCEPT ![x] = "wokenRun"]
  BY TakesPc
<1>2. w \in Callers /\ next[w] = "executing" /\ \A d \in Callers \ {w} : next[d] = pc[d]
  BY CallersFinite
<1>3. pc[w] \in {"taking", "wokenTake"}
  BY DEF TakeReturnsTask, InTake
<1> HIDE DEF next
<1> QED
  BY <1>1, <1>2, <1>3

\* The other steps of a caller: one program counter moves.
LEMMA OneMoves ==
  ASSUME pc \in [Callers -> Labels], NEW c \in Callers,
         \/ c \in Clients /\ ClientCallsRun(c)
         \/ RunWaits(c) \/ RunGivesUp(c) \/ SpuriousWakeUp(c)
         \/ /\ c \in Workers
            /\ \/ InitCallback(c) \/ TestRunning(c) \/ TakeWaits(c) \/ TakeReturnsNothing(c)
               \/ TaskCallsRun(c) \/ Finish(c)
  PROVE  \A d \in Callers \ {c} : pc'[d] = pc[d]
BY DEF ClientCallsRun, RunWaits, RunGivesUp, SpuriousWakeUp, InitCallback, TestRunning, TakeWaits,
       TakeReturnsNothing, TaskCallsRun, Finish

LEMMA HandsKept ==
  ASSUME TypeOK, PcInv, HandsInv, OwnerInv, [Next]_vars
  PROVE  PcInv' /\ HandsInv'
<1>1. /\ pc \in [Callers -> Labels] /\ arg \in [Callers -> {0} \union Tasks]
      /\ task \in [Workers -> {0} \union Tasks] /\ queue_ \in Seq(Tasks) /\ calls \in Nat
      /\ \A t \in Tasks : t # 0
  BY PoolAssumption DEF TypeOK, Labels, Tasks
<1>2. Callers = Workers \union Clients /\ Clients \intersect Workers = {}
  BY CallersFinite DEF Callers
<1> USE DEF Submitting
<1>3. CASE Start \/ StartReturns \/ Join \/ StopReturns \/ UNCHANGED vars
  BY <1>3 DEF PcInv, HandsInv, Start, StartReturns, Join, StopReturns, vars
<1>4. CASE Stop
  <2>1. /\ UNCHANGED <<task, arg>>
        /\ \A c \in Callers : \/ pc'[c] = pc[c]
                              \/ pc[c] = "waitNotEmpty" /\ pc'[c] = "wokenTake"
                              \/ pc[c] = "waitNotFull" /\ pc'[c] = "wokenRun"
    BY <1>4 DEF Stop, WakeUp
  <2> QED
    BY <1>2, <2>1 DEF PcInv, HandsInv
<1>5. CASE CreateThread
  <2>1. /\ UNCHANGED <<task, arg>>
        /\ \A c \in Callers :
             pc'[c] = pc[c] \/ (c \in Workers /\ c > threads_ /\ pc'[c] \in {"init", "failed"})
    <3>1. threads_' = threads_ + 1 /\ threads_' \in Workers /\ threads_' > threads_
      BY <1>5, PoolAssumption DEF CreateThread, TypeOK, Workers
    <3> QED
      BY <1>1, <1>5, <3>1 DEF CreateThread
  <2> QED
    BY <1>1, <1>2, <2>1 DEF PcInv, HandsInv, OwnerInv
<1>6. ASSUME NEW c \in Clients, ClientCallsRun(c)
      PROVE  PcInv' /\ HandsInv'
  BY <1>1, <1>2, <1>6 DEF PcInv, HandsInv, ClientCallsRun
<1>7. ASSUME NEW c \in Callers, RunWaits(c)
      PROVE  PcInv' /\ HandsInv'
  BY <1>1, <1>2, <1>7 DEF PcInv, HandsInv, RunWaits, InRun
<1>8. ASSUME NEW c \in Callers, SpuriousWakeUp(c)
      PROVE  PcInv' /\ HandsInv'
  BY <1>1, <1>2, <1>8 DEF PcInv, HandsInv, SpuriousWakeUp, WakeUp
<1>9. ASSUME NEW c \in Callers, RunGivesUp(c)
      PROVE  PcInv' /\ HandsInv'
  BY <1>1, <1>2, <1>9 DEF PcInv, HandsInv, RunGivesUp, AfterRun, InRun
<1>10. ASSUME NEW c \in Callers, RunPushes(c)
       PROVE  PcInv' /\ HandsInv'
  <2>1. arg' = [arg EXCEPT ![c] = 0] /\ task' = task
    BY <1>10 DEF RunPushes
  <2> QED
    BY <1>1, <1>2, <1>10, <2>1, PushesMoves DEF PcInv, HandsInv, AfterRun
<1>11. ASSUME NEW w \in Workers,
              InitCallback(w) \/ TestRunning(w) \/ TakeWaits(w) \/ TakeReturnsNothing(w)
       PROVE  PcInv' /\ HandsInv'
  BY <1>1, <1>2, <1>11
     DEF PcInv, HandsInv, InitCallback, TestRunning, TakeWaits, TakeReturnsNothing, InTake
<1>12. ASSUME NEW w \in Workers, TakeReturnsTask(w)
       PROVE  PcInv' /\ HandsInv'
  <2>1. arg' = arg /\ task' = [task EXCEPT ![w] = Head(queue_)] /\ Head(queue_) \in Tasks
    BY <1>1, <1>12 DEF TakeReturnsTask
  <2> QED
    BY <1>1, <1>2, <1>12, <2>1, TakesMoves DEF PcInv, HandsInv
<1>13. ASSUME NEW w \in Workers, TaskCallsRun(w)
       PROVE  PcInv' /\ HandsInv'
  BY <1>1, <1>2, <1>13 DEF PcInv, HandsInv, TaskCallsRun
<1>14. ASSUME NEW w \in Workers, Finish(w)
       PROVE  PcInv' /\ HandsInv'
  BY <1>1, <1>2, <1>14 DEF PcInv, HandsInv, Finish
<1> QED
  BY <1>3, <1>4, <1>5, <1>6, <1>7, <1>8, <1>9, <1>10, <1>11, <1>12, <1>13, <1>14, StepCases

LEMMA OwnerKept ==
  ASSUME TypeOK, PcInv, OwnerInv, WaitInv, [Next]_vars
  PROVE  OwnerInv' /\ WaitInv'
<1>1. /\ pc \in [Callers -> Labels] /\ running_ \in BOOLEAN
      /\ threads_ \in Nat /\ joined \in Nat /\ joined <= threads_ /\ threads_ <= NumThreads
      /\ NumThreads \in Nat
  BY PoolAssumption DEF TypeOK, Labels
<1>2. /\ Callers = Workers \union Clients /\ Workers = 1 .. NumThreads
      /\ Clients \intersect Workers = {}
  BY CallersFinite DEF Callers, Workers
<1>3. CASE Start \/ StartReturns \/ StopReturns \/ UNCHANGED vars
  BY <1>1, <1>3 DEF OwnerInv, WaitInv, Start, StartReturns, StopReturns, vars, pool, ownerAt
<1>4. CASE Join
  BY <1>1, <1>2, <1>4 DEF OwnerInv, WaitInv, Join, pool
<1>5. CASE Stop
  BY <1>1, <1>2, <1>5 DEF OwnerInv, WaitInv, Stop, WakeUp
<1>6. CASE CreateThread
  BY <1>1, <1>2, <1>6 DEF OwnerInv, WaitInv, CreateThread, ownerAt
<1>7. ASSUME NEW c \in Callers,
             \/ c \in Clients /\ ClientCallsRun(c)
             \/ RunWaits(c) \/ RunGivesUp(c) \/ SpuriousWakeUp(c)
             \/ /\ c \in Workers
                /\ \/ InitCallback(c) \/ TestRunning(c) \/ TakeWaits(c) \/ TakeReturnsNothing(c)
                   \/ TaskCallsRun(c) \/ Finish(c)
      PROVE  OwnerInv' /\ WaitInv'
  <2>1. UNCHANGED <<running_, threads_, owner, joined>>
    BY <1>7 DEF ClientCallsRun, RunWaits, RunGivesUp, SpuriousWakeUp, InitCallback, TestRunning,
                TakeWaits, TakeReturnsNothing, TaskCallsRun, Finish, pool, ownerAt
  <2>2. pc[c] \notin {"none", "exited"} /\ (pc'[c] \in {"waitNotEmpty", "waitNotFull"} => running_)
    BY <1>1, <1>7 DEF ClientCallsRun, RunWaits, RunGivesUp, SpuriousWakeUp, InitCallback, TestRunning,
                TakeWaits, TakeReturnsNothing, TaskCallsRun, Finish, InRun, InTake, AfterRun, WakeUp
  <2>3. \A d \in Callers \ {c} : pc'[d] = pc[d]
    BY <1>1, <1>7, OneMoves
  <2> QED
    BY <1>1, <1>2, <2>1, <2>2, <2>3 DEF OwnerInv, WaitInv
<1>8. ASSUME NEW c \in Callers, RunPushes(c)
      PROVE  OwnerInv' /\ WaitInv'
  <2>1. UNCHANGED <<running_, threads_, owner, joined>>
    BY <1>8 DEF RunPushes, ownerAt
  <2> QED
    BY <1>1, <1>2, <1>8, <2>1, PushesMoves DEF OwnerInv, WaitInv, AfterRun
<1>9. ASSUME NEW w \in Workers, TakeReturnsTask(w)
      PROVE  OwnerInv' /\ WaitInv'
  <2>1. UNCHANGED <<running_, threads_, owner, joined>>
    BY <1>9 DEF TakeReturnsTask, ownerAt
  <2> QED
    BY <1>1, <1>2, <1>9, <2>1, TakesMoves DEF OwnerInv, WaitInv
<1> QED
  BY <1>2, <1>3, <1>4, <1>5, <1>6, <1>7, <1>8, <1>9, StepCases

-----------------------------------------------------------------------------
Base == TypeOK /\ PcInv /\ HandsInv /\ OwnerInv /\ WaitInv

LEMMA BaseAlways == Spec => []Base
<1>1. Base /\ [Next]_vars => Base'
  BY TypeKept, HandsKept, OwnerKept DEF Base
<1> QED
  BY TypeStart, <1>1, PTL DEF Base, Spec

\* Every variable has its type, and the queue is never longer than its limit.
THEOREM TypeCorrect == Spec => []TypeOK
BY BaseAlways, PTL DEF Base

\* When stop() has returned every worker has left runInThread(), and nobody pushes.
THEOREM StoppedIsStill == Spec => NothingRunsAfterStop
<1>1. Base /\ [Next]_vars => (owner = "stopped" /\ threads_ > 0 => UNCHANGED <<done, task, queue_>>)
  <2> SUFFICES ASSUME Base, [Next]_vars, owner = "stopped", threads_ > 0
               PROVE  UNCHANGED <<done, task, queue_>>
    OBVIOUS
  <2>1. /\ \A w \in Workers : pc[w] = "exited"
        /\ ~running_ /\ threads_ # 0 /\ Callers = Workers \union Clients
    BY CallersFinite DEF Base, TypeOK, OwnerInv, Workers, Callers
  <2> QED
    BY <2>1, StepCases
       DEF Start, Stop, CreateThread, StartReturns, Join, StopReturns, ClientCallsRun, RunWaits,
           RunGivesUp, RunPushes, SpuriousWakeUp, InitCallback, TestRunning, TakeWaits,
           TakeReturnsNothing, TakeReturnsTask, TaskCallsRun, Finish, InTake, InRun, vars, pool, history
<1> QED
  BY BaseAlways, <1>1, PTL DEF Spec, NothingRunsAfterStop

-----------------------------------------------------------------------------
(***************************************************************************)
(* Where the tasks are: no two places have the same task, and each task is *)
(* in one.                                                                 *)
(***************************************************************************)
Apart ==
  /\ \A c, d \in Callers : arg[c] # 0 /\ arg[c] = arg[d] => c = d
  /\ \A i, j \in 1 .. Len(queue_) : queue_[i] = queue_[j] => i = j
  /\ \A v, w \in Workers : task[v] # 0 /\ task[v] = task[w] => v = w
  /\ \A c \in Callers : /\ \A i \in 1 .. Len(queue_) : arg[c] # queue_[i]
                        /\ \A w \in Workers : arg[c] # 0 => arg[c] # task[w]
                        /\ arg[c] \notin done /\ arg[c] \notin rejected
  /\ \A i \in 1 .. Len(queue_) : /\ \A w \in Workers : queue_[i] # task[w]
                                 /\ queue_[i] \notin done /\ queue_[i] \notin rejected
  /\ \A w \in Workers : task[w] \notin done /\ task[w] \notin rejected
  /\ done \intersect rejected = {}

Somewhere ==
  \A t \in Tasks : \/ \E c \in Callers : arg[c] = t
                   \/ \E i \in 1 .. Len(queue_) : queue_[i] = t
                   \/ \E w \in Workers : task[w] = t
                   \/ t \in done \/ t \in rejected

LEMMA PlaceStart == Init => Apart /\ Somewhere
BY CallersFinite DEF Init, Apart, Somewhere, Tasks

LEMMA PlaceKept ==
  ASSUME Base, Apart, Somewhere, [Next]_vars
  PROVE  Apart' /\ Somewhere'
<1>1. /\ arg \in [Callers -> {0} \union Tasks] /\ task \in [Workers -> {0} \union Tasks]
      /\ queue_ \in Seq(Tasks) /\ done \subseteq Tasks /\ rejected \subseteq Tasks /\ calls \in Nat
      /\ \A t \in Tasks : t # 0
  BY PoolAssumption DEF Base, TypeOK, Tasks
<1>2. Workers \subseteq Callers /\ Clients \subseteq Callers
  BY CallersFinite
<1>3. CASE UNCHANGED <<queue_, task, arg, calls, done, rejected>>
  BY <1>3 DEF Apart, Somewhere, Tasks
<1>4. ASSUME NEW c \in Callers,
             calls' = calls + 1, arg' = [arg EXCEPT ![c] = calls'], arg[c] = 0,
             UNCHANGED <<queue_, task, done, rejected>>
      PROVE  Apart' /\ Somewhere'
  <2>1. /\ \A d \in Callers \ {c} : arg'[d] = arg[d] /\ arg[d] # calls'
        /\ arg'[c] = calls' /\ calls' \notin Tasks /\ Tasks' = Tasks \union {calls'} /\ calls' # 0
    BY <1>1, <1>4 DEF Tasks
  <2>2. /\ \A i \in 1 .. Len(queue_) : queue_[i] \in Tasks
        /\ \A w \in Workers : task[w] # calls'
    BY <1>1, <2>1
  <2> HIDE DEF Tasks
  <2>3. Apart'
    BY <1>1, <1>4, <2>1, <2>2 DEF Apart
  <2>4. Somewhere'
    BY <1>1, <1>4, <2>1 DEF Somewhere
  <2> QED
    BY <2>3, <2>4
<1>5. ASSUME NEW c \in Clients, ClientCallsRun(c)
      PROVE  Apart' /\ Somewhere'
  <2>1. CASE threads_ = 0
    <3>1. calls' = calls + 1 /\ done' = done \union {calls'}
          /\ UNCHANGED <<queue_, task, arg, rejected>>
      BY <1>5, <2>1 DEF ClientCallsRun, pool
    <3>2. calls' \notin Tasks /\ Tasks' = Tasks \union {calls'} /\ calls' # 0
      BY <1>1, <3>1 DEF Tasks
    <3>3. \A i \in 1 .. Len(queue_) : queue_[i] \in Tasks
      BY <1>1
    <3> HIDE DEF Tasks
    <3>4. Apart'
      BY <1>1, <3>1, <3>2, <3>3 DEF Apart
    <3>5. Somewhere'
      BY <1>1, <3>1, <3>2 DEF Somewhere
    <3> QED
      BY <3>4, <3>5
  <2>2. CASE threads_ # 0
    <3>1. arg[c] = 0
      BY <1>2, <1>5 DEF Base, HandsInv, Submitting, ClientCallsRun
    <3> QED
      BY <1>2, <1>4, <1>5, <2>2, <3>1 DEF ClientCallsRun, pool
  <2> QED
    BY <2>1, <2>2
<1>6. ASSUME NEW w \in Workers, TaskCallsRun(w)
      PROVE  Apart' /\ Somewhere'
  <2>1. arg[w] = 0
    BY <1>2, <1>6 DEF Base, HandsInv, Submitting, TaskCallsRun
  <2> QED
    BY <1>2, <1>4, <1>6, <2>1 DEF TaskCallsRun, pool
<1>7. ASSUME NEW c \in Callers, RunGivesUp(c)
      PROVE  Apart' /\ Somewhere'
  <2>1. /\ rejected' = rejected \union {arg[c]} /\ arg' = [arg EXCEPT ![c] = 0]
        /\ UNCHANGED <<queue_, task, calls, done>> /\ arg[c] \in Tasks
    BY <1>1, <1>7 DEF RunGivesUp, InRun, Base, HandsInv, Submitting, pool
  <2>2. Tasks' = Tasks /\ \A i \in 1 .. Len(queue_) : queue_[i] \in Tasks
    BY <1>1, <2>1 DEF Tasks
  <2> HIDE DEF Tasks
  <2>3. Apart'
    BY <1>1, <2>1, <2>2 DEF Apart
  <2>4. Somewhere'
    BY <1>1, <2>1, <2>2 DEF Somewhere
  <2> QED
    BY <2>3, <2>4
<1>8. ASSUME NEW c \in Callers, RunPushes(c)
      PROVE  Apart' /\ Somewhere'
  <2>1. /\ queue_' = Append(queue_, arg[c]) /\ arg' = [arg EXCEPT ![c] = 0]
        /\ UNCHANGED <<task, calls, done, rejected>> /\ arg[c] \in Tasks
    BY <1>1, <1>8 DEF RunPushes, InRun, Base, HandsInv, Submitting
  <2>2. /\ Len(queue_) \in Nat /\ Len(queue_') = Len(queue_) + 1
        /\ \A i \in 1 .. Len(queue_) : queue_'[i] = queue_[i] /\ queue_[i] \in Tasks
        /\ queue_'[Len(queue_) + 1] = arg[c] /\ Tasks' = Tasks
    BY <1>1, <2>1 DEF Tasks
  <2>3. \A i \in 1 .. Len(queue_') : \/ i \in 1 .. Len(queue_)
                                     \/ i = Len(queue_) + 1
    BY <2>2
  <2> HIDE DEF Tasks
  <2>4. Apart'
    BY <1>1, <2>1, <2>2, <2>3 DEF Apart
  <2>5. Somewhere'
    BY <1>1, <2>1, <2>2, <2>3 DEF Somewhere
  <2> QED
    BY <2>4, <2>5
<1>9. ASSUME NEW w \in Workers, TakeReturnsTask(w)
      PROVE  Apart' /\ Somewhere'
  <2>1. /\ queue_ # <<>> /\ queue_' = Tail(queue_) /\ task' = [task EXCEPT ![w] = Head(queue_)]
        /\ UNCHANGED <<arg, calls, done, rejected>> /\ task[w] = 0
    BY <1>1, <1>9 DEF TakeReturnsTask, InTake, Base, HandsInv, Submitting, history
  <2>2. /\ Len(queue_) \in Nat \ {0} /\ Len(queue_') = Len(queue_) - 1
        /\ \A i \in 1 .. Len(queue_') : queue_'[i] = queue_[i + 1] /\ i + 1 \in 1 .. Len(queue_)
                                        /\ i + 1 # 1
        /\ \A i \in 1 .. Len(queue_) : queue_[i] \in Tasks
        /\ Head(queue_) = queue_[1] /\ 1 \in 1 .. Len(queue_) /\ Tasks' = Tasks
    BY <1>1, <2>1 DEF Tasks
  <2>3. \A i \in 1 .. Len(queue_) : i = 1 \/ (i - 1 \in 1 .. Len(queue_') /\ queue_[i] = queue_'[i - 1])
    BY <1>1, <2>1, <2>2
  <2>4. \A i, j \in 1 .. Len(queue_') : queue_'[i] = queue_'[j] => i = j
    BY <2>2 DEF Apart
  <2> HIDE DEF Tasks
  <2>5. Apart'
    BY <1>1, <2>1, <2>2, <2>4 DEF Apart
  <2>6. Somewhere'
    <3> SUFFICES ASSUME NEW t \in Tasks
                 PROVE  \/ \E c \in Callers : arg'[c] = t
                        \/ \E i \in 1 .. Len(queue_') : queue_'[i] = t
                        \/ \E v \in Workers : task'[v] = t
                        \/ t \in done' \/ t \in rejected'
      BY <2>2 DEF Somewhere
    <3>1. CASE \E i \in 1 .. Len(queue_) : queue_[i] = t
      <4>1. PICK i \in 1 .. Len(queue_) : queue_[i] = t
        BY <3>1
      <4>2. CASE i = 1
        <5>1. task'[w] = t
          BY <1>1, <2>1, <2>2, <4>1, <4>2
        <5> QED
          BY <5>1
      <4>3. CASE i # 1
        BY <2>3, <4>1, <4>3
      <4> QED
        BY <4>2, <4>3
    <3>2. CASE \E v \in Workers : task[v] = t
      <4>1. PICK v \in Workers : task[v] = t
        BY <3>2
      <4>2. task'[v] = t
        BY <1>1, <2>1, <4>1
      <4> QED
        BY <4>2
    <3> QED
      BY <2>1, <3>1, <3>2 DEF Somewhere
  <2> QED
    BY <2>5, <2>6
<1>10. ASSUME NEW w \in Workers, Finish(w)
       PROVE  Apart' /\ Somewhere'
  <2>1. /\ done' = done \union {task[w]} /\ task' = [task EXCEPT ![w] = 0]
        /\ UNCHANGED <<queue_, arg, calls, rejected>> /\ task[w] \in Tasks
    BY <1>1, <1>10 DEF Finish, Base, HandsInv, pool
  <2>2. Tasks' = Tasks /\ \A i \in 1 .. Len(queue_) : queue_[i] \in Tasks
    BY <1>1, <2>1 DEF Tasks
  <2> HIDE DEF Tasks
  <2>3. Apart'
    BY <1>1, <2>1, <2>2 DEF Apart
  <2>4. Somewhere'
    BY <1>1, <2>1, <2>2 DEF Somewhere
  <2> QED
    BY <2>3, <2>4
<1>11. \/ UNCHANGED <<queue_, task, arg, calls, done, rejected>>
       \/ \E c \in Clients : ClientCallsRun(c)
       \/ \E c \in Callers : RunGivesUp(c) \/ RunPushes(c)
       \/ \E w \in Workers : TakeReturnsTask(w) \/ TaskCallsRun(w) \/ Finish(w)
  BY StepCases DEF Start, Stop, CreateThread, StartReturns, Join, StopReturns, RunWaits,
                   SpuriousWakeUp, InitCallback, TestRunning, TakeWaits, TakeReturnsNothing, vars,
                   pool, history
<1> QED
  BY <1>3, <1>5, <1>6, <1>7, <1>8, <1>9, <1>10, <1>11

LEMMA PlaceAlways == Spec => [](Base /\ Apart /\ Somewhere)
<1>1. (Base /\ Apart /\ Somewhere) /\ Base' /\ [Next]_vars => (Base /\ Apart /\ Somewhere)'
  BY PlaceKept
<1> QED
  BY BaseAlways, PlaceStart, <1>1, PTL DEF Spec

\* A task given to run() is with its caller, in the queue, with one worker, executed or
\* given up: one of these, once.
THEOREM OnePlaceCorrect == Spec => []OnePlace
<1>1. Base /\ Apart /\ Somewhere => OnePlace
  <2> SUFFICES ASSUME Base, Apart, Somewhere, NEW t \in Tasks
               PROVE  Cardinality({c \in Callers : arg[c] = t})
                        + Cardinality({i \in DOMAIN queue_ : queue_[i] = t})
                        + Cardinality({w \in Workers : task[w] = t})
                        + Cardinality({t} \intersect done) + Cardinality({t} \intersect rejected) = 1
    BY DEF OnePlace
  <2> DEFINE a == {c \in Callers : arg[c] = t}
             q == {i \in DOMAIN queue_ : queue_[i] = t}
             h == {w \in Workers : task[w] = t}
             d == {t} \intersect done
             r == {t} \intersect rejected
  <2>1. t # 0 /\ DOMAIN queue_ = 1 .. Len(queue_)
    BY DEF Base, TypeOK, Tasks
  <2>2. \A x \in a : a = {x}
    BY <2>1 DEF Apart
  <2>3. \A x \in q : q = {x}
    BY <2>1 DEF Apart
  <2>4. \A x \in h : h = {x}
    BY <2>1 DEF Apart
  <2>5. d = {} \/ d = {t}
    OBVIOUS
  <2>6. r = {} \/ r = {t}
    OBVIOUS
  <2>7. /\ a # {} => q = {} /\ h = {} /\ d = {} /\ r = {}
        /\ q # {} => h = {} /\ d = {} /\ r = {}
        /\ h # {} => d = {} /\ r = {}
        /\ d # {} => r = {}
    BY <2>1 DEF Apart
  <2>8. ~(a = {} /\ q = {} /\ h = {} /\ d = {} /\ r = {})
    BY <2>1 DEF Somewhere
  <2> HIDE DEF a, q, h, d, r
  <2>9. Cardinality({}) = 0 /\ \A x : Cardinality({x}) = 1
    BY FS_EmptySet, FS_Singleton
  <2>10. /\ Cardinality(a) = IF a = {} THEN 0 ELSE 1
         /\ Cardinality(q) = IF q = {} THEN 0 ELSE 1
         /\ Cardinality(h) = IF h = {} THEN 0 ELSE 1
         /\ Cardinality(d) = IF d = {} THEN 0 ELSE 1
         /\ Cardinality(r) = IF r = {} THEN 0 ELSE 1
    BY <2>2, <2>3, <2>4, <2>5, <2>6, <2>9
  <2>11. Cardinality(a) + Cardinality(q) + Cardinality(h) + Cardinality(d) + Cardinality(r) = 1
    BY <2>7, <2>8, <2>10
  <2> QED
    BY <2>11 DEF a, q, h, d, r
<1> QED
  BY PlaceAlways, <1>1, PTL

-----------------------------------------------------------------------------
(***************************************************************************)
(* The queue is the end of what has been pushed.                           *)
(***************************************************************************)
OrderInv ==
  /\ Len(queue_) <= Len(pushed)
  /\ \A i \in 1 .. Len(queue_) : queue_[i] = pushed[Len(pushed) - Len(queue_) + i]

LEMMA OrderKept ==
  ASSUME Base, OrderInv, [Next]_vars
  PROVE  OrderInv'
<1>1. queue_ \in Seq(Tasks) /\ pushed \in Seq(Tasks) /\ Len(queue_) \in Nat /\ Len(pushed) \in Nat
  BY DEF Base, TypeOK
<1>2. CASE UNCHANGED <<queue_, pushed>>
  BY <1>2 DEF OrderInv
<1>3. ASSUME NEW c \in Callers, RunPushes(c)
      PROVE  OrderInv'
  <2>1. queue_' = Append(queue_, arg[c]) /\ pushed' = Append(pushed, arg[c]) /\ arg[c] \in Tasks
    BY <1>3 DEF RunPushes, InRun, Base, TypeOK, HandsInv, Submitting
  <2>2. /\ Len(queue_') = Len(queue_) + 1 /\ Len(pushed') = Len(pushed) + 1
        /\ \A i \in 1 .. Len(queue_) : queue_'[i] = queue_[i]
        /\ \A i \in 1 .. Len(pushed) : pushed'[i] = pushed[i]
        /\ queue_'[Len(queue_) + 1] = arg[c] /\ pushed'[Len(pushed) + 1] = arg[c]
    BY <1>1, <2>1
  <2> SUFFICES ASSUME NEW i \in 1 .. Len(queue_')
               PROVE  queue_'[i] = pushed'[Len(pushed') - Len(queue_') + i]
    BY <1>1, <2>2 DEF OrderInv
  <2>3. CASE i = Len(queue_) + 1
    BY <1>1, <2>2, <2>3
  <2>4. CASE i \in 1 .. Len(queue_)
    <3>1. Len(pushed) - Len(queue_) + i \in 1 .. Len(pushed)
          /\ Len(pushed') - Len(queue_') + i = Len(pushed) - Len(queue_) + i
      BY <1>1, <2>2, <2>4 DEF OrderInv
    <3> QED
      BY <2>2, <2>4, <3>1 DEF OrderInv
  <2> QED
    BY <1>1, <2>2, <2>3, <2>4
<1>4. ASSUME NEW w \in Workers, TakeReturnsTask(w)
      PROVE  OrderInv'
  <2>1. queue_ # <<>> /\ queue_' = Tail(queue_) /\ pushed' = pushed
    BY <1>4 DEF TakeReturnsTask, history
  <2>2. /\ Len(queue_) \in Nat \ {0} /\ Len(queue_') = Len(queue_) - 1
        /\ \A i \in 1 .. Len(queue_') : queue_'[i] = queue_[i + 1] /\ i + 1 \in 1 .. Len(queue_)
    BY <1>1, <2>1
  <2> SUFFICES ASSUME NEW i \in 1 .. Len(queue_')
               PROVE  queue_'[i] = pushed[Len(pushed) - Len(queue_') + i]
    BY <1>1, <2>1, <2>2 DEF OrderInv
  <2>3. Len(pushed) - Len(queue_') + i = Len(pushed) - Len(queue_) + (i + 1)
    BY <1>1, <2>2
  <2> QED
    BY <2>2, <2>3 DEF OrderInv
<1>5. \/ UNCHANGED <<queue_, pushed>>
      \/ \E c \in Callers : RunPushes(c)
      \/ \E w \in Workers : TakeReturnsTask(w)
  BY StepCases DEF Start, Stop, CreateThread, StartReturns, Join, StopReturns, ClientCallsRun,
                   RunWaits, RunGivesUp, SpuriousWakeUp, InitCallback, TestRunning, TakeWaits,
                   TakeReturnsNothing, TaskCallsRun, Finish, vars, pool, history
<1> QED
  BY <1>2, <1>3, <1>4, <1>5

\* Tasks leave the queue in the order in which they entered it.
THEOREM OrderCorrect == Spec => []FirstComeFirstServed
<1>1. Init => OrderInv
  BY DEF Init, OrderInv
<1>2. Base /\ OrderInv /\ [Next]_vars => OrderInv'
  BY OrderKept
<1>3. Base /\ OrderInv => FirstComeFirstServed
  <2> SUFFICES ASSUME Base, OrderInv PROVE FirstComeFirstServed
    OBVIOUS
  <2> DEFINE m == Len(pushed)
             n == Len(queue_)
             s == SubSeq(pushed, m - n + 1, m)
  <2>1. queue_ \in Seq(Tasks) /\ pushed \in Seq(Tasks) /\ n \in Nat /\ m \in Nat /\ n <= m
    BY DEF Base, TypeOK, OrderInv
  <2>2. s = [i \in 1 .. n |-> pushed[m - n + i]]
    BY <2>1
  <2>3. queue_ = [i \in 1 .. n |-> queue_[i]]
    BY <2>1
  <2> HIDE DEF s
  <2>4. queue_ = s
    BY <2>2, <2>3 DEF OrderInv
  <2> QED
    BY <2>1, <2>4 DEF FirstComeFirstServed, s
<1> QED
  BY BaseAlways, <1>1, <1>2, <1>3, PTL DEF Spec

-----------------------------------------------------------------------------
(***************************************************************************)
(* After stop(): the workers that may yet take a task, and what they have  *)
(* taken, are not more than the workers there are.                         *)
(***************************************************************************)
Takers == {w \in Workers : pc[w] \in {"taking", "wokenTake"}}
Living == {w \in Workers : pc[w] # "failed"}

PromptInv == owner \in {"joining", "stopped"} =>
  atStop - Len(queue_) + Cardinality(Takers) <= Cardinality(Living)

LEMMA SetSizes ==
  /\ IsFiniteSet(Takers) /\ Cardinality(Takers) \in Nat
  /\ IsFiniteSet(Living) /\ Cardinality(Living) \in Nat
  /\ \A label : IsFiniteSet(At(label)) /\ Cardinality(At(label)) \in Nat
<1>1. Takers \subseteq Workers /\ Living \subseteq Workers
  BY DEF Takers, Living
<1>2. IsFiniteSet(Takers) /\ IsFiniteSet(Living)
  BY <1>1, CallersFinite, FS_Subset
<1> QED
  BY <1>2, CallersFinite, FS_CardinalityType

LEMMA PromptKept ==
  ASSUME Base, Base', PromptInv, [Next]_vars
  PROVE  PromptInv'
<1> SUFFICES ASSUME owner' \in {"joining", "stopped"}
             PROVE  atStop' - Len(queue_') + Cardinality(Takers') <= Cardinality(Living')
  BY DEF PromptInv
<1>1. /\ queue_ \in Seq(Tasks) /\ Len(queue_) \in Nat /\ atStop \in Nat /\ pc \in [Callers -> Labels]
      /\ atStop' \in Nat /\ Len(queue_') \in Nat
  BY DEF Base, TypeOK, Labels
<1>2. /\ IsFiniteSet(Takers) /\ Cardinality(Takers) \in Nat /\ IsFiniteSet(Living)
      /\ Cardinality(Living) \in Nat /\ Workers \subseteq Callers /\ Clients \subseteq Callers
  BY SetSizes, CallersFinite
<1>3. CASE Stop
  <2>1. atStop' = Len(queue_') /\ queue_' = queue_
    BY <1>3 DEF Stop
  <2>2. Takers' \subseteq Living'
    BY DEF Takers, Living
  <2>3. Living' \subseteq Workers
    BY DEF Living
  <2>4. IsFiniteSet(Living')
    BY <2>3, CallersFinite, FS_Subset
  <2>5. Cardinality(Takers') <= Cardinality(Living') /\ Cardinality(Takers') \in Nat
        /\ Cardinality(Living') \in Nat
    BY <2>2, <2>4, FS_Subset, FS_CardinalityType
  <2> QED
    BY <1>1, <2>1, <2>5
<1>4. CASE ~Stop
  <2>1. /\ owner \in {"joining", "stopped"} /\ ~running_ /\ atStop' = atStop
        /\ \A c \in Callers : pc[c] \notin {"waitNotEmpty", "waitNotFull"}
    <3>1. owner \in {"joining", "stopped"} /\ atStop' = atStop
      BY <1>4, StepCases
         DEF Start, CreateThread, StartReturns, Join, StopReturns, ClientCallsRun, RunWaits,
             RunGivesUp, RunPushes, SpuriousWakeUp, InitCallback, TestRunning, TakeWaits,
             TakeReturnsNothing, TakeReturnsTask, TaskCallsRun, Finish, vars, ownerAt, history
    <3> QED
      BY <3>1 DEF Base, OwnerInv, WaitInv
  <2>2. atStop - Len(queue_) + Cardinality(Takers) <= Cardinality(Living)
    BY <2>1 DEF PromptInv
  <2>3. ASSUME NEW w \in Workers, TakeReturnsTask(w)
        PROVE  atStop' - Len(queue_') + Cardinality(Takers') <= Cardinality(Living')
    <3>1. Len(queue_') = Len(queue_) - 1
      BY <1>1, <2>3 DEF TakeReturnsTask
    <3>2. pc[w] \in {"taking", "wokenTake"} /\ pc'[w] = "executing"
          /\ \A d \in Callers \ {w} : pc'[d] = pc[d]
      BY <1>1, <2>1, <2>3, TakesMoves
    <3>3. Takers' = Takers \ {w} /\ w \in Takers /\ Living' = Living
      BY <1>2, <3>2 DEF Takers, Living
    <3>4. Cardinality(Takers') = Cardinality(Takers) - 1
      BY <1>2, <3>3, FS_RemoveElement
    <3> QED
      BY <1>1, <1>2, <2>1, <2>2, <3>1, <3>3, <3>4
  <2>4. ASSUME queue_' = queue_, Takers' \subseteq Takers, Living' = Living
        PROVE  atStop' - Len(queue_') + Cardinality(Takers') <= Cardinality(Living')
    <3>1. Cardinality(Takers') <= Cardinality(Takers) /\ Cardinality(Takers') \in Nat
      BY <1>2, <2>4, FS_Subset, FS_CardinalityType
    <3> QED
      BY <1>1, <1>2, <2>1, <2>2, <2>4, <3>1
  <2>5. CASE Start \/ CreateThread \/ StartReturns
    BY <2>1, <2>5 DEF Start, CreateThread, StartReturns
  <2>6. CASE Join \/ StopReturns \/ UNCHANGED vars
    <3>1. queue_' = queue_ /\ pc' = pc
      BY <2>6 DEF Join, StopReturns, vars, pool
    <3> QED
      BY <2>4, <3>1 DEF Takers, Living
  <2>7. ASSUME NEW c \in Callers,
               \/ c \in Clients /\ ClientCallsRun(c)
               \/ RunWaits(c) \/ RunGivesUp(c) \/ SpuriousWakeUp(c)
               \/ /\ c \in Workers
                  /\ \/ InitCallback(c) \/ TestRunning(c) \/ TakeWaits(c) \/ TakeReturnsNothing(c)
                     \/ TaskCallsRun(c) \/ Finish(c)
        PROVE  atStop' - Len(queue_') + Cardinality(Takers') <= Cardinality(Living')
    <3>1. queue_' = queue_
      BY <2>7 DEF ClientCallsRun, RunWaits, RunGivesUp, SpuriousWakeUp, InitCallback, TestRunning,
                  TakeWaits, TakeReturnsNothing, TaskCallsRun, Finish, pool
    <3>2. pc[c] # "failed" /\ pc'[c] \notin {"taking", "wokenTake", "failed"}
      BY <1>1, <2>1, <2>7
         DEF ClientCallsRun, RunWaits, RunGivesUp, SpuriousWakeUp, InitCallback, TestRunning,
             TakeWaits, TakeReturnsNothing, TaskCallsRun, Finish, InRun, InTake, AfterRun, WakeUp
    <3>3. \A d \in Callers \ {c} : pc'[d] = pc[d]
      BY <1>1, <2>7, OneMoves
    <3>4. Takers' \subseteq Takers /\ Living' = Living
      BY <1>2, <3>2, <3>3 DEF Takers, Living
    <3> QED
      BY <2>4, <3>1, <3>4
  <2>8. ASSUME NEW c \in Callers, RunPushes(c)
        PROVE  FALSE
    BY <2>1, <2>8 DEF RunPushes
  <2> QED
    BY <1>2, <1>4, <2>3, <2>5, <2>6, <2>7, <2>8, StepCases
<1> QED
  BY <1>3, <1>4

\* After stop() has cleared running_, each worker that there is takes at most one task.
THEOREM PromptCorrect == Spec => []StopIsPrompt
<1>1. Init => PromptInv
  BY DEF Init, PromptInv
<1>2. Base /\ Base' /\ PromptInv /\ [Next]_vars => PromptInv'
  BY PromptKept
<1>3. Base /\ PromptInv => StopIsPrompt
  <2> SUFFICES ASSUME Base, PromptInv, owner \in {"joining", "stopped"}
               PROVE  atStop - Len(queue_) <= Cardinality(Living)
    BY DEF StopIsPrompt, Living
  <2>1. atStop \in Nat /\ Len(queue_) \in Nat
    BY DEF Base, TypeOK
  <2> QED
    BY <2>1, SetSizes DEF PromptInv
<1> QED
  BY BaseAlways, <1>1, <1>2, <1>3, PTL DEF Spec

-----------------------------------------------------------------------------
(***************************************************************************)
(* NobodyForgotten is inductive, given WaitInv: a push adds a task and     *)
(* wakes a waiter, a take adds a place and wakes one, and whoever ceases   *)
(* to be on the way either takes a task or a place or finds none.          *)
(***************************************************************************)
LEMMA ForgottenKept ==
  ASSUME Base, Base', NobodyForgotten, [Next]_vars
  PROVE  NobodyForgotten'
<1> DEFINE E  == At("waitNotEmpty")
           WT == At("wokenTake")
           F  == At("waitNotFull")
           WR == At("wokenRun")
<1>1. /\ Len(queue_) \in Nat /\ Len(queue_') \in Nat /\ MaxQueueSize \in Nat
      /\ pc \in [Callers -> Labels] /\ pc' \in [Callers -> Labels]
      /\ Workers \subseteq Callers /\ Clients \subseteq Callers /\ queue_ \in Seq(Tasks)
  BY PoolAssumption, CallersFinite DEF Base, TypeOK, Labels
<1>2. /\ IsFiniteSet(WT) /\ Cardinality(WT) \in Nat /\ IsFiniteSet(WT') /\ Cardinality(WT') \in Nat
      /\ IsFiniteSet(WR) /\ Cardinality(WR) \in Nat /\ IsFiniteSet(WR') /\ Cardinality(WR') \in Nat
  <2>1. WT \subseteq Callers /\ WT' \subseteq Callers /\ WR \subseteq Callers /\ WR' \subseteq Callers
    BY DEF At
  <2>2. IsFiniteSet(WT) /\ IsFiniteSet(WT') /\ IsFiniteSet(WR) /\ IsFiniteSet(WR')
    BY <2>1, CallersFinite, FS_Subset
  <2> QED
    BY <2>2, FS_CardinalityType
<1>3. CASE ~running_'
  <2>1. E' = {} /\ F' = {}
    BY <1>3 DEF Base, WaitInv, At
  <2> QED
    BY <2>1 DEF NobodyForgotten
<1>4. CASE running_'
  <2>1. /\ E # {} => Len(queue_) <= Cardinality(WT)
        /\ F # {} => MaxQueueSize - Len(queue_) <= Cardinality(WR)
    BY DEF NobodyForgotten
  <2> SUFFICES /\ E' # {} => Len(queue_') <= Cardinality(WT')
               /\ F' # {} => MaxQueueSize - Len(queue_') <= Cardinality(WR')
    BY <1>4 DEF NobodyForgotten
  <2>2. ASSUME queue_' = queue_, E' \subseteq E, WT \subseteq WT', F' \subseteq F, WR \subseteq WR'
        PROVE  /\ E' # {} => Len(queue_') <= Cardinality(WT')
               /\ F' # {} => MaxQueueSize - Len(queue_') <= Cardinality(WR')
    <3>1. Cardinality(WT) <= Cardinality(WT') /\ Cardinality(WR) <= Cardinality(WR')
      BY <1>2, <2>2, FS_Subset
    <3> HIDE DEF E, WT, F, WR
    <3>2. E' # {} => Len(queue_') <= Cardinality(WT')
      BY <1>1, <1>2, <2>1, <2>2, <3>1
    <3>3. F' # {} => MaxQueueSize - Len(queue_') <= Cardinality(WR')
      BY <1>1, <1>2, <2>1, <2>2, <3>1
    <3> QED
      BY <3>2, <3>3
  <2>3. CASE Start \/ StartReturns \/ Join \/ StopReturns \/ UNCHANGED vars
    <3>1. pc' = pc /\ queue_' = queue_
      BY <2>3 DEF Start, StartReturns, Join, StopReturns, vars, pool
    <3> QED
      BY <2>2, <3>1 DEF At
  <2>4. CASE CreateThread
    <3>1. queue_' = queue_ /\ threads_' \in Workers /\ threads_' > threads_
          /\ \E label \in {"init", "failed"} : pc' = [pc EXCEPT ![threads_'] = label]
      BY <2>4, PoolAssumption DEF CreateThread, Base, TypeOK, Workers
    <3>2. pc[threads_'] = "none"
      BY <3>1 DEF Base, OwnerInv
    <3>3. E' \subseteq E /\ WT \subseteq WT' /\ F' \subseteq F /\ WR \subseteq WR'
      BY <1>1, <3>1, <3>2 DEF At
    <3> QED
      BY <2>2, <3>1, <3>3
  <2>5. ASSUME NEW c \in Callers,
               \/ c \in Clients /\ ClientCallsRun(c)
               \/ SpuriousWakeUp(c)
               \/ /\ c \in Workers
                  /\ InitCallback(c) \/ TestRunning(c) \/ TaskCallsRun(c) \/ Finish(c)
        PROVE  /\ E' # {} => Len(queue_') <= Cardinality(WT')
               /\ F' # {} => MaxQueueSize - Len(queue_') <= Cardinality(WR')
    <3>1. queue_' = queue_
      BY <2>5 DEF ClientCallsRun, SpuriousWakeUp, InitCallback, TestRunning, TaskCallsRun, Finish, pool
    <3>2. pc[c] \notin {"wokenTake", "wokenRun"} /\ pc'[c] \notin {"waitNotEmpty", "waitNotFull"}
      BY <1>1, <2>5 DEF ClientCallsRun, SpuriousWakeUp, InitCallback, TestRunning, TaskCallsRun,
                        Finish, WakeUp
    <3>3. \A d \in Callers \ {c} : pc'[d] = pc[d]
      BY <1>1, <2>5, OneMoves
    <3>4. E' \subseteq E /\ WT \subseteq WT' /\ F' \subseteq F /\ WR \subseteq WR'
      BY <3>2, <3>3 DEF At
    <3> QED
      BY <2>2, <3>1, <3>4
  <2>6. ASSUME NEW c \in Callers, RunWaits(c)
        PROVE  /\ E' # {} => Len(queue_') <= Cardinality(WT')
               /\ F' # {} => MaxQueueSize - Len(queue_') <= Cardinality(WR')
    <3>1. queue_' = queue_ /\ Len(queue_) >= MaxQueueSize
          /\ pc[c] \in {"submitting", "wokenRun"} /\ pc'[c] = "waitNotFull"
      BY <1>1, <2>6 DEF RunWaits, IsFull, InRun, pool
    <3>2. \A d \in Callers \ {c} : pc'[d] = pc[d]
      BY <1>1, <2>6, OneMoves
    <3>3. E' = E /\ WT' = WT
      BY <3>1, <3>2 DEF At
    <3> HIDE DEF E, WT, F, WR
    <3> QED
      BY <1>1, <1>2, <2>1, <3>1, <3>3
  <2>7. ASSUME NEW w \in Workers, TakeWaits(w)
        PROVE  /\ E' # {} => Len(queue_') <= Cardinality(WT')
               /\ F' # {} => MaxQueueSize - Len(queue_') <= Cardinality(WR')
    <3>1. queue_' = queue_ /\ Len(queue_) = 0
          /\ pc[w] \in {"taking", "wokenTake"} /\ pc'[w] = "waitNotEmpty"
      BY <1>1, <2>7 DEF TakeWaits, InTake, pool
    <3>2. \A d \in Callers \ {w} : pc'[d] = pc[d]
      BY <1>1, <2>7, OneMoves
    <3>3. F' = F /\ WR' = WR
      BY <3>1, <3>2 DEF At
    <3> HIDE DEF E, WT, F, WR
    <3> QED
      BY <1>1, <1>2, <2>1, <3>1, <3>3
  <2>8. ASSUME NEW c \in Callers, RunPushes(c)
        PROVE  /\ E' # {} => Len(queue_') <= Cardinality(WT')
               /\ F' # {} => MaxQueueSize - Len(queue_') <= Cardinality(WR')
    <3> DEFINE next == [pc EXCEPT ![c] = AfterRun(c)]
    <3>1. /\ \/ pc' = next /\ \A d \in Callers : next[d] # "waitNotEmpty"
             \/ \E x \in Callers : next[x] = "waitNotEmpty" /\ pc' = [next EXCEPT ![x] = "wokenTake"]
          /\ next \in [Callers -> Labels]
      BY <1>1, <2>8, PushesPc
    <3>2. /\ next[c] = AfterRun(c) /\ \A d \in Callers \ {c} : next[d] = pc[d]
          /\ AfterRun(c) \in {"finishing", "idle"} /\ pc[c] \in {"submitting", "wokenRun"}
      BY <1>1, <2>8 DEF RunPushes, InRun, AfterRun
    <3>3. Len(queue_') = Len(queue_) + 1
      <4>1. arg[c] \in Tasks /\ queue_' = Append(queue_, arg[c])
        BY <2>8 DEF RunPushes, InRun, Base, TypeOK, HandsInv, Submitting
      <4> QED
        BY <1>1, <4>1
    <3> HIDE DEF next
    <3>4. E' # {} => Len(queue_') <= Cardinality(WT')
      <4>1. CASE pc' = next /\ \A d \in Callers : next[d] # "waitNotEmpty"
        BY <4>1 DEF At
      <4>2. ASSUME NEW x \in Callers, next[x] = "waitNotEmpty", pc' = [next EXCEPT ![x] = "wokenTake"]
            PROVE  E' # {} => Len(queue_') <= Cardinality(WT')
        <5>1. x # c /\ pc[x] = "waitNotEmpty"
          BY <3>2, <4>2
        <5>2. WT' = WT \union {x} /\ x \notin WT /\ E # {}
          BY <3>1, <3>2, <4>2, <5>1 DEF At
        <5>3. Cardinality(WT') = Cardinality(WT) + 1
          BY <1>2, <5>2, FS_AddElement
        <5> HIDE DEF E, WT
        <5> QED
          BY <1>1, <1>2, <2>1, <3>3, <5>2, <5>3
      <4> QED
        BY <3>1, <4>1, <4>2
    <3>5. F' # {} => MaxQueueSize - Len(queue_') <= Cardinality(WR')
      <4>1. F' = F /\ WR' = WR \ {c}
        BY <3>1, <3>2 DEF At
      <4>2. Cardinality(WR) - 1 <= Cardinality(WR')
        BY <1>2, <4>1, FS_RemoveElement
      <4> HIDE DEF F, WR
      <4> QED
        BY <1>1, <1>2, <2>1, <3>3, <4>1, <4>2
    <3> QED
      BY <3>4, <3>5
  <2>9. ASSUME NEW w \in Workers, TakeReturnsTask(w)
        PROVE  /\ E' # {} => Len(queue_') <= Cardinality(WT')
               /\ F' # {} => MaxQueueSize - Len(queue_') <= Cardinality(WR')
    <3> DEFINE next == [pc EXCEPT ![w] = "executing"]
    <3>1. /\ \/ pc' = next /\ (MaxQueueSize > 0 => \A d \in Callers : next[d] # "waitNotFull")
             \/ \E x \in Callers : next[x] = "waitNotFull" /\ pc' = [next EXCEPT ![x] = "wokenRun"]
          /\ next \in [Callers -> Labels]
      BY <1>1, <2>9, TakesPc
    <3>2. /\ next[w] = "executing" /\ \A d \in Callers \ {w} : next[d] = pc[d]
          /\ pc[w] \in {"taking", "wokenTake"}
      BY <1>1, <2>9 DEF TakeReturnsTask, InTake
    <3>3. Len(queue_') = Len(queue_) - 1
      BY <1>1, <2>9 DEF TakeReturnsTask
    <3> HIDE DEF next
    <3>4. E' # {} => Len(queue_') <= Cardinality(WT')
      <4>1. E' = E /\ WT' = WT \ {w}
        BY <1>1, <3>1, <3>2 DEF At
      <4>2. Cardinality(WT) - 1 <= Cardinality(WT')
        BY <1>2, <4>1, FS_RemoveElement
      <4> HIDE DEF E, WT
      <4> QED
        BY <1>1, <1>2, <2>1, <3>3, <4>1, <4>2
    <3>5. F' # {} => MaxQueueSize - Len(queue_') <= Cardinality(WR')
      <4>1. CASE pc' = next /\ (MaxQueueSize > 0 => \A d \in Callers : next[d] # "waitNotFull")
        <5>1. MaxQueueSize > 0 => F' = {}
          BY <4>1 DEF At
        <5> HIDE DEF F, WR
        <5> QED
          BY <1>1, <1>2, <5>1
      <4>2. ASSUME NEW x \in Callers, next[x] = "waitNotFull", pc' = [next EXCEPT ![x] = "wokenRun"]
            PROVE  F' # {} => MaxQueueSize - Len(queue_') <= Cardinality(WR')
        <5>1. x # w /\ pc[x] = "waitNotFull"
          BY <3>2, <4>2
        <5>2. WR' = WR \union {x} /\ x \notin WR /\ F # {}
          BY <3>1, <3>2, <4>2, <5>1 DEF At
        <5>3. Cardinality(WR') = Cardinality(WR) + 1
          BY <1>2, <5>2, FS_AddElement
        <5> HIDE DEF F, WR
        <5> QED
          BY <1>1, <1>2, <2>1, <3>3, <5>2, <5>3
      <4> QED
        BY <3>1, <4>1, <4>2
    <3> QED
      BY <3>4, <3>5
  <2>10. ~Stop /\ (\A c \in Callers : ~RunGivesUp(c)) /\ \A w \in Workers : ~TakeReturnsNothing(w)
    BY <1>4 DEF Stop, RunGivesUp, TakeReturnsNothing, pool
  <2> QED
    BY <1>1, <2>3, <2>4, <2>5, <2>6, <2>7, <2>8, <2>9, <2>10, StepCases
<1> QED
  BY <1>3, <1>4

\* One notify() per task and per place is enough, whoever overtakes the one notified.
THEOREM ForgottenCorrect == Spec => []NobodyForgotten
<1>1. Init => NobodyForgotten
  BY DEF Init, NobodyForgotten, At
<1>2. Base /\ Base' /\ NobodyForgotten /\ [Next]_vars => NobodyForgotten'
  BY ForgottenKept
<1> QED
  BY BaseAlways, <1>1, <1>2, PTL DEF Spec
=============================================================================
