----------------------------- MODULE ThreadPool -----------------------------
(***************************************************************************)
(* The thread pool: log/ThreadPool.{h,cc}.                                 *)
(*                                                                         *)
(* One owner calls start() and stop(); workers run runInThread(), which    *)
(* takes tasks from a queue; run() is called by client threads and, from   *)
(* within a task, by the workers themselves.  One action is one critical   *)
(* section of mutex_, from lock to unlock or to the release inside a       *)
(* condition wait, or one read of running_ outside of it.                  *)
(*                                                                         *)
(* running_ is a plain bool that runInThread() reads without the mutex     *)
(* while stop() writes it.  take() lies between two such reads, so the     *)
(* compiler cannot keep the value in a register, and the load of a byte    *)
(* gives the value before the store or the one after: reading it in a step *)
(* of its own covers both.                                                 *)
(***************************************************************************)
EXTENDS Integers, Sequences, FiniteSets, SequencesExt

CONSTANTS
  NumThreads,    \* numThreads of start()
  Clients,       \* threads outside the pool that call run()
  MaxQueueSize,  \* maxQueueSize_, 0 for a queue without a limit
  NestedTasks,   \* the tasks that may call run() themselves, once
  Unlucky,       \* the workers whose pthread_create may fail
  MaxTasks       \* bound: number of calls of run(), which end there

Workers == 1 .. NumThreads
Callers == Workers \union Clients

ASSUME PoolAssumption ==
  /\ NumThreads \in Nat /\ MaxQueueSize \in Nat /\ MaxTasks \in Nat
  /\ Clients \intersect Nat = {} /\ IsFiniteSet(Clients)
  /\ NestedTasks \subseteq 1 .. MaxTasks
  /\ Unlucky \subseteq Workers

VARIABLES
  running_,
  queue_,      \* std::deque<Task>
  threads_,    \* threads_.size()
  owner,       \* where the owner is in start() and stop()
  joined,      \* how many threads stop() has joined
  pc,          \* where each worker and each client is
  task,        \* the task a worker has in hand, 0 for an empty function
  arg,         \* the task a caller of run() passed
  calls,       \* how many times run() has been called: tasks are numbered so
  pushed,      \* history: the tasks that entered the queue, in order
  done,        \* history: the tasks that have been executed
  rejected,    \* history: the tasks that run() gave up because of stop()
  atStop       \* history: how many tasks were queued when stop() began

pool    == <<running_, queue_, threads_>>
ownerAt == <<owner, joined>>
history == <<calls, pushed, done, rejected, atStop>>
vars    == <<pool, ownerAt, pc, task, arg, history>>

Init ==
  /\ running_ = FALSE /\ queue_ = <<>> /\ threads_ = 0
  /\ owner = "constructed" /\ joined = 0
  /\ pc = [c \in Callers |-> IF c \in Workers THEN "none" ELSE "idle"]
  /\ task = [w \in Workers |-> 0] /\ arg = [c \in Callers |-> 0]
  /\ calls = 0 /\ pushed = <<>> /\ done = {} /\ rejected = {} /\ atStop = 0

-----------------------------------------------------------------------------
(***************************************************************************)
(* The two condition variables.                                            *)
(***************************************************************************)
At(label) == {c \in Callers : pc[c] = label}

NotifyForgotten(pcs, waiting, woken) == {pcs}    \* fault

\* The program counters after notify() on a condition: any one waiter wakes.
Notified(pcs, waiting, woken) ==
  LET waiters == {c \in Callers : pcs[c] = waiting}
  IN IF waiters = {} THEN {pcs} ELSE {[pcs EXCEPT ![c] = woken] : c \in waiters}

WakeUp(label) ==
  CASE label = "waitNotEmpty" -> "wokenTake"
    [] label = "waitNotFull"  -> "wokenRun"
    [] OTHER -> label

\* pthread_cond_wait() may return for no reason.
SpuriousWakeUp(c) ==
  /\ pc[c] \in {"waitNotEmpty", "waitNotFull"}
  /\ pc' = [pc EXCEPT ![c] = WakeUp(@)]
  /\ UNCHANGED <<pool, ownerAt, task, arg, history>>

-----------------------------------------------------------------------------
(***************************************************************************)
(* The owner.                                                              *)
(***************************************************************************)
Start ==
  /\ owner = "constructed" /\ owner' = "starting"
  /\ running_' = TRUE
  /\ UNCHANGED <<queue_, threads_, joined, pc, task, arg, history>>

\* Thread::start() waits until the thread runs, and tells nobody if there is
\* none; the Thread object is in threads_ either way.
CreateThread ==
  /\ owner = "starting" /\ threads_ < NumThreads
  /\ threads_' = threads_ + 1
  /\ \/ pc' = [pc EXCEPT ![threads_'] = "init"]
     \/ threads_' \in Unlucky /\ pc' = [pc EXCEPT ![threads_'] = "failed"]
  /\ UNCHANGED <<running_, queue_, ownerAt, task, arg, history>>

StartReturns ==
  /\ owner = "starting" /\ threads_ = NumThreads
  /\ owner' = "started"
  /\ UNCHANGED <<pool, joined, pc, task, arg, history>>

StopWakesTakersOnly ==    \* fault: notFull_.notifyAll() forgotten
  /\ owner = "started" /\ owner' = "joining"
  /\ running_' = FALSE
  /\ pc' = [c \in Callers |-> IF pc[c] = "waitNotEmpty" THEN "wokenTake" ELSE pc[c]]
  /\ atStop' = Len(queue_)
  /\ UNCHANGED <<queue_, threads_, joined, task, arg, calls, pushed, done, rejected>>

Stop ==
  /\ owner = "started" /\ owner' = "joining"
  /\ running_' = FALSE
  /\ pc' = [c \in Callers |-> WakeUp(pc[c])]
  /\ atStop' = Len(queue_)
  /\ UNCHANGED <<queue_, threads_, joined, task, arg, calls, pushed, done, rejected>>

JoinWithoutWaiting ==    \* fault
  /\ owner = "joining" /\ joined < threads_
  /\ joined' = joined + 1
  /\ UNCHANGED <<pool, owner, pc, task, arg, history>>

\* join() on a thread that was never created reads an uninitialised pthread_t's
\* zero: whatever follows is undefined.
Join ==
  /\ owner = "joining" /\ joined < threads_
  /\ \/ pc[joined + 1] = "exited" /\ joined' = joined + 1 /\ UNCHANGED owner
     \/ pc[joined + 1] = "failed" /\ owner' = "undefined" /\ UNCHANGED joined
  /\ UNCHANGED <<pool, pc, task, arg, history>>

StopReturns ==
  /\ owner = "joining" /\ joined = threads_
  /\ owner' = "stopped"
  /\ UNCHANGED <<pool, joined, pc, task, arg, history>>

-----------------------------------------------------------------------------
(***************************************************************************)
(* run().  Clients call it when start() is not under way: it reads         *)
(* threads_ without a lock.                                                *)
(***************************************************************************)
ClientCallsRun(c) ==
  /\ pc[c] = "idle" /\ owner # "starting" /\ calls < MaxTasks
  /\ calls' = calls + 1
  /\ IF threads_ = 0
     THEN done' = done \union {calls'} /\ UNCHANGED <<pc, arg>>
     ELSE /\ pc' = [pc EXCEPT ![c] = "submitting"]
          /\ arg' = [arg EXCEPT ![c] = calls']
          /\ UNCHANGED done
  /\ UNCHANGED <<pool, ownerAt, task, pushed, rejected, atStop>>

TaskCallsRun(w) ==
  /\ pc[w] = "executing" /\ task[w] \in NestedTasks /\ calls < MaxTasks
  /\ calls' = calls + 1
  /\ pc' = [pc EXCEPT ![w] = "submitting"]
  /\ arg' = [arg EXCEPT ![w] = calls']
  /\ UNCHANGED <<pool, ownerAt, task, pushed, done, rejected, atStop>>

IsOverfull == MaxQueueSize > 0 /\ Len(queue_) > MaxQueueSize    \* fault

IsFull == MaxQueueSize > 0 /\ Len(queue_) >= MaxQueueSize

InRun(c) == pc[c] \in {"submitting", "wokenRun"}

AfterRun(c) == IF c \in Workers THEN "finishing" ELSE "idle"

RunWaits(c) ==
  /\ InRun(c) /\ running_ /\ IsFull
  /\ pc' = [pc EXCEPT ![c] = "waitNotFull"]
  /\ UNCHANGED <<pool, ownerAt, task, arg, history>>

RunGivesUp(c) ==
  /\ InRun(c) /\ ~running_
  /\ rejected' = rejected \union {arg[c]}
  /\ arg' = [arg EXCEPT ![c] = 0]
  /\ pc' = [pc EXCEPT ![c] = AfterRun(c)]
  /\ UNCHANGED <<pool, ownerAt, task, calls, pushed, done, atStop>>

RunPushesInFront(c) ==    \* fault
  /\ InRun(c) /\ running_ /\ ~IsFull
  /\ queue_' = <<arg[c]>> \o queue_
  /\ pushed' = Append(pushed, arg[c])
  /\ arg' = [arg EXCEPT ![c] = 0]
  /\ pc' \in Notified([pc EXCEPT ![c] = AfterRun(c)], "waitNotEmpty", "wokenTake")
  /\ UNCHANGED <<running_, threads_, ownerAt, task, calls, done, rejected, atStop>>

RunPushes(c) ==
  /\ InRun(c) /\ running_ /\ ~IsFull
  /\ queue_' = Append(queue_, arg[c])
  /\ pushed' = Append(pushed, arg[c])
  /\ arg' = [arg EXCEPT ![c] = 0]
  /\ pc' \in Notified([pc EXCEPT ![c] = AfterRun(c)], "waitNotEmpty", "wokenTake")
  /\ UNCHANGED <<running_, threads_, ownerAt, task, calls, done, rejected, atStop>>

-----------------------------------------------------------------------------
(***************************************************************************)
(* runInThread() and take().                                               *)
(***************************************************************************)
InitCallback(w) ==
  /\ pc[w] = "init"
  /\ pc' = [pc EXCEPT ![w] = "testing"]
  /\ UNCHANGED <<pool, ownerAt, task, arg, history>>

TestQueueToo(w) ==    \* fault: the queue is drained before the thread ends
  /\ pc[w] = "testing"
  /\ pc' = [pc EXCEPT ![w] = IF running_ \/ queue_ # <<>> THEN "taking" ELSE "exited"]
  /\ UNCHANGED <<pool, ownerAt, task, arg, history>>

TestRunning(w) ==
  /\ pc[w] = "testing"
  /\ pc' = [pc EXCEPT ![w] = IF running_ THEN "taking" ELSE "exited"]
  /\ UNCHANGED <<pool, ownerAt, task, arg, history>>

InTake(w) == pc[w] \in {"taking", "wokenTake"}

TakeWaits(w) ==
  /\ InTake(w) /\ running_ /\ queue_ = <<>>
  /\ pc' = [pc EXCEPT ![w] = "waitNotEmpty"]
  /\ UNCHANGED <<pool, ownerAt, task, arg, history>>

TakeReturnsNothing(w) ==
  /\ InTake(w) /\ ~running_ /\ queue_ = <<>>
  /\ pc' = [pc EXCEPT ![w] = "testing"]
  /\ UNCHANGED <<pool, ownerAt, task, arg, history>>

TakeWithoutPop(w) ==    \* fault: pop_front() forgotten
  /\ InTake(w) /\ queue_ # <<>>
  /\ task' = [task EXCEPT ![w] = Head(queue_)]
  /\ pc' = [pc EXCEPT ![w] = "executing"]
  /\ UNCHANGED <<pool, ownerAt, arg, history>>

TakeReturnsTask(w) ==
  /\ InTake(w) /\ queue_ # <<>>
  /\ task' = [task EXCEPT ![w] = Head(queue_)]
  /\ queue_' = Tail(queue_)
  /\ LET next == [pc EXCEPT ![w] = "executing"]
     IN pc' \in IF MaxQueueSize > 0 THEN Notified(next, "waitNotFull", "wokenRun")
                                    ELSE {next}
  /\ UNCHANGED <<running_, threads_, ownerAt, arg, history>>

Finish(w) ==
  /\ pc[w] \in {"executing", "finishing"}
  /\ done' = done \union {task[w]}
  /\ task' = [task EXCEPT ![w] = 0]
  /\ pc' = [pc EXCEPT ![w] = "testing"]
  /\ UNCHANGED <<pool, ownerAt, arg, calls, pushed, rejected, atStop>>

-----------------------------------------------------------------------------
OwnerStep == CreateThread \/ StartReturns \/ Join \/ StopReturns

RunStep(c) == RunWaits(c) \/ RunGivesUp(c) \/ RunPushes(c)

WorkerStep(w) ==
  \/ InitCallback(w) \/ TestRunning(w)
  \/ TakeWaits(w) \/ TakeReturnsNothing(w) \/ TakeReturnsTask(w)
  \/ TaskCallsRun(w) \/ RunStep(w) \/ Finish(w)

\* Everybody has come to rest: stop() has returned, or never will.
Terminated ==
  /\ owner \in {"stopped", "undefined"} /\ calls = MaxTasks
  /\ \A c \in Callers : pc[c] \in {"idle", "none", "exited", "failed"}
  /\ UNCHANGED vars

Next ==
  \/ Start \/ Stop \/ OwnerStep
  \/ \E c \in Clients : ClientCallsRun(c) \/ RunStep(c)
  \/ \E w \in Workers : WorkerStep(w)
  \/ \E c \in Callers : SpuriousWakeUp(c)
  \/ Terminated

Spec == Init /\ [][Next]_vars

\* The scheduler runs every thread that can run, and tasks end.  Nobody has to
\* call start(), run() or stop(), and no waiter wakes up by itself.
FairSpec ==
  /\ Spec
  /\ WF_vars(OwnerStep)
  /\ \A c \in Clients : WF_vars(RunStep(c))
  /\ \A w \in Workers : WF_vars(WorkerStep(w))

-----------------------------------------------------------------------------
(***************************************************************************)
(* Safety.                                                                 *)
(***************************************************************************)
Tasks == 1 .. calls

\* Every variable has its type; above all, the queue never outgrows its limit, however
\* many callers wait for room and whoever overtakes them: the assert of run().
TypeOK ==
  /\ running_ \in BOOLEAN
  /\ queue_ \in Seq(Tasks) /\ (MaxQueueSize > 0 => Len(queue_) <= MaxQueueSize)
  /\ threads_ \in 0 .. NumThreads
  /\ owner \in {"constructed", "starting", "started", "joining", "stopped", "undefined"}
  /\ joined \in 0 .. threads_
  /\ pc \in [Callers -> {"none", "init", "failed", "testing", "taking", "waitNotEmpty",
                         "wokenTake", "executing", "submitting", "waitNotFull", "wokenRun",
                         "finishing", "exited", "idle"}]
  /\ task \in [Workers -> {0} \union Tasks]
  /\ arg \in [Callers -> {0} \union Tasks]
  /\ calls \in 0 .. MaxTasks
  /\ pushed \in Seq(Tasks)
  /\ done \subseteq Tasks /\ rejected \subseteq Tasks
  /\ atStop \in Nat

\* A task given to run() is always in exactly one place: with its caller, in the
\* queue, in the hands of one worker, executed, or given up because of stop().
OnePlace ==
  \A t \in Tasks :
    Cardinality({c \in Callers : arg[c] = t}) + Cardinality({i \in DOMAIN queue_ : queue_[i] = t})
      + Cardinality({w \in Workers : task[w] = t})
      + Cardinality({t} \intersect done) + Cardinality({t} \intersect rejected) = 1

\* Tasks leave the queue in the order in which they entered it.
FirstComeFirstServed ==
  /\ Len(queue_) <= Len(pushed)
  /\ queue_ = SubSeq(pushed, Len(pushed) - Len(queue_) + 1, Len(pushed))

\* Whoever sleeps has no reason to be up: while a worker waits for a task, every
\* queued task has a worker on its way to it; while a caller waits for room, every
\* free place has a caller on its way.  One notify() per task and per place is
\* enough although workers and callers may overtake the one that was notified.
NobodyForgotten ==
  /\ At("waitNotEmpty") # {} => running_ /\ Len(queue_) <= Cardinality(At("wokenTake"))
  /\ At("waitNotFull") # {} =>
       running_ /\ MaxQueueSize - Len(queue_) <= Cardinality(At("wokenRun"))

\* stop() does not drain the queue: after it has cleared running_, each worker that
\* there is takes one more task at most.
StopIsPrompt ==
  owner \in {"joining", "stopped"} =>
    atStop - Len(queue_) <= Cardinality({w \in Workers : pc[w] # "failed"})

\* When stop() has returned no task of the pool runs any more, so that what the
\* tasks refer to may be destroyed.
NothingRunsAfterStop ==
  [][owner = "stopped" /\ threads_ > 0 => UNCHANGED <<done, task, queue_>>]_vars

\* stop() joins only threads that were created: the assert(started_) of
\* Thread::join() (Thread.cc:145).
JoinsStartedThreads == owner # "undefined"

-----------------------------------------------------------------------------
(***************************************************************************)
(* Liveness.                                                               *)
(***************************************************************************)
\* Tasks that call run() may leave every worker waiting for room in the queue that
\* only the workers empty.
AllStuck == \A w \in Workers : pc[w] \in {"waitNotFull", "failed"}

\* A queued task is executed unless the pool is stopped or all workers are stuck:
\* one worker that is not keeps the others going.
TasksAreExecuted ==
  \A t \in 1 .. MaxTasks : t \in ToSet(queue_) ~> t \in done \/ ~running_ \/ AllStuck

\* From some time on nobody calls run() any more.
CallsEnd == <>[][UNCHANGED calls]_calls

\* run() returns once the calls come to an end: room is made for every client that
\* waits for it, or stop() lets it go, unless all workers are stuck.  While others go
\* on calling, nothing of the kind is promised: a client woken at notFull_ may find the
\* place taken by one who came later, and wait again, as often as that happens.
RunReturnsOnceCallsEnd ==
  CallsEnd => \A c \in Clients : pc[c] = "submitting" ~> pc[c] = "idle" \/ AllStuck

\* stop() returns even if all workers and clients are stuck in run(), on a full
\* queue that only they could empty, or goes astray joining a thread that never was.
StopAlwaysReturns == owner = "joining" ~> owner \in {"stopped", "undefined"}
=============================================================================
