-------------------------------- MODULE Thread --------------------------------
(***************************************************************************)
(* Threads from start() to join() or destruction: log/Thread.{h,cc}.       *)
(*                                                                         *)
(* A Thread object and the thread it starts shake hands over the object's  *)
(* latch_.  An owner starts several of them, one after the other, and uses *)
(* latches in the two ways CountDownLatch.h names: it waits on "ready"     *)
(* until every thread runs, and lets them all go with "begin", on which    *)
(* they wait.  In the end, or before that if it may detach, it destroys    *)
(* the objects.                                                            *)
(***************************************************************************)
EXTENDS CountDownLatch, FiniteSets

CONSTANTS
  Threads,       \* the Thread objects, and the threads they start
  Owner,
  ready, begin,  \* latches of the application
  Unlucky,       \* the threads whose pthread_create may fail
  MayDetach      \* whether the owner destroys threads it has not joined

ASSUME ThreadAssumption ==
  /\ Callers = Threads \union {Owner} /\ Owner \notin Threads
  /\ Latches = Threads \union {ready, begin}    \* a Thread is named, and so is its latch_
  /\ ready # begin /\ {ready, begin} \intersect Threads = {}
  /\ IsFiniteSet(Threads) /\ Unlucky \subseteq Threads /\ MayDetach \in BOOLEAN

VARIABLES
  started_, joined_, tid_,   \* of every Thread
  alive,       \* the Threads that have not been destroyed
  detached,    \* the threads that have been detached
  child,       \* where the thread of every Thread is
  owner,       \* where the owner is
  current      \* the Thread that the owner starts or joins

objects == <<started_, joined_, tid_, alive, detached>>
vars == <<latchVars, objects, child, owner, current>>

Init ==
  /\ LatchInit([l \in Latches |-> IF l = ready THEN Cardinality(Threads) ELSE 1], ready)
  /\ started_ = [t \in Threads |-> FALSE] /\ joined_ = [t \in Threads |-> FALSE]
  /\ tid_ = [t \in Threads |-> 0]
  /\ alive = Threads /\ detached = {}
  /\ child = [t \in Threads |-> "none"]
  /\ owner = "free" /\ current \in Threads

-----------------------------------------------------------------------------
(***************************************************************************)
(* start(), join() and the destructor.                                     *)
(***************************************************************************)
\* pthread_create() succeeds, and the owner waits for latch_.
Start(t) ==
  /\ owner = "free" /\ t \in alive /\ child[t] = "none"
  /\ started_' = [started_ EXCEPT ![t] = TRUE]
  /\ child' = [child EXCEPT ![t] = "created"]
  /\ owner' = "starting" /\ current' = t
  /\ CallWait(Owner, t)
  /\ UNCHANGED <<joined_, tid_, alive, detached>>

StartReturns ==
  /\ owner = "starting" /\ pc[Owner] = "out"
  /\ owner' = "free"
  /\ UNCHANGED <<latchVars, objects, child, current>>

\* pthread_create() fails and started_ is set back.  The owner looks at started() and
\* counts down in the thread's place.
StartFails(t) ==
  /\ owner = "free" /\ t \in alive \intersect Unlucky /\ child[t] = "none"
  /\ child' = [child EXCEPT ![t] = "failed"]
  /\ owner' = "standingIn" /\ current' = t
  /\ CallCountDown(Owner, ready)
  /\ UNCHANGED objects

StandInReturns ==
  /\ owner = "standingIn" /\ pc[Owner] = "out"
  /\ owner' = "free"
  /\ UNCHANGED <<latchVars, objects, child, current>>

\* join() waits for the thread to end.
Join(t) ==
  /\ owner = "going" /\ t \in alive /\ started_[t] /\ ~joined_[t]
  /\ joined_' = [joined_ EXCEPT ![t] = TRUE]
  /\ owner' = "joining" /\ current' = t
  /\ UNCHANGED <<latchVars, started_, tid_, alive, detached, child>>

JoinReturns ==
  /\ owner = "joining" /\ child[current] = "ended"
  /\ owner' = "going"
  /\ UNCHANGED <<latchVars, objects, child, current>>

\* The destructor detaches a thread that was started and not joined.
Destroy(t) ==
  /\ owner \in {"free", "going"} /\ t \in alive
  /\ child[t] # "none"
  /\ MayDetach \/ ~started_[t] \/ joined_[t]
  /\ alive' = alive \ {t}
  /\ detached' = IF started_[t] /\ ~joined_[t] THEN detached \union {t} ELSE detached
  /\ UNCHANGED <<latchVars, started_, joined_, tid_, child, owner, current>>

-----------------------------------------------------------------------------
(***************************************************************************)
(* The owner's use of the latches "ready" and "begin".                     *)
(***************************************************************************)
AwaitReady ==
  /\ owner = "free" /\ \A t \in Threads : child[t] # "none"
  /\ owner' = "awaiting" /\ CallWait(Owner, ready)
  /\ UNCHANGED <<objects, child, current>>

LetGo ==
  /\ owner = "awaiting" /\ pc[Owner] = "out"
  /\ owner' = "lettingGo" /\ CallCountDown(Owner, begin)
  /\ UNCHANGED <<objects, child, current>>

LetGoReturns ==
  /\ owner = "lettingGo" /\ pc[Owner] = "out"
  /\ owner' = "going"
  /\ UNCHANGED <<latchVars, objects, child, current>>

-----------------------------------------------------------------------------
(***************************************************************************)
(* runInThread(), which works on the Thread until it has called func_.     *)
(***************************************************************************)
\* tid_ is set, then latch_ counted down.
SetTid(t) ==
  /\ child[t] = "created" /\ child' = [child EXCEPT ![t] = "counting"]
  /\ tid_' = [tid_ EXCEPT ![t] = 1]
  /\ CallCountDown(t, t)
  /\ UNCHANGED <<started_, joined_, alive, detached, owner, current>>

\* Where runInThread() still has to take something from the Thread.
WorksOnThread(t) == child[t] \in {"created", "counting", "named"}

\* t_threadName and prctl() take the name from name_.
SetName(t) ==
  /\ child[t] = "counting" /\ pc[t] = "out" /\ t \in alive
  /\ child' = [child EXCEPT ![t] = "named"]
  /\ UNCHANGED <<latchVars, objects, owner, current>>

\* func_(), which counts "ready" down and waits for "begin".
CallFunc(t) ==
  /\ child[t] = "named" /\ t \in alive /\ child' = [child EXCEPT ![t] = "inFunc"]
  /\ CallCountDown(t, ready)
  /\ UNCHANGED <<objects, owner, current>>

FuncWaits(t) ==
  /\ child[t] = "inFunc" /\ pc[t] = "out"
  /\ child' = [child EXCEPT ![t] = "waiting"]
  /\ CallWait(t, begin)
  /\ UNCHANGED <<objects, owner, current>>

FuncReturns(t) ==
  /\ child[t] = "waiting" /\ pc[t] = "out"
  /\ child' = [child EXCEPT ![t] = "ended"]
  /\ UNCHANGED <<latchVars, objects, owner, current>>

\* name_ or func_ is read in a Thread that is no more: undefined behaviour, of which
\* nothing more is said.
ReadsDead(t) ==
  /\ WorksOnThread(t) /\ pc[t] = "out" /\ t \notin alive
  /\ child' = [child EXCEPT ![t] = "undefined"]
  /\ UNCHANGED <<latchVars, objects, owner, current>>

-----------------------------------------------------------------------------
OwnerStep ==
  \/ StartReturns \/ StandInReturns \/ JoinReturns
  \/ AwaitReady \/ LetGo \/ LetGoReturns
  \/ \E t \in Threads : Start(t) \/ StartFails(t) \/ Join(t) \/ Destroy(t)

ChildStep(t) ==
  \/ SetTid(t) \/ SetName(t) \/ CallFunc(t) \/ FuncWaits(t) \/ FuncReturns(t)
  \/ ReadsDead(t)

Undefined == \E t \in Threads : child[t] = "undefined"

InLatch(c) ==
  LatchStep(c) /\ UNCHANGED <<objects, child, owner, current>>

SpuriousWakeUp ==
  /\ \E c \in Callers : WakeForNoReason(c)
  /\ UNCHANGED <<objects, child, owner, current>>

\* All objects are destroyed, all threads have ended; or behaviour is undefined; or
\* somebody sleeps, for ever if nobody wakes him, which WaitersAreReleased rules out.
Terminated ==
  /\ \/ \E c \in Callers : pc[c] = "asleep"
     \/ alive = {} /\ owner = "going" /\ \A t \in Threads : child[t] \in {"failed", "ended"}
     \/ Undefined
  /\ UNCHANGED vars

Next ==
  \/ OwnerStep \/ SpuriousWakeUp \/ Terminated
  \/ \E t \in Threads : ChildStep(t)
  \/ \E c \in Callers : InLatch(c)

Spec == Init /\ [][Next]_vars

\* The scheduler runs every thread that can run; nobody wakes up by himself for ever.
FairSpec ==
  /\ Spec
  /\ WF_vars(OwnerStep) /\ \A t \in Threads : WF_vars(ChildStep(t))
  /\ \A c \in Callers : WF_vars(InLatch(c))

-----------------------------------------------------------------------------
(***************************************************************************)
(* Safety.                                                                 *)
(***************************************************************************)
\* Nobody gets past a latch before the others have counted it down, even if woken for
\* no reason: when start() has returned the thread has its tid, the assert in start();
\* the owner goes on when all threads are ready, and they when it has let them go.
NobodyPassesEarly ==
  /\ \A t \in Threads :
       started_[t] /\ ~(owner = "starting" /\ current = t) => tid_[t] > 0
  /\ owner \in {"lettingGo", "going", "joining"} =>
       \A t \in Threads : child[t] \in {"failed", "inFunc", "waiting", "ended"}
  /\ \A t \in Threads : child[t] = "ended" => owner \in {"lettingGo", "going", "joining"}

\* start() may return, and the Thread be destroyed, as soon as its thread has counted
\* latch_ down: by then that thread has done with the latch, notifyAll() and unlock()
\* included.  A thread that was not detached has ended when its Thread is destroyed.
NothingDeadIsTouched ==
  /\ \A c \in Callers : pc[c] # "out" /\ latch[c] \in Threads => latch[c] \in alive
  /\ \A t \in Threads \ (alive \union detached) : child[t] \in {"failed", "ended"}

\* "t5 may destruct eariler than thread creation" (tests/Thread_test.cc:84): a Thread
\* may be destroyed while its thread, detached, goes on.
ThreadMayBeDestroyed == \A t \in Threads : WorksOnThread(t) => t \in alive

-----------------------------------------------------------------------------
(***************************************************************************)
(* Liveness.                                                               *)
(***************************************************************************)
\* Everyone who waits at a latch is released, in start() too, however many wait.
WaitersAreReleased ==
  \A c \in Callers : pc[c] = "asleep" ~> pc[c] = "out" \/ Undefined
=============================================================================
