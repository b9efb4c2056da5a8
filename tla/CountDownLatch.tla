--------------------------- MODULE CountDownLatch ---------------------------
(***************************************************************************)
(* Latches, lock by lock: log/CountDownLatch.{h,cc}, with the MutexLock of *)
(* log/Mutex.h and the Condition of log/Condition.h they are made of.      *)
(*                                                                         *)
(* A step is a call into pthreads or an access to the latch, with what     *)
(* goes before it that no other thread can see: a caller that has the      *)
(* mutex and has not yet said so in holder_ looks to the others, who       *)
(* compare holder_ with themselves, like one that has.  What the callers   *)
(* do between two calls is left to the module that extends this one.       *)
(***************************************************************************)
EXTENDS Integers

CONSTANTS
  Callers,       \* the threads
  Latches,
  Nobody,        \* no thread, the tid 0
  MaxSpurious    \* bound: how many waits end for no reason

ASSUME LatchAssumption == Nobody \notin Callers /\ MaxSpurious \in Nat

VARIABLES
  count_,      \* of every latch
  mutex,       \* who has its pthread mutex
  holder_,     \* who is said to have it
  pc,          \* where every caller is in wait() or countDown(), "out" if in neither
  latch,       \* the latch whose wait() or countDown() it is in, or was in last
  spurious     \* how many waits have ended for no reason

locks     == <<mutex, holder_>>
latchVars == <<count_, locks, pc, latch, spurious>>

\* Every latch is constructed with the count counts[l].
LatchInit(counts, anyLatch) ==
  /\ count_ = counts
  /\ mutex = [l \in Latches |-> Nobody] /\ holder_ = [l \in Latches |-> Nobody]
  /\ pc = [c \in Callers |-> "out"] /\ latch = [c \in Callers |-> anyLatch]
  /\ spurious = 0

Goto(c, label) == pc' = [pc EXCEPT ![c] = label]

CallLatch(c, l, label) ==
  /\ pc[c] = "out" /\ Goto(c, label)
  /\ latch' = [latch EXCEPT ![c] = l]
  /\ UNCHANGED <<count_, locks, spurious>>

CallWait(c, l) == CallLatch(c, l, "lockToWait")
CallCountDown(c, l) == CallLatch(c, l, "lockToCountDown")

-----------------------------------------------------------------------------
(***************************************************************************)
(* MutexLock.                                                              *)
(***************************************************************************)
\* lock(): pthread_mutex_lock() and assignHolder().
Lock(c) ==
  /\ mutex[latch[c]] = Nobody
  /\ mutex' = [mutex EXCEPT ![latch[c]] = c]
  /\ holder_' = [holder_ EXCEPT ![latch[c]] = c]

HolderStays(c) ==    \* fault: unlock() without unassignHolder()
  /\ pc[c] = "unlock" /\ Goto(c, "release")
  /\ UNCHANGED <<count_, locks, latch, spurious>>

\* unlock(), first unassignHolder() ...
Unassign(c) ==
  /\ pc[c] = "unlock" /\ Goto(c, "release")
  /\ holder_' = [holder_ EXCEPT ![latch[c]] = Nobody]
  /\ UNCHANGED <<count_, mutex, latch, spurious>>

\* ... then pthread_mutex_unlock(), after which the caller does not touch the latch.
Release(c) ==
  /\ pc[c] = "release" /\ Goto(c, "out")
  /\ mutex' = [mutex EXCEPT ![latch[c]] = Nobody]
  /\ UNCHANGED <<count_, holder_, latch, spurious>>

-----------------------------------------------------------------------------
(***************************************************************************)
(* wait() and Condition::wait().                                           *)
(***************************************************************************)
LockToWait(c) ==
  /\ pc[c] = "lockToWait" /\ Lock(c) /\ Goto(c, "test")
  /\ UNCHANGED <<count_, latch, spurious>>

\* The condition of the loop; if it holds, the UnassignGuard and pthread_cond_wait().
TestCount(c) ==
  /\ pc[c] = "test"
  /\ \/ count_[latch[c]] > 0 /\ Goto(c, "asleep")
        /\ mutex' = [mutex EXCEPT ![latch[c]] = Nobody]
        /\ holder_' = [holder_ EXCEPT ![latch[c]] = Nobody]
     \/ count_[latch[c]] <= 0 /\ Goto(c, "unlock") /\ UNCHANGED locks
  /\ UNCHANGED <<count_, latch, spurious>>

WakeForNoReason(c) ==
  /\ pc[c] = "asleep" /\ spurious < MaxSpurious /\ Goto(c, "woken")
  /\ spurious' = spurious + 1
  /\ UNCHANGED <<count_, locks, latch>>

RelockOnce(c) ==    \* fault: if instead of while
  /\ pc[c] = "woken" /\ Lock(c) /\ Goto(c, "unlock")
  /\ UNCHANGED <<count_, latch, spurious>>

\* pthread_cond_wait() returns with the mutex; the end of the UnassignGuard.
Relock(c) ==
  /\ pc[c] = "woken" /\ Lock(c) /\ Goto(c, "test")
  /\ UNCHANGED <<count_, latch, spurious>>

-----------------------------------------------------------------------------
(***************************************************************************)
(* countDown().                                                            *)
(***************************************************************************)
LockToCountDown(c) ==
  /\ pc[c] = "lockToCountDown" /\ Lock(c) /\ Goto(c, "down")
  /\ UNCHANGED <<count_, latch, spurious>>

UnlockThenNotify(c) ==    \* fault: the guard ends before notifyAll()
  /\ pc[c] = "down"
  /\ count_' = [count_ EXCEPT ![latch[c]] = @ - 1]
  /\ Goto(c, IF count_'[latch[c]] = 0 THEN "notify" ELSE "out")
  /\ mutex' = [mutex EXCEPT ![latch[c]] = Nobody]
  /\ holder_' = [holder_ EXCEPT ![latch[c]] = Nobody]
  /\ UNCHANGED <<latch, spurious>>

CountDown(c) ==
  /\ pc[c] = "down"
  /\ count_' = [count_ EXCEPT ![latch[c]] = @ - 1]
  /\ Goto(c, IF count_'[latch[c]] = 0 THEN "notify" ELSE "unlock")
  /\ UNCHANGED <<locks, latch, spurious>>

Sleepers(l) == {c \in Callers : pc[c] = "asleep" /\ latch[c] = l}

NotifyOne(c) ==    \* fault: notify() instead of notifyAll()
  /\ pc[c] = "notify"
  /\ IF Sleepers(latch[c]) = {} THEN Goto(c, "unlock")
     ELSE \E s \in Sleepers(latch[c]) : pc' = [pc EXCEPT ![c] = "unlock", ![s] = "woken"]
  /\ UNCHANGED <<count_, locks, latch, spurious>>

NotifyAll(c) ==
  /\ pc[c] = "notify"
  /\ pc' = [d \in Callers |-> IF d = c THEN "unlock"
                              ELSE IF d \in Sleepers(latch[c]) THEN "woken" ELSE pc[d]]
  /\ UNCHANGED <<count_, locks, latch, spurious>>

LatchStep(c) ==
  \/ LockToWait(c) \/ TestCount(c) \/ Relock(c)
  \/ LockToCountDown(c) \/ CountDown(c) \/ NotifyAll(c)
  \/ Unassign(c) \/ Release(c)

-----------------------------------------------------------------------------
\* isLockedByThisThread() is right, whoever asks: who is inside has holder_, from
\* lock() to unlock() and after a wait, and who has holder_ has the mutex.
HolderIsRight ==
  \A c \in Callers, l \in Latches :
    /\ pc[c] \in {"test", "down", "notify", "unlock"} /\ latch[c] = l => holder_[l] = c
    /\ holder_[l] = c => mutex[l] = c
=============================================================================
