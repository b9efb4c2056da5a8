---------------------------- MODULE Thread_proofs ----------------------------
(***************************************************************************)
(* Proofs about CountDownLatch and Thread, for any number of threads and   *)
(* of spurious wake-ups, whichever threads cannot be created.              *)
(*                                                                         *)
(* LockInv concerns the latches alone.  The others say where owner and     *)
(* children stand (OwnerInv, ChildInv), who has counted what (CountInv)    *)
(* and what is true behind a latch (PassInv).                              *)
(***************************************************************************)
EXTENDS Thread, FiniteSetTheorems, TLAPS

toCount == {"lockToCountDown", "down"}
past    == {"unlock", "release", "out"}
inCountDown == toCount \union {"notify"} \union past
inWait  == {"lockToWait", "test", "asleep", "woken"} \union past
inside  == {"test", "down", "notify", "unlock"}

LatchType ==
  /\ count_ \in [Latches -> Int]
  /\ mutex \in [Latches -> Callers \union {Nobody}]
  /\ holder_ \in [Latches -> Callers \union {Nobody}]
  /\ pc \in [Callers -> inCountDown \union inWait]
  /\ latch \in [Callers -> Latches]
  /\ spurious \in Nat

LockInv ==
  /\ \A c \in Callers :
       /\ pc[c] \in inside => holder_[latch[c]] = c
       /\ pc[c] \in inside \union {"release"} => mutex[latch[c]] = c
       /\ pc[c] = "release" => holder_[latch[c]] = Nobody
  /\ \A l \in Latches : holder_[l] # Nobody => holder_[l] = mutex[l]

childPlaces == {"none", "created", "counting", "named", "inFunc", "waiting", "ended",
                "failed", "undefined"}
letGo       == {"lettingGo", "going", "joining"}
ownerPlaces == {"free", "starting", "standingIn", "awaiting"} \union letGo

ThreadType ==
  /\ started_ \in [Threads -> BOOLEAN] /\ joined_ \in [Threads -> BOOLEAN]
  /\ tid_ \in [Threads -> {0, 1}]
  /\ alive \subseteq Threads /\ detached \subseteq Threads
  /\ child \in [Threads -> childPlaces]
  /\ owner \in ownerPlaces /\ current \in Threads

OwnerInv ==
  /\ owner \in {"free", "going", "joining"} => pc[Owner] = "out"
  /\ owner = "starting" =>
       /\ latch[Owner] = current /\ pc[Owner] \in inWait
       /\ current \in alive /\ started_[current]
  /\ owner = "standingIn" =>
       latch[Owner] = ready /\ pc[Owner] \in inCountDown /\ child[current] = "failed"
  /\ owner = "awaiting" => latch[Owner] = ready /\ pc[Owner] \in inWait
  /\ owner = "lettingGo" => latch[Owner] = begin /\ pc[Owner] \in inCountDown

ChildInv ==
  \A t \in Threads :
    /\ child[t] \notin {"counting", "inFunc", "waiting"} => pc[t] = "out"
    /\ child[t] = "counting" => latch[t] = t /\ pc[t] \in inCountDown
    /\ child[t] = "inFunc" => latch[t] = ready /\ pc[t] \in inCountDown
    /\ child[t] = "waiting" => latch[t] = begin /\ pc[t] \in inWait
    /\ started_[t] <=> child[t] \notin {"none", "failed"}
    /\ child[t] \notin {"none", "failed", "created"} => tid_[t] = 1
    /\ joined_[t] /\ ~(owner = "joining" /\ current = t) => child[t] = "ended"
    /\ t \notin alive => child[t] # "none"
    /\ t \notin alive \union detached => child[t] \in {"failed", "ended"}

\* Who has still to count "ready" down, himself or, for one that failed, the owner.
NotReady ==
  {t \in Threads :
     \/ child[t] \in {"none", "created", "counting", "named", "undefined"}
     \/ child[t] = "failed" /\ owner = "standingIn" /\ current = t /\ pc[Owner] \in toCount
     \/ child[t] = "inFunc" /\ pc[t] \in toCount}

CountInv ==
  /\ \A t \in Threads :
       count_[t] = IF \/ child[t] \in {"none", "created", "failed"}
                      \/ child[t] = "counting" /\ pc[t] \in toCount THEN 1 ELSE 0
  /\ count_[ready] = Cardinality(NotReady)
  /\ count_[begin] = IF owner \in letGo /\ ~(owner = "lettingGo" /\ pc[Owner] \in toCount)
                     THEN 0 ELSE 1

\* The thread t is done with its latch_.
HasDone(t) == child[t] # "created" /\ (child[t] = "counting" => pc[t] = "out")

PassInv ==
  /\ \A t \in Threads :
       /\ started_[t] /\ (owner = "starting" /\ current = t => pc[Owner] \in past) => HasDone(t)
       /\ child[t] = "waiting" /\ pc[t] \in past => owner \in letGo
       /\ child[t] = "ended" => owner \in letGo
  /\ owner \in letGo \/ (owner = "awaiting" /\ pc[Owner] \in past) => NotReady = {}

IInv == LatchType /\ LockInv /\ ThreadType /\ OwnerInv /\ ChildInv /\ CountInv /\ PassInv

-----------------------------------------------------------------------------
(***************************************************************************)
(* The latches.                                                            *)
(***************************************************************************)
LEMMA LabelsOf ==
  /\ inCountDown = {"lockToCountDown", "down", "notify", "unlock", "release", "out"}
  /\ inWait = {"lockToWait", "test", "asleep", "woken", "unlock", "release", "out"}
BY DEF inCountDown, inWait, toCount, past

\* A call of wait() or countDown() disturbs nobody.
LEMMA CallKeepsLatches ==
  ASSUME LatchType, LockInv, NEW c \in Callers, NEW l \in Latches,
         CallWait(c, l) \/ CallCountDown(c, l)
  PROVE  LatchType' /\ LockInv'
<1> USE DEF CallWait, CallCountDown, CallLatch, Goto, locks
<1>1. LatchType'
  BY LabelsOf DEF LatchType
<1>2. LockInv'
  BY DEF LatchType, LockInv, inside
<1> QED
  BY <1>1, <1>2

\* Neither does a step inside of them: the mutex keeps the others out.
LEMMA StepKeepsLatches ==
  ASSUME LatchType, LockInv, NEW c \in Callers, LatchStep(c) \/ WakeForNoReason(c)
  PROVE  LatchType' /\ LockInv'
<1> USE LatchAssumption DEF Goto, locks
<1>1. CASE LockToWait(c) \/ Relock(c) \/ LockToCountDown(c)
  <2>1. LatchType'
    BY <1>1, LabelsOf DEF LatchType, LockToWait, Relock, LockToCountDown, Lock
  <2>2. LockInv'
    BY <1>1 DEF LatchType, LockInv, inside, LockToWait, Relock, LockToCountDown, Lock
  <2> QED
    BY <2>1, <2>2
<1>2. CASE TestCount(c)
  <2>1. LatchType'
    BY <1>2, LabelsOf DEF LatchType, TestCount
  <2>2. LockInv'
    BY <1>2 DEF LatchType, LockInv, inside, TestCount
  <2> QED
    BY <2>1, <2>2
<1>3. CASE CountDown(c)
  <2>1. LatchType'
    BY <1>3, LabelsOf DEF LatchType, CountDown
  <2>2. LockInv'
    BY <1>3 DEF LatchType, LockInv, inside, CountDown
  <2> QED
    BY <2>1, <2>2
<1>4. CASE NotifyAll(c)
  <2>1. LatchType'
    BY <1>4, LabelsOf DEF LatchType, NotifyAll
  <2>2. LockInv'
    BY <1>4 DEF LatchType, LockInv, inside, NotifyAll, Sleepers
  <2> QED
    BY <2>1, <2>2
<1>5. CASE Unassign(c) \/ Release(c)
  <2>1. LatchType'
    BY <1>5, LabelsOf DEF LatchType, Unassign, Release
  <2>2. LockInv'
    BY <1>5 DEF LatchType, LockInv, inside, Unassign, Release
  <2> QED
    BY <2>1, <2>2
<1>6. CASE WakeForNoReason(c)
  <2>1. LatchType'
    BY <1>6, LabelsOf DEF LatchType, WakeForNoReason
  <2>2. LockInv'
    BY <1>6 DEF LatchType, LockInv, inside, WakeForNoReason
  <2> QED
    BY <2>1, <2>2
<1> QED
  BY <1>1, <1>2, <1>3, <1>4, <1>5, <1>6 DEF LatchStep

-----------------------------------------------------------------------------
(***************************************************************************)
(* Owner and children between their calls.                                 *)
(***************************************************************************)
\* Every latch is one of the three kinds, every caller one of the two.
LEMMA WhoAndWhat ==
  /\ Owner \in Callers /\ Owner \notin Threads /\ Threads \subseteq Callers
  /\ Threads \subseteq Latches /\ ready \in Latches /\ begin \in Latches
  /\ ready \notin Threads /\ begin \notin Threads /\ ready # begin
  /\ \A c \in Callers : c = Owner \/ c \in Threads
  /\ \A l \in Latches : l = ready \/ l = begin \/ l \in Threads
BY ThreadAssumption

LEMMA InitInv == Init => IInv
<1> SUFFICES ASSUME Init PROVE IInv
  OBVIOUS
<1> USE WhoAndWhat DEF Init, LatchInit
<1>1. LatchType
  <2>1. Cardinality(Threads) \in Int
    BY ThreadAssumption, FS_CardinalityType
  <2> QED
    BY <2>1, LabelsOf DEF LatchType
<1>2. LockInv
  BY DEF LockInv, inside
<1>3. ThreadType
  BY DEF ThreadType, ownerPlaces, childPlaces
<1>4. OwnerInv /\ ChildInv /\ PassInv
  BY DEF OwnerInv, ChildInv, PassInv, letGo, HasDone
<1>5. CountInv
  <2>1. NotReady = Threads
    BY DEF NotReady
  <2> QED
    BY <2>1 DEF CountInv, letGo
<1> QED
  BY <1>1, <1>2, <1>3, <1>4, <1>5 DEF IInv

ThreadInv == ThreadType /\ OwnerInv /\ ChildInv /\ CountInv /\ PassInv

\* The owner starts a thread, or fails to, or turns to the latches of its own.
LEMMA OwnerCalls ==
  ASSUME IInv, NEW t \in Threads, Start(t) \/ StartFails(t) \/ AwaitReady \/ LetGo
  PROVE  ThreadInv'
<1> USE WhoAndWhat, LabelsOf
    DEF IInv, LatchType, ThreadType, Start, StartFails, AwaitReady, LetGo, CallWait, CallCountDown, CallLatch,
        Goto, objects
<1>1. ThreadType'
  BY DEF ownerPlaces, childPlaces, letGo
<1>2. OwnerInv'
  BY DEF OwnerInv, ChildInv, letGo
<1>3. ChildInv'
  BY DEF OwnerInv, ChildInv, letGo
<1>4. CountInv'
  <2>1. NotReady' = NotReady
    BY DEF NotReady, toCount, OwnerInv, ChildInv
  <2> QED
    BY <2>1 DEF CountInv, OwnerInv, ChildInv, toCount, letGo
<1>5. PassInv'
  <2>1. NotReady' = NotReady
    BY DEF NotReady, toCount, OwnerInv, ChildInv
  <2> QED
    BY <2>1 DEF PassInv, HasDone, OwnerInv, ChildInv, past, letGo
<1> QED
  BY <1>1, <1>2, <1>3, <1>4, <1>5 DEF ThreadInv

\* The owner comes back from a call, joins a thread or destroys it.
LEMMA OwnerGoesOn ==
  ASSUME IInv, NEW t \in Threads,
         \/ StartReturns \/ StandInReturns \/ LetGoReturns
         \/ Join(t) \/ JoinReturns \/ Destroy(t)
  PROVE  ThreadInv'
<1> USE WhoAndWhat, LabelsOf
    DEF IInv, LatchType, ThreadType, latchVars, locks, objects,
        StartReturns, StandInReturns, LetGoReturns, Join, JoinReturns, Destroy
<1>1. ThreadType'
  BY DEF ownerPlaces, childPlaces, letGo
<1>2. OwnerInv'
  BY DEF OwnerInv, ChildInv, PassInv, letGo, HasDone
<1>3. ChildInv'
  BY DEF OwnerInv, ChildInv, PassInv, letGo, HasDone, past
<1>4. NotReady' = NotReady
  BY DEF NotReady, toCount, OwnerInv, ChildInv, past
<1>5. CountInv'
  BY <1>4 DEF CountInv, OwnerInv, ChildInv, toCount, letGo, past
<1>6. PassInv'
  BY <1>4 DEF PassInv, HasDone, OwnerInv, ChildInv, past, letGo
<1> QED
  BY <1>1, <1>2, <1>3, <1>5, <1>6 DEF ThreadInv

\* A child counts its latch_ or "ready" down, or waits for "begin".
LEMMA ChildCalls ==
  ASSUME IInv, NEW t \in Threads,
         SetTid(t) \/ CallFunc(t) \/ FuncWaits(t)
  PROVE  ThreadInv'
<1> USE WhoAndWhat, LabelsOf
    DEF IInv, LatchType, ThreadType, SetTid, CallFunc, FuncWaits, objects,
        CallWait, CallCountDown, CallLatch, Goto
<1>1. ThreadType'
  BY DEF ownerPlaces, childPlaces, letGo
<1>2. OwnerInv'
  BY DEF OwnerInv, ChildInv, PassInv, letGo, HasDone
<1>3. ChildInv'
  BY DEF OwnerInv, ChildInv, PassInv, letGo, HasDone, past
<1>4. NotReady' = NotReady
  BY DEF NotReady, toCount, OwnerInv, ChildInv, past
<1>5. CountInv'
  BY <1>4 DEF CountInv, OwnerInv, ChildInv, toCount, letGo, past
<1>6. PassInv'
  BY <1>4 DEF PassInv, HasDone, OwnerInv, ChildInv, past, letGo
<1> QED
  BY <1>1, <1>2, <1>3, <1>5, <1>6 DEF ThreadInv

\* A child takes its name, ends, or finds its Thread gone.
LEMMA ChildGoesOn ==
  ASSUME IInv, NEW t \in Threads,
         SetName(t) \/ FuncReturns(t) \/ ReadsDead(t)
  PROVE  ThreadInv'
<1> USE WhoAndWhat, LabelsOf
    DEF IInv, LatchType, ThreadType, latchVars, locks, objects,
        SetName, FuncReturns, ReadsDead, WorksOnThread
<1>1. ThreadType'
  BY DEF ownerPlaces, childPlaces, letGo
<1>2. OwnerInv'
  BY DEF OwnerInv, ChildInv, PassInv, letGo, HasDone
<1>3. ChildInv'
  BY DEF OwnerInv, ChildInv, PassInv, letGo, HasDone, past
<1>4. NotReady' = NotReady
  BY DEF NotReady, toCount, OwnerInv, ChildInv, past
<1>5. CountInv'
  BY <1>4 DEF CountInv, PassInv, HasDone, OwnerInv, ChildInv, toCount, letGo, past
<1>6. PassInv'
  BY <1>4 DEF PassInv, HasDone, OwnerInv, ChildInv, past, letGo
<1> QED
  BY <1>1, <1>2, <1>3, <1>5, <1>6 DEF ThreadInv

-----------------------------------------------------------------------------
(***************************************************************************)
(* Owner and children inside of their calls.                               *)
(***************************************************************************)
\* A caller takes or leaves a mutex, or is woken: nobody has counted, nobody passes.
LEMMA MutexSteps ==
  ASSUME IInv, NEW c \in Callers, InLatch(c) \/ SpuriousWakeUp,
         ~TestCount(c), ~CountDown(c)
  PROVE  ThreadInv'
<1> USE WhoAndWhat, LabelsOf DEF IInv, LatchType, ThreadType, objects
<1>1. /\ pc' \in [Callers -> inCountDown \union inWait] /\ latch' = latch /\ count_' = count_
      /\ UNCHANGED <<objects, child, owner, current>>
      /\ \A d \in Callers :
           \/ pc'[d] = pc[d]
           \/ pc[d] = "lockToCountDown" /\ pc'[d] = "down"
           \/ pc[d] = "notify" /\ pc'[d] = "unlock"
           \/ pc[d] = "lockToWait" /\ pc'[d] = "test"
           \/ pc[d] = "asleep" /\ pc'[d] = "woken"
           \/ pc[d] = "woken" /\ pc'[d] = "test"
           \/ pc[d] = "unlock" /\ pc'[d] = "release"
           \/ pc[d] = "release" /\ pc'[d] = "out"
  BY DEF InLatch, SpuriousWakeUp, LatchStep, LockToWait, Relock, LockToCountDown, NotifyAll,
     Unassign, Release, WakeForNoReason, Goto, Sleepers, locks
<1> HIDE DEF LatchType
<1>2. ThreadType' /\ OwnerInv' /\ ChildInv'
  BY <1>1 DEF OwnerInv, ChildInv, LatchType
<1>3. NotReady' = NotReady
  BY <1>1 DEF NotReady, toCount, OwnerInv, ChildInv
<1>4. CountInv'
  BY <1>1, <1>3 DEF CountInv, OwnerInv, ChildInv, toCount, letGo
<1>5. PassInv'
  BY <1>1, <1>3 DEF PassInv, HasDone, OwnerInv, ChildInv, past, letGo
<1> QED
  BY <1>2, <1>4, <1>5 DEF ThreadInv

\* Who finds the count at zero goes on: so all who had to have counted, and the thread
\* of start(), whose latch_ the owner has locked here, is out of countDown().
LEMMA TestSteps ==
  ASSUME IInv, NEW c \in Callers, InLatch(c), TestCount(c)
  PROVE  ThreadInv'
<1> USE WhoAndWhat, LabelsOf DEF IInv, LatchType, ThreadType, TestCount, Goto, locks, InLatch, objects
<1>1. ThreadType' /\ OwnerInv' /\ ChildInv'
  BY DEF OwnerInv, ChildInv
<1>2. NotReady' = NotReady
  BY DEF NotReady, toCount, OwnerInv, ChildInv
<1>3. CountInv'
  BY <1>2 DEF CountInv, OwnerInv, ChildInv, toCount, letGo
<1>4. ASSUME c = Owner, owner = "starting", pc'[c] \in past
      PROVE  HasDone(current)
  <2>1. count_[current] <= 0 /\ started_[current] /\ mutex[current] = Owner
    BY <1>4 DEF past, OwnerInv, LockInv, inside
  <2>2. child[current] # "created" /\ (child[current] = "counting" => pc[current] \notin toCount)
    BY <2>1 DEF CountInv, ChildInv
  <2>3. child[current] = "counting" => pc[current] \notin inside \union {"release"}
    BY <2>1 DEF LockInv, ChildInv
  <2> QED
    BY <2>2, <2>3 DEF HasDone, ChildInv, toCount, inside
<1>5. ASSUME c = Owner, owner = "awaiting", pc'[c] \in past
      PROVE  NotReady = {}
  <2>1. IsFiniteSet(NotReady)
    BY ThreadAssumption, FS_Subset DEF NotReady
  <2>2. count_[ready] <= 0
    BY <1>5 DEF past, OwnerInv
  <2> QED
    BY <2>1, <2>2, FS_CardinalityType, FS_EmptySet DEF CountInv
<1>6. ASSUME c \in Threads, child[c] = "waiting", pc'[c] \in past
      PROVE  owner \in letGo
  BY <1>6 DEF past, ChildInv, CountInv
<1>7. PassInv'
  BY <1>2, <1>4, <1>5, <1>6 DEF PassInv, HasDone, OwnerInv, ChildInv, past, letGo
<1> QED
  BY <1>1, <1>3, <1>7 DEF ThreadInv

\* Whoever counts a latch down is one who had still to do it.
LEMMA CountDownSteps ==
  ASSUME IInv, NEW c \in Callers, InLatch(c), CountDown(c)
  PROVE  ThreadInv'
<1> USE WhoAndWhat DEF InLatch, objects
<1> DEFINE standsIn == /\ c = Owner /\ owner = "standingIn" /\ latch[c] = ready
                       /\ child[current] = "failed"
           letsGo   == c = Owner /\ owner = "lettingGo" /\ latch[c] = begin
           counts   == c \in Threads /\ child[c] = "counting" /\ latch[c] = c
           inFunc   == c \in Threads /\ child[c] = "inFunc" /\ latch[c] = ready
<1>1. standsIn \/ letsGo \/ counts \/ inFunc
  BY LabelsOf DEF CountDown, IInv, ThreadType, ownerPlaces, letGo, OwnerInv, ChildInv
<1>2. /\ pc[c] = "down" /\ pc'[c] \in {"notify", "unlock"}
      /\ \A d \in Callers : d # c => pc'[d] = pc[d]
      /\ latch' = latch /\ count_' = [count_ EXCEPT ![latch[c]] = @ - 1]
      /\ pc' \in [Callers -> inCountDown \union inWait]
  BY LabelsOf DEF CountDown, Goto, IInv, LatchType
<1>3. ThreadType /\ count_ \in [Latches -> Int] /\ latch \in [Callers -> Latches]
  BY DEF IInv, LatchType
<1>4. ThreadType' /\ OwnerInv' /\ ChildInv'
  BY <1>2, <1>3, LabelsOf DEF IInv, OwnerInv, ChildInv, ThreadType
<1>5. CASE standsIn \/ inFunc
  <2> DEFINE x == IF standsIn THEN current ELSE c
  <2>1. x \in NotReady
    BY <1>2, <1>3, <1>5 DEF NotReady, toCount, ThreadType
  <2>2. NotReady' = NotReady \ {x}
    BY <1>2, <1>3, <1>5 DEF NotReady, toCount, ThreadType, IInv, OwnerInv, ChildInv
  <2>3. IsFiniteSet(NotReady)
    BY ThreadAssumption, FS_Subset DEF NotReady
  <2>4. Cardinality(NotReady') = Cardinality(NotReady) - 1
    BY <2>1, <2>2, <2>3, FS_RemoveElement
  <2>5. count_'[ready] = Cardinality(NotReady')
    BY <1>2, <1>3, <1>5, <2>4 DEF CountInv, IInv
  <2>6. CountInv'
    BY <1>2, <1>3, <1>5, <2>5 DEF CountInv, IInv, ThreadType, toCount, OwnerInv, ChildInv, letGo
  <2> HIDE DEF x
  <2>7. PassInv'
    BY <1>2, <1>3, <1>5, <2>2, LabelsOf
       DEF PassInv, IInv, HasDone, ThreadType, OwnerInv, ChildInv, past, letGo
  <2> QED
    BY <1>4, <2>6, <2>7 DEF ThreadInv
<1>6. CASE letsGo \/ counts
  <2>1. NotReady' = NotReady
    BY <1>2, <1>3, <1>6 DEF NotReady, ThreadType, IInv, OwnerInv, ChildInv
  <2>2. CountInv'
    BY <1>2, <1>3, <1>6, <2>1 DEF CountInv, IInv, ThreadType, toCount, OwnerInv, ChildInv, letGo
  <2>3. PassInv'
    BY <1>2, <1>3, <1>6, <2>1, LabelsOf
       DEF PassInv, IInv, HasDone, ThreadType, OwnerInv, ChildInv, past, letGo
  <2> QED
    BY <1>4, <2>2, <2>3 DEF ThreadInv
<1> QED
  BY <1>1, <1>5, <1>6

LEMMA Inductive == IInv /\ [Next]_vars => IInv'
<1> SUFFICES ASSUME IInv, [Next]_vars PROVE IInv'
  OBVIOUS
<1> USE WhoAndWhat
<1>1. ASSUME LatchType' /\ LockInv' /\ ThreadInv'
      PROVE  IInv'
  BY <1>1 DEF IInv, ThreadInv
<1>2. LatchType /\ LockInv /\ current \in Threads
  BY DEF IInv, ThreadType
<1>3. CASE UNCHANGED vars
  <2>1. UNCHANGED <<latchVars, locks, objects, child, owner, current>>
    BY <1>3 DEF vars, latchVars
  <2>2. LatchType' /\ LockInv' /\ ThreadType' /\ OwnerInv' /\ ChildInv'
    BY <2>1 DEF IInv, latchVars, locks, objects, LatchType, LockInv, ThreadType, OwnerInv, ChildInv
  <2>3. NotReady' = NotReady
    BY <2>1 DEF latchVars, NotReady
  <2>4. CountInv' /\ PassInv'
    BY <2>1, <2>3 DEF IInv, latchVars, objects, CountInv, PassInv, HasDone
  <2> QED
    BY <2>2, <2>4 DEF IInv
<1>4. CASE OwnerStep
  <2>1. ASSUME NEW t \in Threads, Start(t) \/ StartFails(t) \/ AwaitReady \/ LetGo
        PROVE  IInv'
    <3>1. \E l \in Latches : CallWait(Owner, l) \/ CallCountDown(Owner, l)
      BY <2>1 DEF Start, StartFails, AwaitReady, LetGo
    <3> QED
      BY <1>1, <1>2, <2>1, <3>1, OwnerCalls, CallKeepsLatches
  <2>2. ASSUME NEW t \in Threads,
               \/ StartReturns \/ StandInReturns \/ LetGoReturns
               \/ Join(t) \/ JoinReturns \/ Destroy(t)
        PROVE  IInv'
    <3>1. UNCHANGED latchVars
      BY <2>2 DEF StartReturns, StandInReturns, LetGoReturns, Join, JoinReturns, Destroy
    <3>2. LatchType' /\ LockInv'
      BY <1>2, <3>1 DEF latchVars, locks, LatchType, LockInv
    <3> QED
      BY <1>1, <2>2, <3>2, OwnerGoesOn
  <2> QED
    BY <1>2, <1>4, <2>1, <2>2 DEF OwnerStep
<1>5. ASSUME NEW t \in Threads, ChildStep(t)
      PROVE  IInv'
  <2>1. CASE SetTid(t) \/ CallFunc(t) \/ FuncWaits(t)
    <3>1. \E l \in Latches : CallWait(t, l) \/ CallCountDown(t, l)
      BY <2>1 DEF SetTid, CallFunc, FuncWaits
    <3> QED
      BY <1>1, <1>2, <2>1, <3>1, ChildCalls, CallKeepsLatches
  <2>2. CASE SetName(t) \/ FuncReturns(t) \/ ReadsDead(t)
    <3>1. UNCHANGED latchVars
      BY <2>2 DEF SetName, FuncReturns, ReadsDead
    <3>2. LatchType' /\ LockInv'
      BY <1>2, <3>1 DEF latchVars, locks, LatchType, LockInv
    <3> QED
      BY <1>1, <2>2, <3>2, ChildGoesOn
  <2> QED
    BY <1>5, <2>1, <2>2 DEF ChildStep
<1>6. ASSUME NEW c \in Callers, InLatch(c)
      PROVE  IInv'
  <2>1. LatchType' /\ LockInv'
    BY <1>2, <1>6, StepKeepsLatches DEF InLatch
  <2> QED
    BY <1>1, <1>6, <2>1, MutexSteps, TestSteps, CountDownSteps
<1>7. CASE SpuriousWakeUp
  <2>1. LatchType' /\ LockInv'
    BY <1>2, <1>7, StepKeepsLatches DEF SpuriousWakeUp
  <2>2. PICK c \in Callers : WakeForNoReason(c)
    BY <1>7 DEF SpuriousWakeUp
  <2>3. ~TestCount(c) /\ ~CountDown(c)
    BY <2>2 DEF TestCount, CountDown, WakeForNoReason
  <2> QED
    BY <1>1, <1>7, <2>1, <2>3, MutexSteps
<1> QED
  BY <1>3, <1>4, <1>5, <1>6, <1>7 DEF Next, Terminated

LEMMA Invariance == Spec => []IInv
BY InitInv, Inductive, PTL DEF Spec

-----------------------------------------------------------------------------
(***************************************************************************)
(* What the runs check.                                                    *)
(***************************************************************************)
\* isLockedByThisThread() says the truth to every caller of every latch, though holder_
\* is written apart from the mutex and given up during a wait.
THEOREM HolderCorrect == Spec => []HolderIsRight
<1>1. IInv => HolderIsRight
  BY LatchAssumption DEF IInv, LatchType, LockInv, HolderIsRight, inside
<1> QED
  BY Invariance, <1>1, PTL

\* The assert(tid_ > 0) of start() never fails; the owner goes on when every thread has
\* reported or been stood in for, and no thread ends before it has been let go.
THEOREM NobodyEarly == Spec => []NobodyPassesEarly
<1>1. IInv => NobodyPassesEarly
  <2> SUFFICES ASSUME IInv PROVE NobodyPassesEarly
    OBVIOUS
  <2>1. \A t \in Threads :
          started_[t] /\ ~(owner = "starting" /\ current = t) => tid_[t] > 0
    BY DEF IInv, PassInv, HasDone, ChildInv
  <2>2. owner \in letGo => \A t \in Threads : child[t] \in {"failed", "inFunc", "waiting", "ended"}
    BY DEF IInv, PassInv, NotReady, ThreadType, childPlaces
  <2>3. \A t \in Threads : child[t] = "ended" => owner \in letGo
    BY DEF IInv, PassInv
  <2> QED
    BY <2>1, <2>2, <2>3 DEF NobodyPassesEarly, letGo
<1> QED
  BY Invariance, <1>1, PTL

\* A Thread may be destroyed as soon as start() has returned without its thread being
\* inside of the latch_ that goes with it.
THEOREM DeadLatchesAreLeft == Spec => []NothingDeadIsTouched
<1>1. IInv => NothingDeadIsTouched
  <2> SUFFICES ASSUME IInv PROVE NothingDeadIsTouched
    OBVIOUS
  <2> USE WhoAndWhat DEF IInv
  <2>1. ASSUME pc[Owner] # "out", latch[Owner] \in Threads
        PROVE  latch[Owner] \in alive
    BY <2>1 DEF OwnerInv, ThreadType, ownerPlaces, letGo
  <2>2. ASSUME NEW t \in Threads, pc[t] # "out", latch[t] \in Threads
        PROVE  latch[t] \in alive
    <3>1. child[t] = "counting" /\ latch[t] = t
      BY <2>2 DEF ChildInv
    <3>2. started_[t] /\ ~HasDone(t)
      BY <2>2, <3>1 DEF ChildInv, HasDone
    <3> QED
      BY <3>1, <3>2 DEF PassInv, OwnerInv
  <2>3. \A t \in Threads \ (alive \union detached) : child[t] \in {"failed", "ended"}
    BY DEF ChildInv
  <2> QED
    BY <2>1, <2>2, <2>3 DEF NothingDeadIsTouched
<1> QED
  BY Invariance, <1>1, PTL

=============================================================================
