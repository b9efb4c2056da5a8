------------------------------ MODULE Singletons ------------------------------
(***************************************************************************)
(* Objects made when they are first asked for: one in the process,         *)
(* log/Singleton.h, and one in every thread, log/ThreadLocal.h and         *)
(* log/ThreadLocalSingleton.h.                                             *)
(*                                                                         *)
(* The objects of a thread go with it: pthreads visits the keys in their   *)
(* order and gives what they hold to the destructor, again and again while *)
(* a key holds something, but not more than Rounds times.  The destructor  *)
(* of an object may itself ask for objects of its thread.  The object of   *)
(* the process goes when some thread calls exit(), while the others run.   *)
(***************************************************************************)
EXTENDS Naturals, Sequences

CONSTANTS
  Threads,
  Keys,        \* the ThreadLocal and ThreadLocalSingleton objects, in the order of their keys
  Singles,     \* which of them are ThreadLocalSingletons
  Asks,        \* the relations of which one may be true: <<k, l>>, if the destructor
               \* of an object of Keys[k] asks for the object of Keys[l]
  Rounds       \* PTHREAD_DESTRUCTOR_ITERATIONS

Locals == DOMAIN Keys

ASSUME SingletonsAssumption ==
  /\ Len(Keys) \in Nat /\ Locals = 1 .. Len(Keys)
  /\ Singles \subseteq Locals /\ Asks \subseteq SUBSET (Locals \X Locals)
  /\ Rounds \in Nat \ {0}

VARIABLES
  at,          \* where every thread is
  ponce_,      \* the Singleton's: "init", "running" or "done"
  value_,      \* the number of its object, 0 for NULL
  made,        \* how many objects it has made
  got,         \* the object that instance() returned last to every thread, 0 for none
  asks,        \* the relation of Asks that holds
  specific,    \* per thread and local: the object that the key holds, 0 for NULL
  t_value_,    \* per thread: the object of every ThreadLocalSingleton, 0 for NULL
  living,      \* per thread and local: the objects that have not been deleted
  news,        \* per thread and local: how many there have been
  visit        \* per thread: the round and the key its end has come to

single == <<ponce_, value_, made, got>>
local == <<specific, t_value_, living, news, visit>>
vars == <<at, single, asks, local>>

NoObjects == [t \in Threads |-> [l \in Locals |-> 0]]

Init ==
  /\ at = [t \in Threads |-> "running"]
  /\ ponce_ = "init" /\ value_ = 0 /\ made = 0 /\ got = [t \in Threads |-> 0]
  /\ asks \in Asks
  /\ specific = NoObjects /\ t_value_ = NoObjects /\ news = NoObjects
  /\ living = [t \in Threads |-> [l \in Locals |-> {}]]
  /\ visit = [t \in Threads |-> <<1, 1>>]

Exiting == \E t \in Threads : at[t] \in {"atexit", "over"}
Over == \E t \in Threads : at[t] \in {"over", "undefined"}

Goto(t, place) == at' = [at EXCEPT ![t] = place]

-----------------------------------------------------------------------------
(***************************************************************************)
(* Singleton.                                                              *)
(***************************************************************************)
\* instance(), up to pthread_once().
AskInstance(t) ==
  /\ at[t] = "running" /\ Goto(t, "once")
  /\ UNCHANGED <<single, asks, local>>

InitTwice(t) ==    \* fault: value_ is tested, without pthread_once()
  /\ at[t] = "once" /\ value_ = 0 /\ ~Over
  /\ ponce_' = "running" /\ Goto(t, "init")
  /\ UNCHANGED <<value_, made, got, asks, local>>

EnterInit(t) ==
  /\ at[t] = "once" /\ ponce_ = "init" /\ ~Over
  /\ ponce_' = "running" /\ Goto(t, "init")
  /\ UNCHANGED <<value_, made, got, asks, local>>

\* init() makes the object and registers destory().
MakeInstance(t) ==
  /\ at[t] = "init" /\ ~Over
  /\ made' = made + 1 /\ value_' = made'
  /\ ponce_' = "done" /\ Goto(t, "once")
  /\ UNCHANGED <<got, asks, local>>

\* instance() after pthread_once(); there is no telling what follows *NULL.
ReturnInstance(t) ==
  /\ at[t] = "once" /\ ponce_ = "done" /\ ~Over
  /\ got' = [got EXCEPT ![t] = value_]
  /\ Goto(t, IF value_ = 0 THEN "undefined" ELSE "running")
  /\ UNCHANGED <<ponce_, value_, made, asks, local>>

\* exit(), which two threads must not call, ...
Exit(t) ==
  /\ at[t] = "running" /\ ~Exiting /\ ~Over /\ Goto(t, "atexit")
  /\ UNCHANGED <<single, asks, local>>

\* ... runs destory(), even if it has only just been registered, ...
destory(t) ==
  /\ at[t] = "atexit" /\ value_ # 0 /\ ~Over
  /\ value_' = 0
  /\ UNCHANGED <<at, ponce_, made, got, asks, local>>

\* ... and ends the process, as soon as the keys are deleted.
EndProcess(t) ==
  /\ at[t] = "atexit" /\ value_ = 0 /\ ~Over /\ Goto(t, "over")
  /\ UNCHANGED <<single, asks, local>>

-----------------------------------------------------------------------------
(***************************************************************************)
(* ThreadLocal and ThreadLocalSingleton.  The objects of one thread: what  *)
(* its keys hold, its t_value_s, and which objects live.                   *)
(***************************************************************************)
Objects(t) ==
  [specific |-> specific[t], t_value_ |-> t_value_[t], living |-> living[t], news |-> news[t]]

SetObjects(t, o) ==
  /\ specific' = [specific EXCEPT ![t] = o.specific]
  /\ t_value_' = [t_value_ EXCEPT ![t] = o.t_value_]
  /\ living' = [living EXCEPT ![t] = o.living]
  /\ news' = [news EXCEPT ![t] = o.news]

\* value() looks at the key, and instance() at t_value_.
Missing(o, l) == (IF l \in Singles THEN o.t_value_[l] ELSE o.specific[l]) = 0

\* value() or instance() of every one of ls: in any order, for one does not see the
\* object of another.
Asked(o, ls) ==
  LET new == {l \in ls : Missing(o, l)}
      Numbered(f, which) == [l \in Locals |-> IF l \in which THEN o.news[l] + 1 ELSE f[l]]
  IN [specific |-> Numbered(o.specific, new),
      t_value_ |-> Numbered(o.t_value_, new \intersect Singles),
      living   |-> [l \in Locals |-> o.living[l] \union IF l \in new THEN {o.news[l] + 1} ELSE {}],
      news     |-> Numbered(o.news, new)]

\* delete: the destructor of T, then the memory.
Deleted(o, l, n) == [Asked(o, {m \in Locals : <<l, m>> \in asks}) EXCEPT !.living[l] = @ \ {n}]

KeepsPointer(o, l, n) == Deleted(o, l, n)    \* fault: t_value_ is not set to NULL

\* destructor(), of a ThreadLocal or of a ThreadLocalSingleton.
Destructed(o, l, n) ==
  IF l \in Singles THEN [Deleted(o, l, n) EXCEPT !.t_value_[l] = 0]
  ELSE Deleted(o, l, n)

Ask(t, l) ==
  /\ at[t] = "running" /\ ~Over
  /\ SetObjects(t, Asked(Objects(t), {l}))
  /\ UNCHANGED <<at, single, asks, visit>>

\* The thread returns from its function, or calls pthread_exit().
EndThread(t) ==
  /\ at[t] = "running" /\ ~Over /\ Goto(t, "ending")
  /\ UNCHANGED <<single, asks, local>>

\* pthreads visits the next key: it is set to NULL before its destructor is called.
VisitKey(t) ==
  LET l == visit[t][2]
      o == Objects(t)
      emptied == [o EXCEPT !.specific[l] = 0]
  IN /\ at[t] = "ending" /\ ~Over /\ l \in Locals
     /\ SetObjects(t, IF o.specific[l] = 0 THEN o ELSE Destructed(emptied, l, o.specific[l]))
     /\ visit' = [visit EXCEPT ![t][2] = l + 1]
     /\ UNCHANGED <<at, single, asks>>

NextRound(t) ==
  LET again == visit[t][1] < Rounds /\ \E l \in Locals : specific[t][l] # 0
  IN /\ at[t] = "ending" /\ ~Over /\ visit[t][2] \notin Locals
     /\ IF again
        THEN visit' = [visit EXCEPT ![t] = <<@[1] + 1, 1>>] /\ UNCHANGED at
        ELSE Goto(t, "ended") /\ UNCHANGED visit
     /\ UNCHANGED <<single, asks, specific, t_value_, living, news>>

-----------------------------------------------------------------------------
ThreadStep(t) ==
  \/ AskInstance(t) \/ EnterInit(t) \/ MakeInstance(t) \/ ReturnInstance(t)
  \/ (\E l \in Locals : Ask(t, l))
  \/ Exit(t) \/ destory(t) \/ EndProcess(t)
  \/ EndThread(t) \/ VisitKey(t) \/ NextRound(t)

\* The process is over, or all its threads are.
Terminated ==
  /\ Over \/ \A t \in Threads : at[t] = "ended"
  /\ UNCHANGED vars

Next == (\E t \in Threads : ThreadStep(t)) \/ Terminated

Spec == Init /\ [][Next]_vars

-----------------------------------------------------------------------------
(***************************************************************************)
(* Safety.                                                                 *)
(***************************************************************************)
\* However many threads ask for it at once, one object is made; they all get that
\* one, and only when exit() has been called may somebody get none.
OneInstance ==
  /\ made <= 1
  /\ \A t \in Threads :
       at[t] # "undefined" /\ got[t] # 0 => got[t] = 1 /\ (value_ = 1 \/ Exiting)
  /\ (\E t \in Threads : at[t] = "undefined") => Exiting

\* No destructor comes to ask, by way of others, for an object of its own kind.
Acyclic ==
  \E rank \in [Locals -> Locals] : \A p \in asks : rank[p[1]] < rank[p[2]]

\* A thread never gets an object that has been deleted, and when it ends it leaves
\* none behind, though one destructor asks for what another has just deleted, unless
\* they ask for each other's objects in a circle.
LocalsAreReclaimed ==
  /\ \A t \in Threads, l \in Locals :
       /\ specific[t][l] # 0 => specific[t][l] \in living[t][l]
       /\ l \in Singles => t_value_[t][l] = specific[t][l]
  /\ Acyclic /\ Len(Keys) <= Rounds =>
       \A t \in Threads : at[t] = "ended" => \A l \in Locals : living[t][l] = {}
=============================================================================
