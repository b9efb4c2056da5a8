-------------------------- MODULE Singletons_proofs --------------------------
(***************************************************************************)
(* Proofs about Singletons, for any number of threads and of locals,       *)
(* whatever their destructors ask for.                                     *)
(***************************************************************************)
EXTENDS Singletons, TLAPS

-----------------------------------------------------------------------------
(***************************************************************************)
(* The object of the process.                                              *)
(*                                                                         *)
(* OneInstance is not inductive: that no second object is made rests on    *)
(* pthread_once() letting one thread into init(), and that nobody is       *)
(* handed a NULL before exit() on the object being there once init() is    *)
(* done.                                                                   *)
(***************************************************************************)
Places == {"running", "once", "init", "undefined", "atexit", "over", "ending", "ended"}

OnceInv ==
  /\ at \in [Threads -> Places]
  /\ got \in [Threads -> {0, 1}]
  /\ \/ ponce_ = "init" /\ made = 0 /\ value_ = 0 /\ \A t \in Threads : at[t] # "init"
     \/ /\ ponce_ = "running" /\ made = 0 /\ value_ = 0
        /\ \A t, u \in Threads : at[t] = "init" /\ at[u] = "init" => t = u
     \/ /\ ponce_ = "done" /\ made = 1 /\ \A t \in Threads : at[t] # "init"
        /\ value_ = 1 \/ (value_ = 0 /\ Exiting)
  /\ \A t \in Threads : got[t] # 0 => ponce_ = "done"
  /\ \A t \in Threads : at[t] = "undefined" => Exiting

LEMMA OnceStarts == Init => OnceInv
BY DEF Init, OnceInv, Places

LEMMA OnceKept == OnceInv /\ [Next]_vars => OnceInv'
<1> SUFFICES ASSUME OnceInv, [Next]_vars PROVE OnceInv'
  OBVIOUS
<1> USE DEF OnceInv, Places, Exiting, Goto, single
<1>1. ASSUME NEW t \in Threads, AskInstance(t)
      PROVE  OnceInv'
  BY <1>1 DEF AskInstance
<1>2. ASSUME NEW t \in Threads, EnterInit(t)
      PROVE  OnceInv'
  BY <1>2 DEF EnterInit
<1>3. ASSUME NEW t \in Threads, MakeInstance(t)
      PROVE  OnceInv'
  <2>1. ponce_ = "running" /\ made = 0 /\ \A u \in Threads : at[u] = "init" => u = t
    BY <1>3 DEF MakeInstance
  <2>2. made' = 1 /\ value_' = 1 /\ ponce_' = "done" /\ got' = got
        /\ at' = [at EXCEPT ![t] = "once"]
    BY <1>3, <2>1 DEF MakeInstance
  <2>3. \A u \in Threads : at'[u] # "init"
    BY <2>1, <2>2
  <2>4. Exiting => Exiting'
    BY <2>2, <1>3 DEF MakeInstance
  <2>5. at' \in [Threads -> Places] /\ \A u \in Threads : at'[u] = "undefined" => at[u] = "undefined"
    BY <2>2
  <2>6. \A u \in Threads : at'[u] = "undefined" => Exiting'
    BY <2>4, <2>5
  <2>7. got' \in [Threads -> {0, 1}] /\ made' = 1 /\ value_' = 1 /\ ponce_' = "done"
    BY <2>2
  <2> HIDE DEF Exiting
  <2> QED
    BY <2>3, <2>5, <2>6, <2>7
<1>4. ASSUME NEW t \in Threads, ReturnInstance(t)
      PROVE  OnceInv'
  BY <1>4 DEF ReturnInstance
<1>5. ASSUME NEW t \in Threads, Exit(t)
      PROVE  OnceInv'
  BY <1>5 DEF Exit
<1>6. ASSUME NEW t \in Threads, destory(t)
      PROVE  OnceInv'
  BY <1>6 DEF destory
<1>7. ASSUME NEW t \in Threads, EndProcess(t)
      PROVE  OnceInv'
  BY <1>7 DEF EndProcess
<1>8. ASSUME NEW t \in Threads, EndThread(t)
      PROVE  OnceInv'
  BY <1>8 DEF EndThread
<1>9. ASSUME NEW t \in Threads, NextRound(t)
      PROVE  OnceInv'
  BY <1>9 DEF NextRound
<1>10. CASE UNCHANGED <<at, ponce_, value_, made, got>>
  BY <1>10
<1> QED
  <2>1. CASE Terminated \/ UNCHANGED vars
    BY <2>1, <1>10 DEF Terminated, vars
  <2>2. ASSUME NEW t \in Threads, (\E l \in Locals : Ask(t, l)) \/ VisitKey(t)
        PROVE  OnceInv'
    BY <2>2, <1>10 DEF Ask, VisitKey
  <2> QED
    BY <1>1, <1>2, <1>3, <1>4, <1>5, <1>6, <1>7, <1>8, <1>9, <2>1, <2>2 DEF Next, ThreadStep

LEMMA OnceAlways == Spec => []OnceInv
BY OnceStarts, OnceKept, PTL DEF Spec

\* However many threads ask for the object of the process at once, they all get the one
\* that is made, and nobody gets none before exit().
THEOREM OneInstanceCorrect == Spec => []OneInstance
<1>1. OnceInv => OneInstance
  BY DEF OnceInv, OneInstance
<1> QED
  BY <1>1, OnceAlways, PTL

-----------------------------------------------------------------------------
(***************************************************************************)
(* The objects of a thread.                                                *)
(*                                                                         *)
(* A key and its t_value_ agree, and hold the one object that lives, or    *)
(* none.  When the destructors do not go round in a circle, every local    *)
(* has a rank above those whose destructors ask for it.  In the round r of *)
(* a thread's end what is still to be visited has rank r at least, and     *)
(* what has been made again behind the visit is asked for by a destructor  *)
(* of that round, and so has rank r + 1 at least: after as many rounds as  *)
(* there are locals nothing is left.                                       *)
(***************************************************************************)
Numbers == [Locals -> Nat]
Group   == [specific : Numbers, t_value_ : Numbers, living : [Locals -> SUBSET Nat], news : Numbers]

\* What holds of the objects o of a thread, for local l, when no destructor is running.
Sound(o, l) ==
  /\ o.specific[l] <= o.news[l]
  /\ l \in Singles => o.t_value_[l] = o.specific[l]
  /\ o.living[l] = IF o.specific[l] = 0 THEN {} ELSE {o.specific[l]}

SoundGroup(o) == o \in Group /\ \A l \in Locals : Sound(o, l)

Ranking(rank) ==
  rank \in [Locals -> Locals] /\ \A p \in asks : rank[p[1]] < rank[p[2]]

\* The lowest rank that what local l holds may have, when the visit v is under way.
Least(v, l) == IF l < v[2] THEN v[1] + 1 ELSE v[1]

LocalsType ==
  /\ at \in [Threads -> Places]
  /\ asks \subseteq Locals \X Locals
  /\ specific \in [Threads -> Numbers] /\ t_value_ \in [Threads -> Numbers]
  /\ living \in [Threads -> [Locals -> SUBSET Nat]] /\ news \in [Threads -> Numbers]
  /\ visit \in [Threads -> (1 .. Rounds) \X (1 .. Len(Keys) + 1)]

EndInv(t) ==
  \A rank : Ranking(rank) =>
    /\ at[t] \notin {"ending", "ended"} => visit[t] = <<1, 1>>
    /\ at[t] = "ending" => \A l \in Locals : specific[t][l] # 0 => Least(visit[t], l) <= rank[l]
    /\ at[t] = "ended" /\ Len(Keys) <= Rounds => \A l \in Locals : specific[t][l] = 0

LocalsInv ==
  /\ LocalsType
  /\ \A t \in Threads : SoundGroup(Objects(t)) /\ EndInv(t)

\* The objects of one thread change, or those of none.
LEMMA ObjectsAre ==
  ASSUME LocalsType, NEW t \in Threads
  PROVE  /\ Objects(t) \in Group
         /\ Objects(t).specific = specific[t] /\ Objects(t).t_value_ = t_value_[t]
         /\ Objects(t).living = living[t] /\ Objects(t).news = news[t]
BY DEF LocalsType, Objects, Group

LEMMA ObjectsSet ==
  ASSUME LocalsType, NEW t \in Threads, NEW o \in Group, SetObjects(t, o)
  PROVE  /\ specific' \in [Threads -> Numbers] /\ t_value_' \in [Threads -> Numbers]
         /\ living' \in [Threads -> [Locals -> SUBSET Nat]] /\ news' \in [Threads -> Numbers]
         /\ Objects(t)' = o /\ specific'[t] = o.specific
         /\ \A u \in Threads \ {t} : Objects(u)' = Objects(u) /\ specific'[u] = specific[u]
<1>1. /\ o = [specific |-> o.specific, t_value_ |-> o.t_value_, living |-> o.living, news |-> o.news]
      /\ o.specific \in Numbers /\ o.t_value_ \in Numbers /\ o.news \in Numbers
      /\ o.living \in [Locals -> SUBSET Nat]
  BY DEF Group
<1>2. /\ specific' \in [Threads -> Numbers] /\ t_value_' \in [Threads -> Numbers]
      /\ living' \in [Threads -> [Locals -> SUBSET Nat]] /\ news' \in [Threads -> Numbers]
  BY <1>1 DEF LocalsType, SetObjects
<1>3. /\ specific'[t] = o.specific /\ t_value_'[t] = o.t_value_
      /\ living'[t] = o.living /\ news'[t] = o.news
  BY DEF LocalsType, SetObjects
<1>4. \A u \in Threads \ {t} : /\ specific'[u] = specific[u] /\ t_value_'[u] = t_value_[u]
                              /\ living'[u] = living[u] /\ news'[u] = news[u]
  BY DEF LocalsType, SetObjects
<1>5. Objects(t)' = o
  BY <1>1, <1>3 DEF Objects
<1> QED
  BY <1>2, <1>3, <1>4, <1>5 DEF Objects

LEMMA AskedType ==
  ASSUME NEW o \in Group, NEW ls \in SUBSET Locals
  PROVE  /\ Asked(o, ls) \in Group
         /\ \A l \in Locals :
              IF l \in ls /\ Missing(o, l)
              THEN /\ Asked(o, ls).specific[l] = o.news[l] + 1
                   /\ Asked(o, ls).news[l] = o.news[l] + 1
                   /\ Asked(o, ls).t_value_[l] = IF l \in Singles THEN o.news[l] + 1 ELSE o.t_value_[l]
                   /\ Asked(o, ls).living[l] = o.living[l] \union {o.news[l] + 1}
              ELSE /\ Asked(o, ls).specific[l] = o.specific[l]
                   /\ Asked(o, ls).news[l] = o.news[l]
                   /\ Asked(o, ls).t_value_[l] = o.t_value_[l]
                   /\ Asked(o, ls).living[l] = o.living[l]
<1>1. /\ o.specific \in Numbers /\ o.t_value_ \in Numbers /\ o.news \in Numbers
      /\ o.living \in [Locals -> SUBSET Nat]
  BY DEF Group
<1> DEFINE r == Asked(o, ls)
<1>2. r.specific \in Numbers /\ r.t_value_ \in Numbers /\ r.news \in Numbers
  BY <1>1 DEF Asked, Numbers
<1>3. r.living \in [Locals -> SUBSET Nat]
  BY <1>1 DEF Asked, Numbers
<1>4. r = [specific |-> r.specific, t_value_ |-> r.t_value_, living |-> r.living, news |-> r.news]
  BY DEF Asked
<1>5. r \in Group
  BY <1>2, <1>3, <1>4 DEF Group
<1> QED
  BY <1>1, <1>5 DEF Asked, Numbers

LEMMA AskedSound ==
  ASSUME NEW o, SoundGroup(o), NEW ls \in SUBSET Locals
  PROVE  SoundGroup(Asked(o, ls))
<1> DEFINE r == Asked(o, ls)
<1>1. o \in Group /\ r \in Group
  BY AskedType DEF SoundGroup
<1>2. ASSUME NEW l \in Locals
      PROVE  Sound(r, l)
  <2>1. Sound(o, l) /\ o.news[l] \in Nat /\ o.specific[l] \in Nat
    BY <1>1 DEF SoundGroup, Group, Numbers
  <2>2. CASE l \in ls /\ Missing(o, l)
    <3>1. o.specific[l] = 0
      BY <2>1, <2>2 DEF Sound, Missing
    <3>2. o.living[l] \union {o.news[l] + 1} = {o.news[l] + 1} /\ o.news[l] + 1 # 0
      BY <2>1, <3>1 DEF Sound
    <3>3. /\ r.specific[l] = o.news[l] + 1 /\ r.news[l] = o.news[l] + 1
          /\ r.living[l] = {o.news[l] + 1} /\ (l \in Singles => r.t_value_[l] = o.news[l] + 1)
      BY <1>1, <2>2, <3>2, AskedType
    <3> HIDE DEF r
    <3> QED
      BY <2>1, <3>2, <3>3 DEF Sound
  <2>3. CASE ~(l \in ls /\ Missing(o, l))
    BY <1>1, <2>1, <2>3, AskedType, ZenonT(30) DEF Sound
  <2> QED
    BY <2>2, <2>3
<1> QED
  BY <1>1, <1>2 DEF SoundGroup

\* The destructor of the object of local l leaves sound objects, and adds to what the
\* keys hold only what it asks for.
LEMMA DestructedSound ==
  ASSUME NEW o, SoundGroup(o), NEW l \in Locals, o.specific[l] # 0, asks \subseteq Locals \X Locals
  PROVE  LET r == Destructed([o EXCEPT !.specific[l] = 0], l, o.specific[l]) IN
         /\ SoundGroup(r)
         /\ \A m \in Locals : r.specific[m] # 0 => <<l, m>> \in asks \/ (m # l /\ o.specific[m] # 0)
<1> DEFINE n  == o.specific[l]
           e  == [o EXCEPT !.specific[l] = 0]
           ls == {m \in Locals : <<l, m>> \in asks}
           a  == Asked(e, ls)
           r  == Destructed(e, l, n)
<1>1. o \in Group /\ o.specific \in Numbers /\ o.t_value_ \in Numbers /\ o.news \in Numbers
      /\ o.living \in [Locals -> SUBSET Nat] /\ \A m \in Locals : Sound(o, m)
  BY DEF SoundGroup, Group
<1>2. /\ e \in Group /\ e.t_value_ = o.t_value_ /\ e.news = o.news /\ e.living = o.living
      /\ \A m \in Locals : e.specific[m] = IF m = l THEN 0 ELSE o.specific[m]
  BY <1>1 DEF Group, Numbers
<1>3. ls \in SUBSET Locals
  OBVIOUS
<1> HIDE DEF e, ls
<1>4. a \in Group
  BY <1>2, <1>3, AskedType
<1>5. /\ r \in Group /\ r.specific = a.specific /\ r.news = a.news
      /\ \A m \in Locals :
           /\ r.living[m] = IF m = l THEN a.living[m] \ {n} ELSE a.living[m]
           /\ r.t_value_[m] = IF m = l /\ l \in Singles THEN 0 ELSE a.t_value_[m]
  <2>1. /\ a = [specific |-> a.specific, t_value_ |-> a.t_value_, living |-> a.living, news |-> a.news]
        /\ a.specific \in Numbers /\ a.t_value_ \in Numbers /\ a.news \in Numbers
        /\ a.living \in [Locals -> SUBSET Nat]
    BY <1>4 DEF Group
  <2>2. Deleted(e, l, n) = [a EXCEPT !.living[l] = @ \ {n}]
    BY DEF Deleted, ls
  <2> HIDE DEF a, n
  <2> DEFINE d == Deleted(e, l, n)
  <2>3. /\ d \in Group /\ d.specific = a.specific /\ d.news = a.news /\ d.t_value_ = a.t_value_
        /\ \A m \in Locals : d.living[m] = IF m = l THEN a.living[m] \ {n} ELSE a.living[m]
    <3>1. d = [specific |-> a.specific, t_value_ |-> a.t_value_,
               living |-> [a.living EXCEPT ![l] = @ \ {n}], news |-> a.news]
      BY <2>1, <2>2
    <3>2. [a.living EXCEPT ![l] = @ \ {n}] \in [Locals -> SUBSET Nat]
      BY <2>1
    <3> HIDE DEF d
    <3> QED
      BY <2>1, <3>1, <3>2 DEF Group
  <2>4. r = IF l \in Singles THEN [d EXCEPT !.t_value_[l] = 0] ELSE d
    BY DEF Destructed
  <2> HIDE DEF d, r
  <2> QED
    BY <2>1, <2>3, <2>4 DEF Group, Numbers
<1> HIDE DEF r, a
<1>6. ASSUME NEW m \in Locals
      PROVE  Sound(r, m) /\ (r.specific[m] # 0 => <<l, m>> \in asks \/ (m # l /\ o.specific[m] # 0))
  <2>1. Sound(o, m) /\ o.news[m] \in Nat /\ o.specific[m] \in Nat /\ n \in Nat /\ n # 0
    BY <1>1 DEF Numbers
  <2>2. IF m \in ls /\ Missing(e, m)
        THEN /\ a.specific[m] = e.news[m] + 1 /\ a.news[m] = e.news[m] + 1
             /\ a.t_value_[m] = IF m \in Singles THEN e.news[m] + 1 ELSE e.t_value_[m]
             /\ a.living[m] = e.living[m] \union {e.news[m] + 1}
        ELSE /\ a.specific[m] = e.specific[m] /\ a.news[m] = e.news[m]
             /\ a.t_value_[m] = e.t_value_[m] /\ a.living[m] = e.living[m]
    BY <1>2, <1>3, AskedType DEF a
  <2>3. m \in ls => <<l, m>> \in asks
    BY DEF ls
  <2> HIDE DEF n
  <2>4. CASE m = l
    <3>1. o.living[m] = {n} /\ n <= o.news[m] /\ (m \in Singles => o.t_value_[m] = n)
          /\ o.specific[m] = n
      BY <2>1, <2>4 DEF Sound, n
    <3>2. CASE m \in ls /\ Missing(e, m)
      <4>1. m \notin Singles
        BY <1>2, <2>1, <2>4, <3>1, <3>2 DEF Missing
      <4>2. o.living[m] \union {o.news[m] + 1} = {n, o.news[m] + 1} /\ n # o.news[m] + 1
        BY <2>1, <3>1
      <4>3. r.living[m] = {o.news[m] + 1} /\ r.specific[m] = o.news[m] + 1 /\ r.news[m] = o.news[m] + 1
        BY <1>2, <1>5, <2>2, <2>4, <3>2, <4>2
      <4> QED
        BY <2>1, <2>3, <3>2, <4>1, <4>3 DEF Sound
    <3>3. CASE ~(m \in ls /\ Missing(e, m))
      <4>1. r.living[m] = {} /\ r.specific[m] = 0 /\ r.news[m] = o.news[m]
            /\ (m \in Singles => r.t_value_[m] = 0)
        BY <1>2, <1>5, <2>2, <2>4, <3>1, <3>3
      <4> QED
        BY <2>1, <4>1 DEF Sound
    <3> QED
      BY <3>2, <3>3
  <2>5. CASE m # l
    <3>1. /\ r.living[m] = a.living[m] /\ r.t_value_[m] = a.t_value_[m]
          /\ r.specific[m] = a.specific[m] /\ r.news[m] = a.news[m]
          /\ e.specific[m] = o.specific[m] /\ e.living[m] = o.living[m]
          /\ e.t_value_[m] = o.t_value_[m] /\ e.news[m] = o.news[m]
      BY <1>2, <1>5, <2>5
    <3>2. CASE m \in ls /\ Missing(e, m)
      <4>1. o.specific[m] = 0
        BY <2>1, <3>1, <3>2 DEF Sound, Missing
      <4>2. o.living[m] \union {o.news[m] + 1} = {o.news[m] + 1} /\ o.news[m] + 1 # 0
        BY <2>1, <4>1 DEF Sound
      <4>3. /\ r.specific[m] = o.news[m] + 1 /\ r.news[m] = o.news[m] + 1
            /\ r.living[m] = {o.news[m] + 1} /\ (m \in Singles => r.t_value_[m] = o.news[m] + 1)
        BY <2>2, <3>1, <3>2, <4>2
      <4> QED
        BY <2>1, <2>3, <3>2, <4>2, <4>3 DEF Sound
    <3>3. CASE ~(m \in ls /\ Missing(e, m))
      BY <2>1, <2>2, <2>5, <3>1, <3>3 DEF Sound
    <3> QED
      BY <3>2, <3>3
  <2> QED
    BY <2>4, <2>5
<1>7. SoundGroup(r)
  BY <1>5, <1>6 DEF SoundGroup
<1> QED
  BY <1>6, <1>7 DEF r, e

-----------------------------------------------------------------------------
(***************************************************************************)
(* The steps keep LocalsInv.                                               *)
(***************************************************************************)
LEMMA EndKept ==
  ASSUME NEW t \in Threads, EndInv(t), asks' = asks,
         visit'[t] = visit[t], specific'[t] = specific[t],
         at'[t] = at[t] \/ (at[t] \notin {"ending", "ended"} /\ at'[t] \notin {"ending", "ended"})
  PROVE  EndInv(t)'
BY DEF EndInv, Ranking, Least

LEMMA LocalsStart == Init => LocalsInv
<1> SUFFICES ASSUME Init PROVE LocalsInv
  OBVIOUS
<1>1. Rounds \in Nat \ {0} /\ Len(Keys) \in Nat /\ Locals = 1 .. Len(Keys)
      /\ Asks \subseteq SUBSET (Locals \X Locals)
  BY SingletonsAssumption
<1> HIDE DEF Locals
<1>2. NoObjects \in [Threads -> Numbers]
  BY DEF NoObjects, Numbers
<1>3. <<1, 1>> \in (1 .. Rounds) \X (1 .. Len(Keys) + 1)
  BY <1>1
<1>4. LocalsType
  BY <1>1, <1>2, <1>3 DEF Init, LocalsType, Places
<1>5. ASSUME NEW t \in Threads
      PROVE  SoundGroup(Objects(t)) /\ EndInv(t)
  <2>1. SoundGroup(Objects(t))
    <3>1. \A l \in Locals : /\ specific[t][l] = 0 /\ t_value_[t][l] = 0
                            /\ living[t][l] = {} /\ news[t][l] = 0
      BY DEF Init, NoObjects
    <3>2. \A l \in Locals : /\ Objects(t).specific[l] = 0 /\ Objects(t).t_value_[l] = 0
                            /\ Objects(t).living[l] = {} /\ Objects(t).news[l] = 0
      BY <1>4, <3>1, ObjectsAre
    <3>3. \A l \in Locals : Sound(Objects(t), l)
      <4>1. ASSUME NEW o, NEW l, o.specific[l] = 0, o.t_value_[l] = 0, o.living[l] = {}, o.news[l] = 0
            PROVE  Sound(o, l)
        BY <4>1 DEF Sound
      <4> QED
        BY <3>2, <4>1, Zenon
    <3> QED
      BY <1>4, <3>3, ObjectsAre DEF SoundGroup
  <2>2. at[t] = "running" /\ visit[t] = <<1, 1>>
    BY DEF Init
  <2> QED
    BY <2>1, <2>2 DEF EndInv
<1> QED
  BY <1>4, <1>5 DEF LocalsInv

\* The steps that leave the objects of threads alone.
LEMMA ElsewhereKept ==
  ASSUME LocalsInv, NEW t \in Threads, UNCHANGED <<asks, specific, t_value_, living, news>>,
         visit' \in [Threads -> (1 .. Rounds) \X (1 .. Len(Keys) + 1)], at' \in [Threads -> Places],
         \A u \in Threads \ {t} : visit'[u] = visit[u] /\ at'[u] = at[u],
         EndInv(t)'
  PROVE  LocalsInv'
<1>1. LocalsType'
  BY DEF LocalsInv, LocalsType
<1>2. \A u \in Threads : SoundGroup(Objects(u))'
  BY ZenonT(30) DEF LocalsInv, Objects, SoundGroup, Sound
<1>3. \A u \in Threads \ {t} : EndInv(u)'
  BY EndKept DEF LocalsInv
<1> QED
  BY <1>1, <1>2, <1>3 DEF LocalsInv

\* The steps that change the objects of one thread.
LEMMA ObjectsKept ==
  ASSUME LocalsInv, NEW t \in Threads, NEW o, SoundGroup(o), SetObjects(t, o),
         UNCHANGED <<at, asks>>,
         visit' \in [Threads -> (1 .. Rounds) \X (1 .. Len(Keys) + 1)],
         \A u \in Threads \ {t} : visit'[u] = visit[u],
         EndInv(t)'
  PROVE  LocalsInv'
<1>1. LocalsType /\ o \in Group
  BY DEF LocalsInv, SoundGroup
<1>2. LocalsType'
  BY <1>1, ObjectsSet DEF LocalsType
<1>3. ASSUME NEW u \in Threads
      PROVE  SoundGroup(Objects(u))'
  <2>1. CASE u = t
    <3>1. Objects(u)' = o
      BY <1>1, <2>1, ObjectsSet
    <3> QED
      BY <3>1 DEF SoundGroup, Sound
  <2>2. CASE u # t
    <3>1. Objects(u)' = Objects(u)
      BY <1>1, <2>2, ObjectsSet
    <3>2. SoundGroup(Objects(u))
      BY DEF LocalsInv
    <3> QED
      BY <3>1, <3>2 DEF SoundGroup, Sound
  <2> QED
    BY <2>1, <2>2
<1>4. \A u \in Threads \ {t} : EndInv(u)'
  BY <1>1, ObjectsSet, EndKept DEF LocalsInv
<1> QED
  BY <1>2, <1>3, <1>4 DEF LocalsInv

LEMMA AskKept ==
  ASSUME LocalsInv, NEW t \in Threads, NEW l \in Locals, Ask(t, l)
  PROVE  LocalsInv'
<1> DEFINE o == Asked(Objects(t), {l})
<1>1. SoundGroup(Objects(t)) /\ EndInv(t)
  BY DEF LocalsInv
<1>2. SoundGroup(o)
  BY <1>1, AskedSound
<1>3. SetObjects(t, o) /\ UNCHANGED <<at, asks, visit>> /\ at[t] = "running"
  BY DEF Ask
<1>4. EndInv(t)'
  BY <1>1, <1>3 DEF EndInv, Ranking
<1> HIDE DEF o
<1> QED
  BY <1>2, <1>3, <1>4, ObjectsKept DEF LocalsInv, LocalsType

\* A visited key leaves only what has a rank above it.
LEMMA VisitKept ==
  ASSUME LocalsInv, NEW t \in Threads, VisitKey(t)
  PROVE  LocalsInv'
<1> DEFINE l == visit[t][2]
           o == Objects(t)
           n == IF o.specific[l] = 0 THEN o
                ELSE Destructed([o EXCEPT !.specific[l] = 0], l, o.specific[l])
<1>1. /\ LocalsType /\ SoundGroup(o) /\ EndInv(t)
      /\ o.specific = specific[t] /\ specific[t] \in Numbers
  BY ObjectsAre DEF LocalsInv, LocalsType
<1>2. /\ at[t] = "ending" /\ l \in Locals /\ SetObjects(t, n)
      /\ visit' = [visit EXCEPT ![t][2] = l + 1] /\ UNCHANGED <<at, single, asks>>
  BY DEF VisitKey
<1>3. /\ visit[t] \in (1 .. Rounds) \X (1 .. Len(Keys) + 1) /\ Locals = 1 .. Len(Keys)
      /\ Rounds \in Nat \ {0} /\ Len(Keys) \in Nat
      /\ visit \in [Threads -> (1 .. Rounds) \X (1 .. Len(Keys) + 1)]
  BY <1>1, SingletonsAssumption DEF LocalsType
<1> DEFINE r == visit[t][1]
<1>4. r \in Nat /\ l \in Nat /\ visit[t] = <<r, l>> /\ l + 1 \in 1 .. Len(Keys) + 1
  BY <1>2, <1>3
<1>5. /\ visit'[t] = <<r, l + 1>> /\ visit' \in [Threads -> (1 .. Rounds) \X (1 .. Len(Keys) + 1)]
      /\ \A u \in Threads \ {t} : visit'[u] = visit[u]
  <2>1. [visit[t] EXCEPT ![2] = l + 1] = <<r, l + 1>>
    BY <1>4
  <2>2. visit' = [visit EXCEPT ![t] = <<r, l + 1>>]
    BY <1>2, <2>1
  <2>3. <<r, l + 1>> \in (1 .. Rounds) \X (1 .. Len(Keys) + 1)
    BY <1>3, <1>4
  <2> HIDE DEF r, l
  <2> QED
    BY <1>3, <2>2, <2>3
<1>6. SoundGroup(n) /\ \A m \in Locals : n.specific[m] # 0 =>
                         (<<l, m>> \in asks /\ o.specific[l] # 0) \/ (m # l /\ o.specific[m] # 0)
  <2>1. asks \subseteq Locals \X Locals
    BY <1>1 DEF LocalsType
  <2>2. CASE o.specific[l] = 0
    BY <1>1, <2>2
  <2>3. CASE o.specific[l] # 0
    <3> HIDE DEF l, o
    <3> QED
      BY <1>1, <1>2, <2>1, <2>3, DestructedSound
  <2> QED
    BY <2>2, <2>3
<1> HIDE DEF n
<1>7. specific'[t] = n.specific
  BY <1>1, <1>2, <1>6, ObjectsSet DEF SoundGroup
<1>8. EndInv(t)'
  <2> SUFFICES ASSUME NEW rank, Ranking(rank), NEW m \in Locals, n.specific[m] # 0
               PROVE  Least(<<r, l + 1>>, m) <= rank[m]
    BY <1>2, <1>5, <1>7 DEF EndInv, Ranking
  <2>1. \A k \in Locals : specific[t][k] # 0 => Least(<<r, l>>, k) <= rank[k]
    BY <1>1, <1>2, <1>4 DEF EndInv
  <2>2. \A k \in Locals : rank[k] \in Nat /\ k \in Nat
    BY <1>3 DEF Ranking
  <2>3. CASE <<l, m>> \in asks /\ o.specific[l] # 0
    <3>1. rank[l] < rank[m]
      BY <2>3 DEF Ranking
    <3>2. r <= rank[l]
      BY <1>1, <1>2, <1>4, <2>1, <2>3 DEF Least
    <3> HIDE DEF r, l
    <3> QED
      BY <1>2, <1>4, <2>2, <3>1, <3>2 DEF Least
  <2>4. CASE m # l /\ o.specific[m] # 0
    <3>1. Least(<<r, l>>, m) <= rank[m]
      BY <1>1, <2>1, <2>4
    <3> HIDE DEF r, l
    <3> QED
      BY <1>4, <2>2, <2>4, <3>1 DEF Least
  <2> QED
    BY <1>6, <2>3, <2>4
<1> QED
  BY <1>2, <1>5, <1>6, <1>8, ObjectsKept

LEMMA RoundKept ==
  ASSUME LocalsInv, NEW t \in Threads, NextRound(t)
  PROVE  LocalsInv'
<1> DEFINE r == visit[t][1]
           l == visit[t][2]
<1>1. LocalsType /\ EndInv(t) /\ specific[t] \in Numbers
  BY DEF LocalsInv, LocalsType
<1>2. /\ at[t] = "ending" /\ l \notin Locals
      /\ UNCHANGED <<asks, specific, t_value_, living, news>>
  BY DEF NextRound
<1>3. /\ visit[t] \in (1 .. Rounds) \X (1 .. Len(Keys) + 1) /\ Locals = 1 .. Len(Keys)
      /\ Rounds \in Nat \ {0} /\ Len(Keys) \in Nat
      /\ visit \in [Threads -> (1 .. Rounds) \X (1 .. Len(Keys) + 1)]
      /\ at \in [Threads -> Places]
  BY <1>1, SingletonsAssumption DEF LocalsType
<1>4. r \in 1 .. Rounds /\ l = Len(Keys) + 1 /\ visit[t] = <<r, l>>
  BY <1>2, <1>3
<1>5. ASSUME NEW rank, Ranking(rank), NEW k \in Locals, specific[t][k] # 0
      PROVE  r + 1 <= rank[k] /\ rank[k] \in 1 .. Len(Keys)
  <2>1. Least(<<r, l>>, k) <= rank[k]
    BY <1>1, <1>2, <1>4, <1>5 DEF EndInv
  <2>2. rank[k] \in 1 .. Len(Keys) /\ k < l
    BY <1>3, <1>4, <1>5 DEF Ranking
  <2> HIDE DEF r, l
  <2> QED
    BY <2>1, <2>2 DEF Least
<1>6. CASE r < Rounds /\ \E k \in Locals : specific[t][k] # 0
  <2>1. visit' = [visit EXCEPT ![t] = <<r + 1, 1>>] /\ at' = at
    BY <1>6 DEF NextRound
  <2>2. <<r + 1, 1>> \in (1 .. Rounds) \X (1 .. Len(Keys) + 1)
    BY <1>3, <1>4, <1>6
  <2> HIDE DEF r, l
  <2>3. /\ visit' \in [Threads -> (1 .. Rounds) \X (1 .. Len(Keys) + 1)] /\ visit'[t] = <<r + 1, 1>>
        /\ \A u \in Threads \ {t} : visit'[u] = visit[u]
    BY <1>3, <2>1, <2>2
  <2>4. \A k \in Locals : Least(<<r + 1, 1>>, k) = r + 1
    BY <1>3 DEF Least
  <2>5. EndInv(t)'
    BY <1>2, <1>5, <2>1, <2>3, <2>4 DEF EndInv, Ranking
  <2> QED
    BY <1>2, <1>3, <2>1, <2>3, <2>5, ElsewhereKept
<1>7. CASE ~(r < Rounds /\ \E k \in Locals : specific[t][k] # 0)
  <2>1. visit' = visit /\ at' = [at EXCEPT ![t] = "ended"]
    BY <1>7 DEF NextRound, Goto
  <2>2. at' \in [Threads -> Places] /\ at'[t] = "ended" /\ \A u \in Threads \ {t} : at'[u] = at[u]
    BY <1>3, <2>1 DEF Places
  <2>3. ASSUME NEW rank, Ranking(rank), Len(Keys) <= Rounds, NEW k \in Locals
        PROVE  specific[t][k] = 0
    <3> SUFFICES ASSUME specific[t][k] # 0 PROVE FALSE
      OBVIOUS
    <3>1. r = Rounds
      BY <1>3, <1>4, <1>7
    <3> HIDE DEF r
    <3> QED
      BY <1>3, <1>5, <2>3, <3>1
  <2>4. EndInv(t)'
    BY <1>2, <2>2, <2>3 DEF EndInv, Ranking
  <2> QED
    BY <1>2, <1>3, <2>1, <2>2, <2>4, ElsewhereKept
<1> QED
  BY <1>6, <1>7

LEMMA PlacesKept ==
  ASSUME LocalsInv, NEW t \in Threads, NEW place \in Places, UNCHANGED <<asks, local>>,
         at' = [at EXCEPT ![t] = place], at[t] \notin {"ending", "ended"}, place # "ended"
  PROVE  LocalsInv'
<1>1. /\ LocalsType /\ at \in [Threads -> Places] /\ EndInv(t) /\ UNCHANGED <<specific, visit>>
      /\ UNCHANGED <<t_value_, living, news>>
      /\ visit \in [Threads -> (1 .. Rounds) \X (1 .. Len(Keys) + 1)]
  BY DEF LocalsInv, LocalsType, local
<1>2. at' \in [Threads -> Places] /\ at'[t] = place /\ \A u \in Threads \ {t} : at'[u] = at[u]
  BY <1>1
<1>3. EndInv(t)'
  <2>1. CASE place # "ending"
    BY <1>1, <1>2, <2>1, EndKept
  <2>2. CASE place = "ending"
    <3> SUFFICES ASSUME NEW rank, Ranking(rank), NEW l \in Locals
                 PROVE  Least(<<1, 1>>, l) <= rank[l]
      BY <1>1, <1>2, <2>2 DEF EndInv, Ranking
    <3>1. Locals = 1 .. Len(Keys) /\ Len(Keys) \in Nat
      BY SingletonsAssumption
    <3>2. l \in 1 .. Len(Keys) /\ rank[l] \in 1 .. Len(Keys)
      BY <3>1 DEF Ranking
    <3> QED
      BY <3>1, <3>2 DEF Least
  <2> QED
    BY <2>1, <2>2
<1> QED
  BY <1>1, <1>2, <1>3, ElsewhereKept

LEMMA LocalsKept == LocalsInv /\ [Next]_vars => LocalsInv'
<1> SUFFICES ASSUME LocalsInv, [Next]_vars PROVE LocalsInv'
  OBVIOUS
<1>1. ASSUME NEW t \in Threads, NEW l \in Locals, Ask(t, l)
      PROVE  LocalsInv'
  BY <1>1, AskKept
<1>2. ASSUME NEW t \in Threads, VisitKey(t)
      PROVE  LocalsInv'
  BY <1>2, VisitKept
<1>3. ASSUME NEW t \in Threads, NextRound(t)
      PROVE  LocalsInv'
  BY <1>3, RoundKept
<1>4. ASSUME NEW t \in Threads,
             \/ AskInstance(t) \/ EnterInit(t) \/ MakeInstance(t) \/ ReturnInstance(t)
             \/ Exit(t) \/ EndProcess(t) \/ EndThread(t)
      PROVE  LocalsInv'
  <2>1. \E place \in Places : /\ at' = [at EXCEPT ![t] = place] /\ UNCHANGED <<asks, local>>
                              /\ at[t] \notin {"ending", "ended"} /\ place # "ended"
    BY <1>4 DEF AskInstance, EnterInit, MakeInstance, ReturnInstance, Exit, EndProcess, EndThread,
                Goto, Places
  <2> QED
    BY <2>1, PlacesKept
<1>5. CASE UNCHANGED <<at, asks, local>>
  <2>1. UNCHANGED <<at, asks, specific, t_value_, living, news, visit>>
    BY <1>5 DEF local
  <2>2. LocalsType'
    BY <2>1 DEF LocalsInv, LocalsType
  <2>3. \A u \in Threads : SoundGroup(Objects(u))'
    BY <2>1 DEF LocalsInv, Objects, SoundGroup, Sound
  <2>4. \A u \in Threads : EndInv(u)'
    BY <2>1, EndKept DEF LocalsInv
  <2> QED
    BY <2>2, <2>3, <2>4 DEF LocalsInv
<1>6. ASSUME NEW t \in Threads, destory(t)
      PROVE  LocalsInv'
  BY <1>5, <1>6 DEF destory
<1> QED
  <2>1. CASE Terminated \/ UNCHANGED vars
    BY <1>5, <2>1 DEF Terminated, vars
  <2> QED
    BY <1>1, <1>2, <1>3, <1>4, <1>6, <2>1 DEF Next, ThreadStep

LEMMA LocalsAlways == Spec => []LocalsInv
BY LocalsStart, LocalsKept, PTL DEF Spec

\* A thread gets only objects that live, and the rounds of destructors at its end leave
\* none, if there are as many as locals and the destructors do not ask in a circle.
THEOREM LocalsCorrect == Spec => []LocalsAreReclaimed
<1>1. LocalsInv => LocalsAreReclaimed
  <2> SUFFICES ASSUME LocalsInv PROVE LocalsAreReclaimed
    OBVIOUS
  <2>1. ASSUME NEW t \in Threads, NEW l \in Locals
        PROVE  /\ specific[t][l] # 0 => specific[t][l] \in living[t][l]
               /\ l \in Singles => t_value_[t][l] = specific[t][l]
               /\ specific[t][l] = 0 => living[t][l] = {}
    BY ObjectsAre, ZenonT(30) DEF LocalsInv, SoundGroup, Sound
  <2>2. ASSUME Acyclic, Len(Keys) <= Rounds, NEW t \in Threads, at[t] = "ended", NEW l \in Locals
        PROVE  living[t][l] = {}
    <3>1. PICK rank : Ranking(rank)
      BY <2>2 DEF Acyclic, Ranking
    <3>2. specific[t][l] = 0
      BY <2>2, <3>1 DEF LocalsInv, EndInv
    <3> QED
      BY <2>1, <3>2
  <2> QED
    BY <2>1, <2>2 DEF LocalsAreReclaimed
<1> QED
  BY <1>1, LocalsAlways, PTL
=============================================================================
