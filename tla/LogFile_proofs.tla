---------------------------- MODULE LogFile_proofs ----------------------------
(***************************************************************************)
(* Proofs about LogFile, for any sizes, intervals and clock, set back or   *)
(* not.                                                                    *)
(*                                                                         *)
(* None of the invariants is inductive: what is known of a file depends on *)
(* when its lines came, seen from the second of its name (lastRoll_) and   *)
(* of the last flush (lastFlush_).  ClockInv says that.                    *)
(***************************************************************************)
EXTENDS LogFile, FiniteSetTheorems, SequenceTheorems, WellFoundedInduction, TLAPS

-----------------------------------------------------------------------------
(***************************************************************************)
(* Sequences.  FlattenSeq is a recursive function; what is proved about it *)
(* is proved by induction on sets of numbers, which follows from the       *)
(* theorem WFMin of WellFoundedInduction.                                  *)
(***************************************************************************)
\* Induction over the natural numbers, for a set of them.
LEMMA SetInduction ==
  ASSUME NEW T, 0 \in T, \A n \in Nat : n \in T => n + 1 \in T
  PROVE  Nat \subseteq T
<1> DEFINE out == Nat \ T
<1> SUFFICES ASSUME out # {} PROVE FALSE
  OBVIOUS
<1>1. \E x \in out : \A y \in out : ~ (<<y, x>> \in OpToRel(<, Nat))
  <2>1. out \subseteq Nat /\ IsWellFoundedOn(OpToRel(<, Nat), Nat)
    BY NatLessThanWellFounded
  <2> HIDE DEF out
  <2> QED
    BY <2>1, WFMin
<1>2. PICK x \in out : \A y \in out : ~ (<<y, x>> \in OpToRel(<, Nat))
  BY <1>1
<1>3. \A y \in out : ~ (y < x)
  BY <1>2 DEF OpToRel
<1>4. x \in Nat /\ x # 0
  OBVIOUS
<1>5. x - 1 \in Nat /\ x - 1 < x /\ (x - 1) + 1 = x
  BY <1>4
<1>6. x - 1 \in T
  BY <1>3, <1>5
<1> QED
  BY <1>5, <1>6

LEMMA ConcatAppend ==
  ASSUME NEW S, NEW s \in Seq(S), NEW t \in Seq(S), NEW x \in S
  PROVE  s \o Append(t, x) = Append(s \o t, x)
<1> DEFINE a == s \o Append(t, x)
           b == Append(s \o t, x)
           n == Len(s) + Len(t) + 1
<1>1. /\ Len(s) \in Nat /\ Len(t) \in Nat /\ Append(t, x) \in Seq(S) /\ Len(Append(t, x)) = Len(t) + 1
      /\ s \o t \in Seq(S) /\ Len(s \o t) = Len(s) + Len(t)
  OBVIOUS
<1>2. a \in Seq(S) /\ b \in Seq(S) /\ Len(a) = n /\ Len(b) = n /\ n \in Nat
  BY <1>1
<1>3. \A i \in 1 .. n : a[i] = b[i]
  BY <1>1
<1> HIDE DEF a, b, n
<1>4. a = [i \in 1 .. n |-> a[i]] /\ b = [i \in 1 .. n |-> b[i]]
  BY <1>2
<1>5. a = b
  BY <1>3, <1>4
<1> QED
  BY <1>5 DEF a, b

-----------------------------------------------------------------------------
(***************************************************************************)
(* FlattenSeq.                                                             *)
(***************************************************************************)
\* g is the function by which FlattenSeq is defined, for the first n sequences of ss.
Flattens(g, ss, n) ==
  g = [i \in 1 .. n |-> IF i = 1 THEN ss[i] ELSE g[i - 1] \o ss[i]]

LEMMA FlattensExists ==
  ASSUME NEW ss
  PROVE  \A n \in Nat : \E g : Flattens(g, ss, n)
<1> DEFINE T == {n \in Nat : \E g : Flattens(g, ss, n)}
<1>1. 0 \in T
  <2> DEFINE g == [i \in 1 .. 0 |-> ss[i]]
  <2>1. g = [i \in 1 .. 0 |-> IF i = 1 THEN ss[i] ELSE g[i - 1] \o ss[i]]
    OBVIOUS
  <2> QED
    BY <2>1 DEF Flattens
<1>2. ASSUME NEW n \in Nat, n \in T
      PROVE  n + 1 \in T
  <2>1. PICK g : Flattens(g, ss, n)
    BY <1>2
  <2> DEFINE h == [i \in 1 .. n + 1 |-> IF i \in 1 .. n THEN g[i]
                                        ELSE IF i = 1 THEN ss[i] ELSE g[i - 1] \o ss[i]]
  <2>2. ASSUME NEW i \in 1 .. n + 1
        PROVE  h[i] = IF i = 1 THEN ss[i] ELSE h[i - 1] \o ss[i]
    <3>1. i # 1 => i - 1 \in 1 .. n /\ h[i - 1] = g[i - 1]
      OBVIOUS
    <3>2. i \in 1 .. n => g[i] = IF i = 1 THEN ss[i] ELSE g[i - 1] \o ss[i]
      BY <2>1 DEF Flattens
    <3>3. h[i] = IF i = 1 THEN ss[i] ELSE g[i - 1] \o ss[i]
      BY <3>2
    <3> QED
      BY <3>1, <3>3
  <2>3. h = [i \in 1 .. n + 1 |-> h[i]]
    OBVIOUS
  <2> HIDE DEF h
  <2>4. h = [i \in 1 .. n + 1 |-> IF i = 1 THEN ss[i] ELSE h[i - 1] \o ss[i]]
    BY <2>2, <2>3
  <2>5. Flattens(h, ss, n + 1)
    BY <2>4 DEF Flattens
  <2> QED
    BY <2>5
<1> HIDE DEF T
<1>3. Nat \subseteq T
  BY <1>1, <1>2, SetInduction
<1> QED
  BY <1>3 DEF T

\* Such functions agree as long as their sequences do.
Agree(s, t, n) == \A i \in 1 .. n : s[i] = t[i]

LEMMA FlattensUnique ==
  ASSUME NEW ss, NEW tt, NEW n \in Nat, NEW m \in Nat, NEW g, NEW h,
         Flattens(g, ss, n), Flattens(h, tt, m), n <= m, Agree(ss, tt, n)
  PROVE  Agree(g, h, n)
<1> DEFINE T == {k \in Nat : k \in 1 .. n => g[k] = h[k]}
<1>1. \A i \in 1 .. n : /\ g[i] = IF i = 1 THEN ss[i] ELSE g[i - 1] \o ss[i]
                        /\ h[i] = IF i = 1 THEN tt[i] ELSE h[i - 1] \o tt[i]
                        /\ ss[i] = tt[i]
  <2>1. \A i \in 1 .. n : g[i] = IF i = 1 THEN ss[i] ELSE g[i - 1] \o ss[i]
    BY DEF Flattens
  <2>2. \A i \in 1 .. m : h[i] = IF i = 1 THEN tt[i] ELSE h[i - 1] \o tt[i]
    BY DEF Flattens
  <2>3. 1 .. n \subseteq 1 .. m
    OBVIOUS
  <2> QED
    BY <2>1, <2>2, <2>3 DEF Agree
<1>2. 0 \in T
  OBVIOUS
<1>3. ASSUME NEW k \in Nat, k \in T
      PROVE  k + 1 \in T
  <2> SUFFICES ASSUME k + 1 \in 1 .. n PROVE g[k + 1] = h[k + 1]
    OBVIOUS
  <2>1. (k + 1) - 1 = k
    OBVIOUS
  <2>2. CASE k = 0
    BY <1>1, <2>2
  <2>3. CASE k # 0
    <3>1. g[k] = h[k] /\ k + 1 # 1
      BY <1>3, <2>3
    <3> QED
      BY <1>1, <2>1, <3>1
  <2> QED
    BY <2>2, <2>3
<1> HIDE DEF T
<1>4. Nat \subseteq T
  BY <1>2, <1>3, SetInduction
<1> QED
  BY <1>4 DEF T, Agree

LEMMA FlattenSeqDef ==
  ASSUME NEW ss, Len(ss) \in Nat, Len(ss) # 0
  PROVE  \E g : Flattens(g, ss, Len(ss)) /\ FlattenSeq(ss) = g[Len(ss)]
<1>1. \E g : Flattens(g, ss, Len(ss))
  BY FlattensExists
<1> DEFINE f == CHOOSE g : Flattens(g, ss, Len(ss))
<1>2. Flattens(f, ss, Len(ss))
  BY <1>1
<1>3. FlattenSeq(ss) = f[Len(ss)]
  BY DEF FlattenSeq, Flattens
<1> HIDE DEF f
<1> QED
  BY <1>2, <1>3

\* One sequence more at the end: its elements come behind those of the others.
LEMMA FlattenAppend ==
  ASSUME NEW S, NEW ss \in Seq(Seq(S)), NEW s \in Seq(S)
  PROVE  FlattenSeq(Append(ss, s)) = FlattenSeq(ss) \o s
<1> DEFINE tt == Append(ss, s)
           n  == Len(ss)
<1>1. /\ n \in Nat /\ Len(tt) = n + 1 /\ tt[n + 1] = s
      /\ \A i \in 1 .. n : ss[i] = tt[i]
  OBVIOUS
<1> HIDE DEF tt
<1>2. PICK h : Flattens(h, tt, n + 1) /\ FlattenSeq(tt) = h[n + 1]
  BY <1>1, FlattenSeqDef
<1>3. h[n + 1] = IF n + 1 = 1 THEN s ELSE h[n] \o s
  <2>1. \A i \in 1 .. n + 1 : h[i] = IF i = 1 THEN tt[i] ELSE h[i - 1] \o tt[i]
    BY <1>2 DEF Flattens
  <2>2. n + 1 \in 1 .. n + 1 /\ (n + 1) - 1 = n
    BY <1>1
  <2> HIDE DEF n
  <2> QED
    BY <1>1, <2>1, <2>2
<1>4. CASE n = 0
  <2>1. ss = <<>> /\ FlattenSeq(ss) = <<>>
    BY <1>4 DEF FlattenSeq
  <2>2. <<>> \o s = s
    OBVIOUS
  <2> QED
    BY <1>2, <1>3, <1>4, <2>1, <2>2 DEF tt
<1>5. CASE n # 0
  <2>1. PICK g : Flattens(g, ss, n) /\ FlattenSeq(ss) = g[n]
    BY <1>1, <1>5, FlattenSeqDef
  <2> HIDE DEF n
  <2>2. n + 1 \in Nat /\ n <= n + 1
    BY <1>1
  <2>3. \A i \in 1 .. n : g[i] = h[i]
    <3>1. n \in Nat /\ Agree(ss, tt, n)
      BY <1>1 DEF Agree
    <3>2. Flattens(g, ss, n) /\ Flattens(h, tt, n + 1)
      BY <1>2, <2>1
    <3>3. Agree(g, h, n)
      BY <2>2, <3>1, <3>2, FlattensUnique
    <3> QED
      BY <3>3 DEF Agree
  <2>4. g[n] = h[n] /\ n + 1 # 1
    BY <1>1, <1>5, <2>3
  <2> QED
    BY <1>2, <1>3, <2>1, <2>4 DEF tt
<1> QED
  BY <1>4, <1>5

LEMMA FlattenEmpty == FlattenSeq(<<>>) = <<>>
BY DEF FlattenSeq

\* What comes out is a sequence of the elements that went in.
LEMMA FlattenType ==
  ASSUME NEW S, NEW ss \in Seq(Seq(S))
  PROVE  FlattenSeq(ss) \in Seq(S)
<1>1. CASE Len(ss) = 0
  <2>1. ss = <<>>
    BY <1>1
  <2>2. FlattenSeq(ss) = <<>>
    BY <2>1, FlattenEmpty
  <2> QED
    BY <2>2
<1>2. CASE Len(ss) # 0
  <2> DEFINE n == Len(ss)
  <2>1. n \in Nat /\ n # 0 /\ \A i \in 1 .. n : ss[i] \in Seq(S)
    BY <1>2
  <2>2. PICK g : Flattens(g, ss, n) /\ FlattenSeq(ss) = g[n]
    BY <2>1, FlattenSeqDef
  <2> HIDE DEF n
  <2> DEFINE T == {k \in Nat : k \in 1 .. n => g[k] \in Seq(S)}
  <2>3. \A i \in 1 .. n : g[i] = IF i = 1 THEN ss[i] ELSE g[i - 1] \o ss[i]
    BY <2>2 DEF Flattens
  <2>4. 0 \in T
    OBVIOUS
  <2>5. ASSUME NEW k \in Nat, k \in T
        PROVE  k + 1 \in T
    <3> SUFFICES ASSUME k + 1 \in 1 .. n PROVE g[k + 1] \in Seq(S)
      OBVIOUS
    <3>1. (k + 1) - 1 = k
      OBVIOUS
    <3>2. CASE k = 0
      BY <2>1, <2>3, <3>2
    <3>3. CASE k # 0
      <4>1. g[k] \in Seq(S) /\ ss[k + 1] \in Seq(S)
        BY <2>1, <2>5, <3>3
      <4>2. k + 1 # 1
        BY <3>3
      <4>3. g[k + 1] = g[k] \o ss[k + 1]
        BY <2>3, <3>1, <4>2
      <4> QED
        BY <4>1, <4>3
    <3> QED
      BY <3>2, <3>3
  <2> HIDE DEF T
  <2>6. Nat \subseteq T
    BY <2>4, <2>5, SetInduction
  <2> QED
    BY <2>1, <2>2, <2>6 DEF T
<1> QED
  BY <1>1, <1>2

-----------------------------------------------------------------------------
Piece == [line : Nat, whole : BOOLEAN]
File  == [name : Nat, lines : Seq(Piece), flushed : Nat, error : BOOLEAN, writenBytes_ : Nat]

FileType ==
  /\ now \in 1 .. MaxTime /\ count_ \in 0 .. CheckEveryN - 1
  /\ startOfPeriod_ = Period(lastRoll_) /\ lastRoll_ \in Nat /\ lastFlush_ \in Nat
  /\ file_ \in File /\ file_.flushed <= Len(file_.lines)
  /\ closedFiles \in Seq(File)
  /\ open \in BOOLEAN /\ log \in Seq(Nat) /\ setBack \in BOOLEAN
  /\ \A i \in DOMAIN file_.lines : file_.lines[i].line \in 1 .. Len(log)

NamesInv ==
  /\ file_.name = lastRoll_
  /\ \A i \in DOMAIN closedFiles : closedFiles[i].name < lastRoll_
  /\ \A i, j \in DOMAIN closedFiles : i < j => closedFiles[i].name < closedFiles[j].name

SizeInv == file_.writenBytes_ > RollSize => log # <<>> /\ log[Len(log)] <= lastRoll_

\* The second in which the i-th line of the current file came.
Came(i) == log[file_.lines[i].line]

ClockInv == setBack \/
  /\ lastRoll_ <= now /\ lastFlush_ <= now
  /\ \A i \in DOMAIN file_.lines :
       Came(i) \in lastRoll_ .. now /\ (i > file_.flushed => lastFlush_ <= Came(i))

\* FlushedInTime, for the lines up to the last that was checked.
FlushInv == setBack \/
  \A i, j \in file_.flushed + 1 .. Len(file_.lines) :
    file_.lines[j].line <= Len(log) - count_ => Came(j) - Came(i) <= FlushInterval

Stray == {i \in DOMAIN file_.lines : Period(Came(i)) # startOfPeriod_}

StrayInv == setBack \/ Cardinality(Stray) <= count_

IInv == FileType /\ NamesInv /\ SizeInv /\ ClockInv /\ FlushInv /\ StrayInv

-----------------------------------------------------------------------------
(***************************************************************************)
(* The operations.                                                         *)
(***************************************************************************)
\* A second lies in its own period, and a later one in no earlier period.
LEMMA PeriodOf ==
  ASSUME NEW s \in Nat, NEW t \in Nat, s <= t
  PROVE  Period(s) \in Nat /\ Period(s) <= Period(t)
<1> DEFINE d == RollPerSeconds
           a == s \div d
           b == t \div d
<1>1. d \in Nat /\ d > 0
  BY LogFileAssumption
<1>2. a \in Nat /\ b \in Nat
  BY <1>1
<1>3. a <= b
  <2>1. s = d * a + (s % d) /\ s % d \in 0 .. d - 1 /\ t = d * b + (t % d) /\ t % d \in 0 .. d - 1
    BY <1>1
  <2>2. PICK p, q \in 0 .. d - 1 : s = d * a + p /\ t = d * b + q
    BY <2>1
  <2> SUFFICES ASSUME b < a PROVE FALSE
    BY <1>2
  <2> HIDE DEF a, b, d
  <2>3. PICK k \in Nat : a = b + 1 + k
    <3>1. a - (b + 1) \in Nat
      BY <1>2
    <3> QED
      BY <1>2, <3>1
  <2>4. d * a = d * b + d + d * k /\ d * k \in Nat /\ d * b \in Nat
    BY <1>1, <1>2, <2>3
  <2> QED
    BY <1>1, <2>2, <2>4
<1>4. a * d <= b * d /\ a * d \in Nat
  <2> HIDE DEF a, b, d
  <2> QED
    BY <1>1, <1>2, <1>3
<1> QED
  BY <1>4 DEF Period

\* What an error leaves of a text is a beginning of it, in which the last line may be
\* torn; what had left the buffer is untouched.
LEMMA CutsOf ==
  ASSUME NEW text \in Seq(Piece), NEW n \in Nat, n <= Len(text), NEW c \in Cuts(text, n)
  PROVE  /\ c \in Seq(Piece) /\ n <= Len(c) /\ Len(c) <= Len(text)
         /\ \A i \in DOMAIN c : c[i].line = text[i].line
<1>1. PICK k \in n .. Len(text) - 1 :
        c = SubSeq(text, 1, k) \/ c = Append(SubSeq(text, 1, k), Torn(text[k + 1]))
  BY DEF Cuts
<1> DEFINE s == SubSeq(text, 1, k)
<1>2. /\ Len(text) \in Nat /\ k \in Nat /\ k + 1 \in 1 .. Len(text)
      /\ text[k + 1] \in Piece
  BY <1>1
<1>3. s \in Seq(Piece) /\ Len(s) = k /\ \A i \in 1 .. k : s[i] = text[i]
  BY <1>2, SubSeqProperties
<1>4. Torn(text[k + 1]) \in Piece /\ Torn(text[k + 1]).line = text[k + 1].line
  BY <1>2 DEF Torn, Piece
<1> HIDE DEF s
<1>5. CASE c = s
  BY <1>1, <1>2, <1>3, <1>5
<1>6. CASE c = Append(s, Torn(text[k + 1]))
  BY <1>1, <1>2, <1>3, <1>4, <1>6
<1> QED
  BY <1>1, <1>5, <1>6 DEF s

\* fflush() and fclose() keep the file and leave its buffer empty.
LEMMA FlushedOf ==
  ASSUME NEW f \in File, f.flushed <= Len(f.lines), NEW g \in Flushed(f)
  PROVE  /\ g \in File /\ g.name = f.name /\ g.writenBytes_ = f.writenBytes_
         /\ g.flushed = Len(g.lines) /\ f.flushed <= Len(g.lines) /\ Len(g.lines) <= Len(f.lines)
         /\ \A i \in DOMAIN g.lines : g.lines[i].line = f.lines[i].line
<1>1. f.lines \in Seq(Piece) /\ f.flushed \in Nat /\ Len(f.lines) \in Nat
  BY DEF File
<1>2. CASE g = [f EXCEPT !.flushed = Len(f.lines)]
  BY <1>1, <1>2 DEF File
<1>3. CASE g \in Failed(f)
  <2>1. PICK c \in Cuts(f.lines, f.flushed) :
          g = [f EXCEPT !.lines = c, !.flushed = Len(c), !.error = TRUE]
    BY <1>3, Zenon DEF Failed
  <2>2. /\ c \in Seq(Piece) /\ f.flushed <= Len(c) /\ Len(c) <= Len(f.lines)
        /\ \A i \in DOMAIN c : c[i].line = f.lines[i].line
    BY <1>1, CutsOf
  <2>3. Len(c) \in Nat
    BY <2>2
  <2> QED
    BY <2>1, <2>2, <2>3 DEF File
<1> QED
  BY <1>2, <1>3 DEF Flushed

\* The current file after a write: what is left of its lines, and maybe the new line.
Grown(f) ==
  /\ f \in File /\ f.name = file_.name
  /\ file_.flushed <= f.flushed /\ f.flushed <= Len(f.lines)
  /\ Len(f.lines) <= Len(file_.lines) + 1
  /\ \A i \in DOMAIN f.lines :
       f.lines[i].line = IF i \in DOMAIN file_.lines THEN file_.lines[i].line ELSE Len(log) + 1

LEMMA NewFileOf ==
  \A t \in Nat : /\ NewFile(t) \in File /\ NewFile(t).name = t /\ NewFile(t).lines = <<>>
                 /\ NewFile(t).flushed = 0 /\ NewFile(t).error = FALSE
                 /\ NewFile(t).writenBytes_ = 0
<1> SUFFICES ASSUME NEW t \in Nat
             PROVE  /\ NewFile(t) \in File /\ NewFile(t).name = t /\ NewFile(t).lines = <<>>
                    /\ NewFile(t).flushed = 0 /\ NewFile(t).error = FALSE
                    /\ NewFile(t).writenBytes_ = 0
  OBVIOUS
<1>1. <<>> \in Seq(Piece)
  OBVIOUS
<1> QED
  BY <1>1 DEF File, NewFile

LEMMA WithLineOf ==
  ASSUME FileType, NEW len \in Nat
  PROVE  /\ Grown(WithLine(len))
         /\ WithLine(len).lines = Append(file_.lines, Whole(Len(log) + 1))
         /\ WithLine(len).flushed = file_.flushed /\ WithLine(len).error = file_.error
<1> DEFINE x == Whole(Len(log) + 1)
           f == WithLine(len)
<1>1. file_ \in File /\ Len(log) + 1 \in Nat
  BY DEF FileType
<1>2. x \in Piece /\ x.line = Len(log) + 1
  BY <1>1 DEF Whole, Piece
<1>3. file_.lines \in Seq(Piece) /\ file_.writenBytes_ + len \in Nat
  BY <1>1 DEF File
<1> HIDE DEF x
<1>4. /\ Append(file_.lines, x) \in Seq(Piece) /\ Len(file_.lines) \in Nat
      /\ Len(Append(file_.lines, x)) = Len(file_.lines) + 1
      /\ DOMAIN file_.lines = 1 .. Len(file_.lines)
      /\ \A i \in DOMAIN Append(file_.lines, x) :
           Append(file_.lines, x)[i] = IF i \in DOMAIN file_.lines THEN file_.lines[i] ELSE x
  BY <1>2, <1>3
<1>5. /\ f.lines = Append(file_.lines, x) /\ f.flushed = file_.flushed /\ f.name = file_.name
      /\ f.error = file_.error /\ f \in File
  BY <1>1, <1>3, <1>4 DEF WithLine, File, x
<1>6. file_.flushed \in Nat /\ file_.flushed <= Len(file_.lines)
  BY <1>1 DEF File, FileType
<1> HIDE DEF f
<1>7. Grown(f)
  BY <1>2, <1>4, <1>5, <1>6 DEF Grown
<1> QED
  BY <1>5, <1>7 DEF f, x

LEMMA FlushedGrown ==
  ASSUME FileType, NEW f, Grown(f), NEW g \in Flushed(f)
  PROVE  Grown(g) /\ g.flushed = Len(g.lines) /\ g.writenBytes_ = f.writenBytes_
<1>1. /\ g \in File /\ g.name = f.name /\ g.writenBytes_ = f.writenBytes_
      /\ g.flushed = Len(g.lines) /\ f.flushed <= Len(g.lines) /\ Len(g.lines) <= Len(f.lines)
      /\ \A i \in DOMAIN g.lines : g.lines[i].line = f.lines[i].line
  BY FlushedOf DEF Grown
<1>2. /\ f.lines \in Seq(Piece) /\ g.lines \in Seq(Piece) /\ file_.lines \in Seq(Piece)
      /\ f.flushed \in Nat /\ file_.flushed \in Nat
  BY <1>1 DEF Grown, File, FileType
<1>3. DOMAIN g.lines \subseteq DOMAIN f.lines /\ Len(g.lines) \in Nat /\ Len(f.lines) \in Nat
      /\ Len(file_.lines) \in Nat
  BY <1>1, <1>2
<1> QED
  BY <1>1, <1>2, <1>3 DEF Grown

LEMMA WritesGrown ==
  ASSUME FileType, NEW len \in Nat, NEW f \in Writes(len)
  PROVE  Grown(f)
<1>1. Grown(WithLine(len))
  BY WithLineOf
<1>2. f = WithLine(len) \/ f \in Flushed(WithLine(len))
  BY DEF Writes, Flushed
<1> QED
  BY <1>1, <1>2, FlushedGrown

\* What an append() can come to, with f for the file after the write.
Logged ==
  /\ log' = Append(log, now') /\ UNCHANGED open
  /\ now' \in 1 .. MaxTime
  /\ setBack' \in BOOLEAN /\ (~setBack' => ~setBack /\ now <= now')

Rolled(f) ==
  /\ now' > lastRoll_ /\ lastRoll_' = now' /\ lastFlush_' = now'
  /\ startOfPeriod_' = Period(now')
  /\ \E g \in Flushed(f) : closedFiles' = Append(closedFiles, g)
  /\ file_' = NewFile(now')
  /\ count_' \in {0, count_}

\* The size, or the day, wants a new file, which a second cannot have twice.
KeptForName(f) == now' <= lastRoll_ /\ KeepFile(f) /\ count_' \in {0, count_}

Unchecked(f) == ~TooLarge(f) /\ count_ + 1 < CheckEveryN /\ count_' = count_ + 1 /\ KeepFile(f)

FlushedNow(f) ==
  /\ ~TooLarge(f) /\ count_' = 0
  /\ Period(now') = startOfPeriod_ /\ lastFlush_' = now'
  /\ file_' \in Flushed(f) /\ UNCHANGED <<startOfPeriod_, lastRoll_, closedFiles>>

Checked(f) ==
  /\ ~TooLarge(f) /\ count_' = 0
  /\ Period(now') = startOfPeriod_ /\ now' - lastFlush_ <= FlushInterval
  /\ KeepFile(f)

Appends(f) ==
  /\ Logged
  /\ Rolled(f) \/ KeptForName(f) \/ Unchecked(f) \/ FlushedNow(f) \/ Checked(f)

\* The readings are seconds of the clock, and unless it is set back they grow.
LEMMA ReadingsLogged ==
  ASSUME FileType, NEW t \in 1 .. MaxTime, NEW u \in 1 .. MaxTime, Appended(t, u)
  PROVE  Logged /\ now' = u
<1>1. MaxTime \in Nat /\ now \in Nat
  BY LogFileAssumption DEF FileType
<1>2. now' = u /\ setBack' = (setBack \/ t < now \/ u < t) /\ log' = Append(log, u) /\ open' = open
  BY DEF Appended
<1>3. ~setBack' => ~setBack /\ now <= u
  <2> SUFFICES ASSUME ~setBack' PROVE ~setBack /\ now <= u
    OBVIOUS
  <2>1. ~(setBack \/ t < now \/ u < t)
    BY <1>2, Zenon
  <2>2. ~setBack /\ ~(t < now) /\ ~(u < t)
    BY <2>1, Zenon
  <2> QED
    BY <1>1, <2>2
<1>4. setBack' \in BOOLEAN
  BY <1>2
<1> QED
  BY <1>2, <1>3, <1>4 DEF Logged

LEMMA AppendCases ==
  ASSUME FileType, AppendLine
  PROVE  open /\ \E len \in Nat : \E f \in Writes(len) : Appends(f)
<1>1. PICK len \in Lengths :
        \/ AppendRollsBySize(len) \/ AppendOnly(len) \/ AppendRollsByDay(len)
        \/ AppendFlushes(len) \/ AppendChecks(len)
  BY DEF AppendLine
<1>2. len \in Nat /\ now \in 1 .. MaxTime /\ MaxTime \in Nat
      /\ count_ \in Nat /\ CheckEveryN \in Nat /\ lastRoll_ \in Nat
  BY LogFileAssumption DEF FileType
<1>3. \A t : Reading(t) \subseteq 1 .. MaxTime
  BY DEF Reading
<1>4. CASE AppendRollsBySize(len)
  <2>1. PICK f \in Writes(len), t \in Reading(now) :
          Appended(t, t) /\ RollFile(f, t) /\ count_' = count_
    BY <1>4 DEF AppendRollsBySize
  <2>2. Logged /\ now' = t /\ t \in Nat
    BY <1>2, <1>3, <2>1, ReadingsLogged
  <2>3. Rolled(f) \/ KeptForName(f)
    BY <1>2, <2>1, <2>2 DEF RollFile, Rolled, KeptForName, KeepFile
  <2> QED
    BY <1>2, <2>1, <2>2, <2>3 DEF Appends, Appended
<1>5. CASE AppendOnly(len)
  <2>1. PICK f \in Writes(len) :
          /\ Appended(now, now) /\ ~TooLarge(f) /\ ~TimeToCheck /\ count_' = count_ + 1
          /\ KeepFile(f)
    BY <1>5 DEF AppendOnly
  <2>2. Logged
    BY <1>2, <2>1, ReadingsLogged
  <2>3. Unchecked(f)
    BY <1>2, <2>1 DEF Unchecked, TimeToCheck
  <2> QED
    BY <1>2, <2>1, <2>2, <2>3 DEF Appends, Appended
<1>6. CASE AppendRollsByDay(len)
  <2>1. PICK f \in Writes(len), t \in Reading(now) :
          count_' = 0 /\ \E u \in Reading(t) : Appended(t, u) /\ RollFile(f, u)
    BY <1>6 DEF AppendRollsByDay
  <2>2. PICK u \in Reading(t) : Appended(t, u) /\ RollFile(f, u)
    BY <2>1
  <2>3. Logged /\ now' = u /\ u \in Nat
    BY <1>2, <1>3, <2>2, ReadingsLogged
  <2>4. Rolled(f) \/ KeptForName(f)
    BY <1>2, <2>1, <2>2, <2>3 DEF RollFile, Rolled, KeptForName, KeepFile
  <2> QED
    BY <1>2, <2>2, <2>3, <2>4 DEF Appends, Appended
<1>7. CASE AppendFlushes(len)
  <2>1. PICK f \in Writes(len), t \in Reading(now) :
          /\ Appended(t, t) /\ ~TooLarge(f) /\ count_' = 0
          /\ Period(t) = startOfPeriod_ /\ lastFlush_' = t /\ file_' \in Flushed(f)
          /\ UNCHANGED <<startOfPeriod_, lastRoll_, closedFiles>>
    BY <1>7 DEF AppendFlushes
  <2>2. Logged /\ now' = t
    BY <1>2, <1>3, <2>1, ReadingsLogged
  <2>3. FlushedNow(f)
    BY <2>1, <2>2 DEF FlushedNow
  <2> QED
    BY <1>2, <2>1, <2>2, <2>3 DEF Appends, Appended
<1>8. CASE AppendChecks(len)
  <2>1. PICK f \in Writes(len), t \in Reading(now) :
          /\ Appended(t, t) /\ ~TooLarge(f) /\ count_' = 0
          /\ Period(t) = startOfPeriod_ /\ t - lastFlush_ <= FlushInterval /\ KeepFile(f)
    BY <1>8 DEF AppendChecks
  <2>2. Logged /\ now' = t
    BY <1>2, <1>3, <2>1, ReadingsLogged
  <2>3. Checked(f)
    BY <2>1, <2>2 DEF Checked
  <2> QED
    BY <1>2, <2>1, <2>2, <2>3 DEF Appends, Appended
<1> QED
  BY <1>1, <1>4, <1>5, <1>6, <1>7, <1>8

-----------------------------------------------------------------------------
(***************************************************************************)
(* append() keeps the invariants.                                          *)
(***************************************************************************)
\* The current file after an append(), unless it is a new one.
LEMMA AppendKeeps ==
  ASSUME FileType, NEW f, Grown(f), Appends(f)
  PROVE  \/ Rolled(f)
         \/ /\ Grown(file_') /\ file_'.writenBytes_ = f.writenBytes_
            /\ closedFiles' = closedFiles
            /\ lastRoll_' = lastRoll_ /\ startOfPeriod_' = startOfPeriod_
            /\ \/ FlushedNow(f) /\ file_'.flushed = Len(file_'.lines)
               \/ (KeptForName(f) \/ Unchecked(f) \/ Checked(f))
                    /\ lastFlush_' = lastFlush_ /\ file_' = f
<1>1. CASE FlushedNow(f)
  <2>1. PICK g \in Flushed(f) : file_' = g
    BY <1>1 DEF FlushedNow
  <2>2. Grown(g) /\ g.flushed = Len(g.lines) /\ g.writenBytes_ = f.writenBytes_
    BY FlushedGrown
  <2> QED
    BY <1>1, <2>1, <2>2 DEF FlushedNow
<1>2. CASE KeptForName(f) \/ Unchecked(f) \/ Checked(f)
  BY <1>2 DEF KeptForName, Unchecked, Checked, KeepFile, roll
<1> QED
  BY <1>1, <1>2 DEF Appends

\* What append() does to the seconds in which lines came.
LEMMA AppendCame ==
  ASSUME FileType, NEW g, Grown(g), file_' = g, Logged
  PROVE  /\ DOMAIN g.lines = 1 .. Len(g.lines) /\ Len(g.lines) \in Nat
         /\ DOMAIN file_.lines = 1 .. Len(file_.lines) /\ Len(file_.lines) \in Nat
         /\ \A i \in DOMAIN g.lines :
              \/ /\ i \in DOMAIN file_.lines /\ Came(i)' = Came(i)
                 /\ g.lines[i].line = file_.lines[i].line
              \/ /\ i = Len(file_.lines) + 1 /\ Came(i)' = now'
                 /\ g.lines[i].line = Len(log) + 1
<1>1. /\ file_.lines \in Seq(Piece) /\ g.lines \in Seq(Piece)
      /\ Len(g.lines) <= Len(file_.lines) + 1
      /\ \A i \in DOMAIN g.lines :
           g.lines[i].line = IF i \in DOMAIN file_.lines THEN file_.lines[i].line ELSE Len(log) + 1
  BY DEF FileType, File, Grown
<1>2. /\ DOMAIN g.lines = 1 .. Len(g.lines) /\ Len(g.lines) \in Nat
      /\ DOMAIN file_.lines = 1 .. Len(file_.lines) /\ Len(file_.lines) \in Nat
  BY <1>1
<1>3. /\ log \in Seq(Nat) /\ Len(log) \in Nat
      /\ \A i \in DOMAIN file_.lines : file_.lines[i].line \in 1 .. Len(log)
  BY DEF FileType
<1>4. PICK t \in Nat : t = now'
  BY LogFileAssumption DEF Logged
<1>5. log' = Append(log, t)
  BY <1>4 DEF Logged
<1>6. (\A k \in 1 .. Len(log) : log'[k] = log[k]) /\ log'[Len(log) + 1] = t
  BY <1>3, <1>4, <1>5
<1> SUFFICES ASSUME NEW i \in DOMAIN g.lines
             PROVE  \/ /\ i \in DOMAIN file_.lines /\ Came(i)' = Came(i)
                       /\ g.lines[i].line = file_.lines[i].line
                    \/ /\ i = Len(file_.lines) + 1 /\ Came(i)' = now'
                       /\ g.lines[i].line = Len(log) + 1
  BY <1>2
<1>7. Came(i)' = log'[g.lines[i].line]
  BY DEF Came
<1>8. CASE i \in DOMAIN file_.lines
  <2>1. g.lines[i].line = file_.lines[i].line
    BY <1>1, <1>8
  <2>2. log'[g.lines[i].line] = log[file_.lines[i].line]
    BY <1>3, <1>6, <1>8, <2>1
  <2> QED
    BY <1>7, <1>8, <2>1, <2>2 DEF Came
<1>9. CASE i \notin DOMAIN file_.lines
  <2>1. g.lines[i].line = Len(log) + 1
    BY <1>1, <1>9
  <2>2. i = Len(file_.lines) + 1
    BY <1>1, <1>2, <1>9
  <2> QED
    BY <1>4, <1>6, <1>7, <2>1, <2>2
<1> QED
  BY <1>8, <1>9

LEMMA RolledFile ==
  ASSUME FileType, NEW f, Logged, Rolled(f)
  PROVE  /\ now' \in Nat /\ file_' \in File /\ file_'.name = now' /\ file_'.writenBytes_ = 0
         /\ file_'.lines = <<>> /\ Len(file_'.lines) = 0 /\ DOMAIN file_'.lines = {}
         /\ file_'.flushed = 0 /\ file_'.error = FALSE
<1>1. PICK t \in Nat : t = now'
  BY LogFileAssumption DEF Logged
<1>2. file_' = NewFile(t)
  BY <1>1 DEF Rolled
<1> QED
  BY <1>1, <1>2, NewFileOf

LEMMA AppendType ==
  ASSUME FileType, NEW f, Grown(f), Appends(f)
  PROVE  FileType'
<1>1. now' \in 1 .. MaxTime /\ now' \in Nat /\ open' \in BOOLEAN /\ setBack' \in BOOLEAN
  BY LogFileAssumption DEF FileType, Appends, Logged
<1>2. log' \in Seq(Nat) /\ Len(log') = Len(log) + 1 /\ Len(log) \in Nat
  BY <1>1 DEF FileType, Appends, Logged
<1>3. CASE Rolled(f)
  <2>1. file_' \in File /\ file_'.flushed = 0 /\ Len(file_'.lines) = 0 /\ DOMAIN file_'.lines = {}
    BY <1>3, RolledFile DEF Appends
  <2>2. closedFiles' \in Seq(File)
    <3>1. PICK g \in Flushed(f) : closedFiles' = Append(closedFiles, g)
      BY <1>3 DEF Rolled
    <3>2. g \in File
      BY FlushedGrown DEF Grown
    <3> QED
      BY <3>1, <3>2 DEF FileType
  <2>3. /\ startOfPeriod_' = Period(lastRoll_') /\ lastRoll_' \in Nat /\ lastFlush_' \in Nat
        /\ count_' \in 0 .. CheckEveryN - 1
    BY <1>1, <1>3, LogFileAssumption DEF Rolled, FileType
  <2> QED
    BY <1>1, <1>2, <2>1, <2>2, <2>3 DEF FileType
<1>4. CASE ~Rolled(f)
  <2>1. /\ Grown(file_') /\ closedFiles' = closedFiles
        /\ lastRoll_' = lastRoll_ /\ startOfPeriod_' = startOfPeriod_
        /\ lastFlush_' \in {lastFlush_, now'}
    BY <1>4, AppendKeeps DEF FlushedNow
  <2>2. count_' \in 0 .. CheckEveryN - 1
    BY <1>4, LogFileAssumption
       DEF Appends, FileType, KeptForName, Unchecked, FlushedNow, Checked
  <2>3. PICK g : g = file_'
    OBVIOUS
  <2>4. \A i \in DOMAIN g.lines : g.lines[i].line \in 1 .. Len(log')
    <3> SUFFICES ASSUME NEW i \in DOMAIN g.lines PROVE g.lines[i].line \in 1 .. Len(log')
      OBVIOUS
    <3>1. \/ i \in DOMAIN file_.lines /\ g.lines[i].line = file_.lines[i].line
          \/ g.lines[i].line = Len(log) + 1
      BY <2>1, <2>3, AppendCame DEF Appends
    <3>2. i \in DOMAIN file_.lines => file_.lines[i].line \in 1 .. Len(log)
      BY DEF FileType
    <3>3. g.lines[i].line \in 1 .. Len(log) + 1
      BY <1>2, <3>1, <3>2
    <3> QED
      BY <1>2, <3>3
  <2>5. g \in File /\ g.flushed <= Len(g.lines)
    BY <2>1, <2>3 DEF Grown
  <2>6. closedFiles' \in Seq(File) /\ startOfPeriod_' = Period(lastRoll_') /\ lastRoll_' \in Nat
        /\ lastFlush_' \in Nat
    BY <1>1, <2>1 DEF FileType
  <2> QED
    BY <1>1, <1>2, <2>2, <2>3, <2>4, <2>5, <2>6 DEF FileType
<1> QED
  BY <1>3, <1>4

LEMMA AppendNames ==
  ASSUME FileType, NamesInv, NEW f, Grown(f), Appends(f)
  PROVE  NamesInv'
<1>1. CASE Rolled(f)
  <2>1. now' \in Nat /\ file_'.name = now'
    BY <1>1, RolledFile DEF Appends
  <2>2. closedFiles \in Seq(File)
    BY DEF FileType
  <2>3. \A i \in DOMAIN closedFiles : closedFiles[i] \in File
    BY <2>2
  <2>4. \A i \in DOMAIN closedFiles : closedFiles[i].name \in Nat
    BY <2>3 DEF File
  <2>5. PICK g \in Flushed(f) : closedFiles' = Append(closedFiles, g)
    BY <1>1 DEF Rolled
  <2>6. g.name = lastRoll_
    BY FlushedGrown DEF Grown, NamesInv
  <2>7. lastRoll_ \in Nat /\ lastRoll_' = now' /\ now' > lastRoll_
    BY <1>1 DEF Rolled, FileType
  <2>8. PICK t \in Nat : t = now'
    BY <2>1
  <2>9. t > lastRoll_
    BY <2>7, <2>8, Zenon
  <2>10. /\ Len(closedFiles) \in Nat /\ DOMAIN closedFiles = 1 .. Len(closedFiles)
         /\ DOMAIN closedFiles' = 1 .. Len(closedFiles) + 1
         /\ closedFiles'[Len(closedFiles) + 1] = g
         /\ \A i \in DOMAIN closedFiles : closedFiles'[i] = closedFiles[i]
    BY <2>2, <2>5
  <2>11. \A i \in DOMAIN closedFiles : closedFiles[i].name < lastRoll_
    BY DEF NamesInv
  <2>12. \A i \in DOMAIN closedFiles' : closedFiles'[i].name < t
    BY <2>4, <2>6, <2>7, <2>9, <2>10, <2>11
  <2>13. ASSUME NEW i \in DOMAIN closedFiles', NEW j \in DOMAIN closedFiles', i < j
         PROVE  closedFiles'[i].name < closedFiles'[j].name
    <3>1. i \in DOMAIN closedFiles
      BY <2>10, <2>13
    <3> QED
      BY <2>6, <2>10, <2>11, <2>13, <3>1 DEF NamesInv
  <2> QED
    BY <2>1, <2>7, <2>8, <2>12, <2>13 DEF NamesInv
<1>2. CASE ~Rolled(f)
  <2>1. Grown(file_') /\ closedFiles' = closedFiles /\ lastRoll_' = lastRoll_
    BY <1>2, AppendKeeps
  <2> QED
    BY <2>1 DEF NamesInv, Grown
<1> QED
  BY <1>1, <1>2

LEMMA AppendSize ==
  ASSUME FileType, NEW f, Grown(f), Appends(f)
  PROVE  SizeInv'
<1>1. log' # <<>> /\ log'[Len(log')] = now'
  <2>1. PICK t \in Nat : t = now'
    BY LogFileAssumption DEF Appends, Logged
  <2>2. log' = Append(log, t) /\ log \in Seq(Nat)
    BY <2>1 DEF Appends, Logged, FileType
  <2> QED
    BY <2>1, <2>2
<1>2. CASE Rolled(f)
  <2>1. file_'.writenBytes_ = 0
    BY <1>2, RolledFile DEF Appends
  <2>2. ~(0 > RollSize)
    BY LogFileAssumption
  <2> QED
    BY <2>1, <2>2 DEF SizeInv
<1>3. CASE KeptForName(f)
  BY <1>1, <1>3 DEF KeptForName, KeepFile, roll, SizeInv
<1>4. CASE (Unchecked(f) \/ FlushedNow(f) \/ Checked(f)) /\ ~Rolled(f)
  <2>1. ~(f.writenBytes_ > RollSize) /\ file_'.writenBytes_ = f.writenBytes_
    BY <1>4, AppendKeeps DEF Unchecked, FlushedNow, Checked, TooLarge
  <2> QED
    BY <2>1 DEF SizeInv
<1> QED
  BY <1>2, <1>3, <1>4 DEF Appends

\* Lines come after the roll and, if not flushed, after the last flush.
LEMMA AppendClock ==
  ASSUME FileType, ClockInv, NEW f, Grown(f), Appends(f)
  PROVE  ClockInv'
<1> SUFFICES ASSUME ~setBack' PROVE ClockInv'
  BY DEF ClockInv
<1>1. /\ lastRoll_ <= now /\ lastFlush_ <= now
      /\ \A i \in DOMAIN file_.lines :
           Came(i) \in lastRoll_ .. now /\ (i > file_.flushed => lastFlush_ <= Came(i))
  BY DEF ClockInv, Appends, Logged
<1>2. now' \in Nat /\ now \in Nat /\ lastRoll_ \in Nat /\ lastFlush_ \in Nat /\ now <= now'
  BY LogFileAssumption DEF FileType, Appends, Logged
<1>3. CASE Rolled(f)
  <2>1. DOMAIN file_'.lines = {}
    BY <1>3, RolledFile DEF Appends
  <2> QED
    BY <1>2, <1>3, <2>1 DEF Rolled, ClockInv
<1>4. CASE ~Rolled(f)
  <2>1. Grown(file_') /\ lastRoll_' = lastRoll_
    BY <1>4, AppendKeeps
  <2>2. PICK g : g = file_'
    OBVIOUS
  <2>3. \A i \in DOMAIN g.lines : Came(i)' = now' \/ (i \in DOMAIN file_.lines /\ Came(i)' = Came(i))
    BY <2>1, <2>2, AppendCame DEF Appends
  <2>4. \A i \in DOMAIN g.lines : Came(i)' \in lastRoll_' .. now'
    BY <1>1, <1>2, <2>1, <2>3
  <2>5. CASE FlushedNow(f) /\ g.flushed = Len(g.lines)
    <3>1. \A i \in DOMAIN g.lines : ~(i > g.flushed)
      BY <2>1, <2>2, <2>5 DEF Grown, File
    <3> QED
      BY <1>1, <1>2, <2>1, <2>2, <2>4, <2>5, <3>1 DEF FlushedNow, ClockInv
  <2>6. CASE lastFlush_' = lastFlush_
    <3>1. \A i \in DOMAIN g.lines : i > g.flushed => lastFlush_' <= Came(i)'
      <4>1. file_.flushed \in Nat /\ g.flushed \in Nat /\ file_.flushed <= g.flushed
        BY <2>1, <2>2 DEF Grown, File, FileType
      <4>2. \A i \in DOMAIN g.lines : i \in Nat
        BY <2>1, <2>2 DEF Grown, File
      <4> QED
        BY <1>1, <1>2, <2>3, <2>6, <4>1, <4>2
    <3> QED
      BY <1>1, <1>2, <2>1, <2>2, <2>4, <2>6, <3>1 DEF ClockInv
  <2> QED
    BY <1>4, <2>2, <2>5, <2>6, AppendKeeps
<1> QED
  BY <1>3, <1>4

\* If the file is kept because a second has only one name, that second is the one in
\* which all its lines came.
LEMMA KeptWithinSecond ==
  ASSUME FileType, ClockInv, NEW f, Grown(f), Appends(f), KeptForName(f), ~Rolled(f), ~setBack'
  PROVE  \A i \in DOMAIN file_'.lines : Came(i)' = lastRoll_
<1>1. now' \in Nat /\ now \in Nat /\ lastRoll_ \in Nat /\ now <= now'
  BY LogFileAssumption DEF FileType, Appends, Logged
<1>2. ClockInv' /\ lastRoll_' = lastRoll_ /\ now' <= lastRoll_
  BY AppendClock, AppendKeeps DEF KeptForName
<1>3. \A i \in DOMAIN file_'.lines : Came(i)' \in lastRoll_' .. now'
  BY <1>2 DEF ClockInv
<1> QED
  BY <1>1, <1>2, <1>3

LEMMA AppendFlush ==
  ASSUME FileType, ClockInv, FlushInv, NEW f, Grown(f), Appends(f)
  PROVE  FlushInv'
<1> SUFFICES ASSUME ~setBack' PROVE FlushInv'
  BY DEF FlushInv
<1>1. now' \in Nat /\ now \in Nat /\ lastRoll_ \in Nat /\ lastFlush_ \in Nat /\ FlushInterval \in Nat
      /\ count_ \in Nat /\ ~setBack /\ now <= now'
  BY LogFileAssumption DEF FileType, Appends, Logged
<1>2. Len(log) \in Nat /\ Len(log') = Len(log) + 1
  BY <1>1 DEF FileType, Appends, Logged
<1>3. CASE Rolled(f)
  <2>1. Len(file_'.lines) = 0 /\ file_'.flushed = 0
    BY <1>3, RolledFile DEF Appends
  <2> QED
    BY <2>1 DEF FlushInv
<1>4. CASE ~Rolled(f)
  <2>1. PICK g : g = file_'
    OBVIOUS
  <2>2. Grown(g) /\ lastRoll_' = lastRoll_
    BY <1>4, <2>1, AppendKeeps
  <2>3. /\ DOMAIN g.lines = 1 .. Len(g.lines) /\ Len(g.lines) \in Nat
        /\ DOMAIN file_.lines = 1 .. Len(file_.lines) /\ Len(file_.lines) \in Nat
        /\ \A i \in DOMAIN g.lines :
             \/ /\ i \in DOMAIN file_.lines /\ Came(i)' = Came(i)
                /\ g.lines[i].line = file_.lines[i].line
             \/ Came(i)' = now' /\ g.lines[i].line = Len(log) + 1
    BY <2>1, <2>2, AppendCame DEF Appends
  <2>4. g.flushed \in Nat /\ file_.flushed \in Nat /\ file_.flushed <= g.flushed
    BY <2>2 DEF Grown, File, FileType
  <2>5. g.flushed + 1 .. Len(g.lines) \subseteq DOMAIN g.lines
    BY <2>3, <2>4
  <2>6. ClockInv'
    BY AppendClock
  <2>7. \A i \in DOMAIN g.lines :
          Came(i)' \in lastRoll_ .. now' /\ (i > g.flushed => lastFlush_' <= Came(i)')
    BY <2>1, <2>2, <2>6 DEF ClockInv
  <2>8. CASE KeptForName(f)
    <3>1. \A i \in DOMAIN g.lines : Came(i)' = lastRoll_
      BY <1>4, <2>1, <2>8, KeptWithinSecond
    <3>2. \A i, j \in g.flushed + 1 .. Len(g.lines) : Came(j)' - Came(i)' = 0
      BY <1>1, <2>5, <3>1
    <3> QED
      BY <1>1, <2>1, <3>2 DEF FlushInv
  <2>9. CASE Unchecked(f)
    <3>1. Len(log') - count_' = Len(log) - count_
      BY <1>1, <1>2, <2>9 DEF Unchecked
    <3> SUFFICES ASSUME NEW i \in g.flushed + 1 .. Len(g.lines),
                        NEW j \in g.flushed + 1 .. Len(g.lines),
                        g.lines[j].line <= Len(log') - count_'
                 PROVE  Came(j)' - Came(i)' <= FlushInterval
      BY <2>1 DEF FlushInv
    <3>2. i \in DOMAIN g.lines /\ j \in DOMAIN g.lines
      BY <2>5
    <3>3. j \in DOMAIN file_.lines /\ Came(j)' = Came(j) /\ g.lines[j].line = file_.lines[j].line
      <4>1. ~(Len(log) + 1 <= Len(log) - count_)
        BY <1>1, <1>2
      <4>2. g.lines[j].line # Len(log) + 1
        BY <3>1, <4>1
      <4> QED
        BY <2>3, <3>2, <4>2
    <3>4. Came(j) \in lastRoll_ .. now
      BY <1>1, <3>3 DEF ClockInv
    <3>5. CASE i \in DOMAIN file_.lines /\ Came(i)' = Came(i)
      <4>1. i \in file_.flushed + 1 .. Len(file_.lines) /\ j \in file_.flushed + 1 .. Len(file_.lines)
        BY <2>3, <2>4, <3>3, <3>5
      <4>2. file_.lines[j].line <= Len(log) - count_
        BY <3>1, <3>3
      <4>3. Came(j) - Came(i) <= FlushInterval
        BY <1>1, <4>1, <4>2 DEF FlushInv
      <4> QED
        BY <3>3, <3>5, <4>3
    <3>6. CASE Came(i)' = now'
      <4>1. PICK t \in Nat : t = now'
        BY <1>1
      <4>2. Came(j) - t <= FlushInterval
        BY <1>1, <3>4, <4>1
      <4> QED
        BY <3>3, <3>6, <4>1, <4>2
    <3> QED
      BY <2>3, <3>2, <3>5, <3>6
  <2>10. CASE FlushedNow(f) /\ g.flushed = Len(g.lines)
    BY <2>1, <2>3, <2>10 DEF FlushInv
  <2>11. CASE Checked(f)
    <3>1. lastFlush_' = lastFlush_
      BY <2>11 DEF Checked, KeepFile, roll
    <3>2. PICK t \in Nat : t = now'
      BY <1>1
    <3>3. t - lastFlush_ <= FlushInterval
      BY <2>11, <3>2, Zenon DEF Checked
    <3>4. \A x, y \in Int : lastFlush_ <= x /\ y <= t => y - x <= FlushInterval
      <4>1. lastFlush_ \in Nat /\ FlushInterval \in Nat /\ t \in Nat
        BY <1>1, <3>2
      <4> QED
        BY <3>3, <4>1
    <3>5. \A i \in g.flushed + 1 .. Len(g.lines) :
            Came(i)' \in Int /\ lastFlush_ <= Came(i)' /\ Came(i)' <= t
      <4>1. \A i \in g.flushed + 1 .. Len(g.lines) : i \in DOMAIN g.lines /\ i > g.flushed
        BY <2>4, <2>5
      <4>2. \A i \in g.flushed + 1 .. Len(g.lines) :
              Came(i)' \in lastRoll_ .. t /\ lastFlush_ <= Came(i)'
        BY <2>7, <3>1, <3>2, <4>1
      <4> QED
        BY <1>1, <3>2, <4>2
    <3>6. \A i, j \in g.flushed + 1 .. Len(g.lines) : Came(j)' - Came(i)' <= FlushInterval
      BY <3>4, <3>5
    <3> QED
      BY <2>1, <3>6 DEF FlushInv
  <2> QED
    BY <1>4, <2>1, <2>8, <2>9, <2>10, <2>11, AppendKeeps
<1> QED
  BY <1>3, <1>4

LEMMA AppendStray ==
  ASSUME FileType, ClockInv, StrayInv, NEW f, Grown(f), Appends(f)
  PROVE  StrayInv'
<1> SUFFICES ASSUME ~setBack' PROVE StrayInv'
  BY DEF StrayInv
<1>1. FileType' /\ ClockInv' /\ ~setBack
  BY AppendType, AppendClock DEF Appends, Logged
<1>2. count_ \in Nat /\ count_' \in Nat /\ lastRoll_ \in Nat /\ now' \in Nat
  BY <1>1, LogFileAssumption DEF FileType
<1>3. Stray' = {} => StrayInv'
  BY <1>2, FS_EmptySet DEF StrayInv
<1>4. CASE Rolled(f)
  <2>1. Stray' = {}
    BY <1>4, RolledFile DEF Stray, Appends
  <2> QED
    BY <1>3, <2>1
<1>5. CASE KeptForName(f) /\ ~Rolled(f)
  <2>1. \A i \in DOMAIN file_'.lines : Came(i)' = lastRoll_
    BY <1>5, KeptWithinSecond
  <2>2. startOfPeriod_' = Period(lastRoll_)
    BY <1>5 DEF KeptForName, KeepFile, roll, FileType
  <2>3. Stray' = {}
    BY <2>1, <2>2 DEF Stray, Period
  <2> QED
    BY <1>3, <2>3
<1>6. CASE (FlushedNow(f) \/ Checked(f)) /\ ~Rolled(f)
  <2>1. lastRoll_' = lastRoll_ /\ Period(now') = startOfPeriod_ /\ startOfPeriod_' = startOfPeriod_
    BY <1>6 DEF FlushedNow, Checked, KeepFile, roll
  <2>2. ASSUME NEW i \in DOMAIN file_'.lines
        PROVE  Period(Came(i)') = startOfPeriod_'
    <3>1. Came(i)' \in lastRoll_ .. now'
      BY <1>1, <2>1 DEF ClockInv
    <3>2. Came(i)' \in Nat
      BY <1>2, <3>1
    <3>3. Period(lastRoll_) <= Period(Came(i)') /\ Period(Came(i)') <= Period(now')
      BY <1>2, <3>1, <3>2, PeriodOf
    <3>4. Period(lastRoll_) = startOfPeriod_
      BY DEF FileType
    <3>5. \A s \in Nat : Period(s) \in Nat
      BY PeriodOf
    <3> QED
      BY <1>2, <2>1, <3>2, <3>3, <3>4, <3>5
  <2>3. Stray' = {}
    BY <2>2 DEF Stray, Period
  <2> QED
    BY <1>3, <2>3
<1>7. CASE Unchecked(f) /\ ~Rolled(f)
  <2>1. count_' = count_ + 1 /\ startOfPeriod_' = startOfPeriod_
    BY <1>7 DEF Unchecked, KeepFile, roll
  <2>2. IsFiniteSet(Stray) /\ Cardinality(Stray) \in Nat
    <3>1. Len(file_.lines) \in Nat /\ DOMAIN file_.lines = 1 .. Len(file_.lines)
      BY DEF FileType, File
    <3>2. IsFiniteSet(1 .. Len(file_.lines))
      BY <3>1, FS_Interval
    <3> QED
      BY <3>1, <3>2, FS_Subset, FS_CardinalityType DEF Stray
  <2> DEFINE more == Stray \union {Len(file_.lines) + 1}
  <2>3. Stray' \subseteq more
    <3>1. PICK g : g = file_'
      OBVIOUS
    <3>2. Grown(g)
      BY <1>7, <3>1, AppendKeeps
    <3>3. \A i \in DOMAIN g.lines :
            i = Len(file_.lines) + 1 \/ (i \in DOMAIN file_.lines /\ Came(i)' = Came(i))
      BY <3>1, <3>2, AppendCame DEF Appends
    <3> QED
      BY <2>1, <3>1, <3>3 DEF Stray, Period
  <2>4. IsFiniteSet(more) /\ Cardinality(more) \in {Cardinality(Stray), Cardinality(Stray) + 1}
    BY <2>2, FS_AddElement
  <2> HIDE DEF more
  <2>5. Cardinality(Stray') <= Cardinality(more) /\ Cardinality(Stray') \in Nat
    BY <2>3, <2>4, FS_Subset, FS_CardinalityType
  <2> QED
    BY <1>1, <1>2, <2>1, <2>2, <2>4, <2>5 DEF StrayInv
<1> QED
  BY <1>4, <1>5, <1>6, <1>7 DEF Appends

-----------------------------------------------------------------------------
(***************************************************************************)
(* The clock, flush() and the destructor keep them; the constructor        *)
(* establishes them.                                                       *)
(***************************************************************************)
LEMMA InitInv == Init => IInv
<1> SUFFICES ASSUME Init PROVE IInv
  OBVIOUS
<1>1. now \in Nat /\ RollSize \in Nat /\ CheckEveryN \in Nat \ {0}
  BY LogFileAssumption DEF Init
<1>2. /\ file_ \in File /\ file_.lines = <<>> /\ Len(file_.lines) = 0 /\ DOMAIN file_.lines = {}
      /\ file_.name = now /\ file_.writenBytes_ = 0 /\ file_.flushed = 0
  BY <1>1, NewFileOf DEF Init
<1>3. FileType
  <2>1. /\ now \in 1 .. MaxTime /\ lastRoll_ = now /\ lastFlush_ = now /\ count_ = 0
        /\ closedFiles = <<>> /\ log = <<>> /\ open = TRUE /\ setBack = FALSE
        /\ startOfPeriod_ = Period(now)
    BY DEF Init
  <2>2. count_ \in 0 .. CheckEveryN - 1 /\ file_.flushed <= Len(file_.lines)
    BY <1>1, <1>2, <2>1
  <2>3. closedFiles \in Seq(File) /\ log \in Seq(Nat)
    BY <2>1
  <2>4. open \in BOOLEAN /\ setBack \in BOOLEAN
    BY <2>1
  <2>5. startOfPeriod_ = Period(lastRoll_) /\ lastRoll_ \in Nat /\ lastFlush_ \in Nat
    BY <1>1, <2>1
  <2>6. \A i \in DOMAIN file_.lines : file_.lines[i].line \in 1 .. Len(log)
    BY <1>2
  <2> QED
    BY <1>2, <2>1, <2>2, <2>3, <2>4, <2>5, <2>6 DEF FileType
<1>4. NamesInv /\ SizeInv
  BY <1>1, <1>2 DEF Init, NamesInv, SizeInv
<1>5. ClockInv /\ FlushInv
  BY <1>1, <1>2 DEF Init, ClockInv, FlushInv
<1>6. Stray = {}
  BY <1>2 DEF Stray
<1>7. StrayInv
  BY <1>6, FS_EmptySet DEF Init, StrayInv
<1> QED
  BY <1>3, <1>4, <1>5, <1>7 DEF IInv

LEMMA TickInv ==
  ASSUME IInv, Tick
  PROVE  IInv'
<1>1. /\ UNCHANGED <<count_, startOfPeriod_, lastRoll_, lastFlush_, file_, closedFiles, open, log>>
      /\ setBack' \in BOOLEAN /\ (setBack => setBack')
      /\ now' \in 1 .. MaxTime /\ (~setBack' => now' = now + 1)
  <2>1. now \in 1 .. MaxTime /\ setBack \in BOOLEAN /\ MaxTime \in Nat
    BY LogFileAssumption DEF IInv, FileType
  <2>2. CASE now < MaxTime /\ now' = now + 1 /\ UNCHANGED setBack
    BY <2>1, <2>2 DEF Tick, roll
  <2>3. CASE now' \in 1 .. now - 1 /\ setBack' = TRUE
    BY <2>1, <2>3 DEF Tick, roll
  <2> QED
    BY <2>2, <2>3 DEF Tick
<1>2. now \in Nat
  BY LogFileAssumption DEF IInv, FileType
<1>3. FileType' /\ NamesInv' /\ SizeInv'
  BY <1>1 DEF IInv, FileType, NamesInv, SizeInv, Period
<1>4. \A i : Came(i)' = Came(i)
  BY <1>1 DEF Came
<1>5. lastRoll_ \in Nat /\ lastFlush_ \in Nat
  BY DEF IInv, FileType
<1>6. ClockInv'
  BY <1>1, <1>2, <1>4, <1>5 DEF IInv, ClockInv
<1>7. FlushInv'
  BY <1>1, <1>4 DEF IInv, FlushInv
<1>8. Stray' = Stray
  BY <1>1, <1>4 DEF Stray, Period
<1>9. StrayInv'
  BY <1>1, <1>8 DEF IInv, StrayInv
<1> QED
  BY <1>3, <1>6, <1>7, <1>9 DEF IInv

LEMMA FlushesInv ==
  ASSUME IInv, Flush \/ Destroy
  PROVE  IInv'
<1>1. /\ UNCHANGED <<now, count_, startOfPeriod_, lastRoll_, lastFlush_, closedFiles, log, setBack>>
      /\ open' \in BOOLEAN
  BY DEF IInv, FileType, Flush, Destroy, roll
<1>2. PICK g \in Flushed(file_) : file_' = g
  BY DEF Flush, Destroy
<1>3. /\ file_ \in File /\ file_.flushed <= Len(file_.lines)
      /\ \A i \in DOMAIN file_.lines : file_.lines[i].line \in 1 .. Len(log)
  BY DEF IInv, FileType
<1>4. /\ g \in File /\ g.name = file_.name /\ g.writenBytes_ = file_.writenBytes_
      /\ g.flushed = Len(g.lines) /\ file_.flushed <= Len(g.lines) /\ Len(g.lines) <= Len(file_.lines)
      /\ \A i \in DOMAIN g.lines : g.lines[i].line = file_.lines[i].line
  BY <1>3, FlushedOf
<1>5. /\ Len(g.lines) \in Nat /\ DOMAIN g.lines = 1 .. Len(g.lines)
      /\ DOMAIN g.lines \subseteq DOMAIN file_.lines
  <2>1. g.lines \in Seq(Piece) /\ file_.lines \in Seq(Piece)
    BY <1>3, <1>4 DEF File
  <2> QED
    BY <1>4, <2>1
<1>6. g.flushed <= Len(g.lines) /\ \A i \in DOMAIN g.lines : g.lines[i].line \in 1 .. Len(log)
  BY <1>3, <1>4, <1>5
<1>7. FileType' /\ NamesInv' /\ SizeInv'
  BY <1>1, <1>2, <1>4, <1>6 DEF IInv, FileType, NamesInv, SizeInv, Period
<1>8. \A i \in DOMAIN g.lines : Came(i)' = Came(i)
  BY <1>1, <1>2, <1>4 DEF Came
<1>9. ClockInv'
  <2>1. \A i \in DOMAIN g.lines : ~(i > g.flushed)
    BY <1>4, <1>5
  <2> QED
    BY <1>1, <1>2, <1>5, <1>8, <2>1 DEF IInv, ClockInv
<1>10. FlushInv'
  BY <1>2, <1>4, <1>5 DEF FlushInv
<1>11. Stray' \subseteq Stray
  BY <1>1, <1>2, <1>5, <1>8 DEF Stray, Period
<1>12. StrayInv'
  <2>1. IsFiniteSet(Stray)
    <3>1. Len(file_.lines) \in Nat /\ DOMAIN file_.lines = 1 .. Len(file_.lines)
      BY <1>3 DEF File
    <3>2. IsFiniteSet(1 .. Len(file_.lines))
      BY <3>1, FS_Interval
    <3> QED
      BY <3>1, <3>2, FS_Subset DEF Stray
  <2>2. /\ Cardinality(Stray') <= Cardinality(Stray)
        /\ Cardinality(Stray') \in Nat /\ Cardinality(Stray) \in Nat
    BY <1>11, <2>1, FS_Subset, FS_CardinalityType
  <2>3. count_ \in Nat
    BY LogFileAssumption DEF IInv, FileType
  <2> QED
    BY <1>1, <2>2, <2>3 DEF IInv, StrayInv
<1> QED
  BY <1>7, <1>9, <1>10, <1>12 DEF IInv

LEMMA Inductive == IInv /\ [Next]_vars => IInv'
<1> SUFFICES ASSUME IInv, [Next]_vars PROVE IInv'
  OBVIOUS
<1>1. CASE AppendLine
  <2>1. PICK len \in Nat : \E f \in Writes(len) : Appends(f)
    BY <1>1, AppendCases DEF IInv
  <2>2. PICK f \in Writes(len) : Appends(f)
    BY <2>1
  <2>3. Grown(f)
    BY WritesGrown DEF IInv
  <2> QED
    BY <2>2, <2>3, AppendType, AppendNames, AppendSize, AppendClock, AppendFlush, AppendStray DEF IInv
<1>2. CASE UNCHANGED vars
  <2>1. UNCHANGED <<now, count_, startOfPeriod_, lastRoll_, lastFlush_, file_, closedFiles,
                    open, log, setBack>>
    BY <1>2 DEF vars, roll
  <2>2. FileType' /\ NamesInv' /\ SizeInv'
    BY <2>1 DEF IInv, FileType, NamesInv, SizeInv, Period
  <2>3. \A i : Came(i)' = Came(i)
    BY <2>1 DEF Came
  <2>4. ClockInv' /\ FlushInv'
    BY <2>1, <2>3 DEF IInv, ClockInv, FlushInv
  <2>5. Stray' = Stray
    BY <2>1, <2>3 DEF Stray, Period
  <2>6. StrayInv'
    BY <2>1, <2>5 DEF IInv, StrayInv
  <2> QED
    BY <2>2, <2>4, <2>6 DEF IInv
<1> QED
  BY <1>1, <1>2, TickInv, FlushesInv DEF Next, Terminated

LEMMA Invariance == Spec => []IInv
BY InitInv, Inductive, PTL DEF Spec

-----------------------------------------------------------------------------
(***************************************************************************)
(* What the run checks.                                                    *)
(***************************************************************************)
\* rollFile() never opens a file that it has opened before, whatever the clock does.
THEOREM NamesCorrect == Spec => []DistinctNames
<1>1. IInv => DistinctNames
  <2> SUFFICES ASSUME IInv, NEW i \in DOMAIN Files, NEW j \in DOMAIN Files, i < j
               PROVE  Files[i].name < Files[j].name
    BY DEF DistinctNames
  <2>1. closedFiles \in Seq(File) /\ file_ \in File
    BY DEF IInv, FileType
  <2>2. i \in DOMAIN closedFiles /\ Files[i] = closedFiles[i]
    BY <2>1 DEF Files
  <2>3. CASE j \in DOMAIN closedFiles
    BY <2>1, <2>2, <2>3 DEF Files, IInv, NamesInv
  <2>4. CASE j \notin DOMAIN closedFiles
    <3>1. Files[j] = file_
      BY <2>1, <2>4 DEF Files
    <3> QED
      BY <2>2, <3>1 DEF IInv, NamesInv
  <2> QED
    BY <2>3, <2>4
<1> QED
  BY Invariance, <1>1, PTL

\* A file is left larger than rollSize_ only while the clock shows no later second than
\* the one the file is named after, which cannot name another.
THEOREM SizeCorrect == Spec => []OversizeOnlyWithinItsSecond
<1>1. IInv => OversizeOnlyWithinItsSecond
  BY DEF IInv, SizeInv, OversizeOnlyWithinItsSecond
<1> QED
  BY Invariance, <1>1, PTL

\* The check of the day, once in checkEveryN_ lines, leaves fewer than so many lines
\* in the file of another day.
THEOREM StrayCorrect == Spec => []StrayLinesBounded
<1>1. IInv => StrayLinesBounded
  BY DEF IInv, StrayInv, Stray, Came, StrayLinesBounded
<1> QED
  BY Invariance, <1>1, PTL

\* append() by itself flushes what is older than flushInterval_, but for the lines
\* since the last check.
THEOREM FlushedCorrect == Spec => []FlushedInTime
<1>1. IInv => FlushedInTime
  <2> SUFFICES ASSUME IInv, ~setBack,
                      NEW i \in file_.flushed + 1 .. Len(file_.lines),
                      NEW j \in file_.flushed + 1 .. Len(file_.lines),
                      file_.lines[j].line <= Len(log) - CheckEveryN + 1
               PROVE  Came(j) - Came(i) <= FlushInterval
    BY DEF FlushedInTime, Came
  <2>1. /\ count_ \in 0 .. CheckEveryN - 1 /\ CheckEveryN \in Nat /\ Len(log) \in Nat
        /\ file_.flushed \in Nat /\ file_.lines \in Seq(Piece)
    BY LogFileAssumption DEF IInv, FileType, File
  <2>2. j \in DOMAIN file_.lines
    BY <2>1
  <2>3. file_.lines[j].line \in Nat
    BY <2>1, <2>2 DEF IInv, FileType
  <2>4. file_.lines[j].line <= Len(log) - count_
    BY <2>1, <2>3
  <2> QED
    BY <2>4 DEF IInv, FlushInv
<1> QED
  BY Invariance, <1>1, PTL

-----------------------------------------------------------------------------
(***************************************************************************)
(* The refinement: whatever the clock does and whenever files are rolled,  *)
(* a LogFile is a LogSink.                                                 *)
(***************************************************************************)
\* The text of one file more is that of the others and its own.
LEMMA LinesOf ==
  /\ Lines(<<>>) = <<>>
  /\ \A fs \in Seq(File) : Lines(fs) \in Seq(Piece)
  /\ \A fs \in Seq(File), f \in File : Lines(Append(fs, f)) = Lines(fs) \o f.lines
<1> DEFINE Texts(fs) == [i \in DOMAIN fs |-> fs[i].lines]
<1>1. Lines(<<>>) = <<>>
  <2>1. Texts(<<>>) = <<>>
    OBVIOUS
  <2> HIDE DEF Texts
  <2>2. FlattenSeq(Texts(<<>>)) = <<>>
    BY <2>1, FlattenEmpty
  <2> QED
    BY <2>2 DEF Lines, Texts
<1>2. \A f \in File : f.lines \in Seq(Piece)
  BY DEF File
<1>3. \A fs \in Seq(File) : Texts(fs) \in Seq(Seq(Piece))
  <2> SUFFICES ASSUME NEW fs \in Seq(File) PROVE Texts(fs) \in Seq(Seq(Piece))
    BY Zenon
  <2>1. \A i \in DOMAIN fs : fs[i].lines \in Seq(Piece)
    BY <1>2
  <2>2. Len(fs) \in Nat /\ DOMAIN fs = 1 .. Len(fs)
    OBVIOUS
  <2> QED
    BY <2>1, <2>2
<1>4. \A fs \in Seq(File), f \in File : Texts(Append(fs, f)) = Append(Texts(fs), f.lines)
  <2> SUFFICES ASSUME NEW fs \in Seq(File), NEW f \in File
               PROVE  Texts(Append(fs, f)) = Append(Texts(fs), f.lines)
    BY Zenon
  <2> DEFINE n == Len(fs)
             a == Texts(Append(fs, f))
             b == Append(Texts(fs), f.lines)
  <2>1. n \in Nat /\ DOMAIN fs = 1 .. n /\ Texts(fs) \in Seq(Seq(Piece)) /\ f.lines \in Seq(Piece)
    BY <1>2, <1>3
  <2>2. a \in Seq(Seq(Piece)) /\ b \in Seq(Seq(Piece))
    BY <1>3, <2>1
  <2>3. Len(Texts(fs)) = n /\ DOMAIN Append(fs, f) = 1 .. n + 1
    BY <2>1
  <2>4. \A i \in 1 .. n + 1 : a[i] = IF i = n + 1 THEN f.lines ELSE fs[i].lines
    BY <2>1, <2>3
  <2>5. \A i \in 1 .. n + 1 : b[i] = IF i = n + 1 THEN f.lines ELSE fs[i].lines
    BY <2>1, <2>3
  <2>6. DOMAIN a = 1 .. n + 1 /\ DOMAIN b = 1 .. n + 1
    BY <2>1, <2>3
  <2> HIDE DEF a, b, n
  <2>7. a = [i \in 1 .. n + 1 |-> a[i]] /\ b = [i \in 1 .. n + 1 |-> b[i]]
    BY <2>2, <2>6
  <2>8. a = b
    BY <2>4, <2>5, <2>7
  <2> QED
    BY <2>8 DEF a, b
<1> HIDE DEF Texts
<1>5. \A fs \in Seq(File) : Lines(fs) = FlattenSeq(Texts(fs))
  BY DEF Lines, Texts
<1>6. \A fs \in Seq(File) : Lines(fs) \in Seq(Piece)
  BY <1>3, <1>5, FlattenType
<1>7. ASSUME NEW fs \in Seq(File), NEW f \in File
      PROVE  Lines(Append(fs, f)) = Lines(fs) \o f.lines
  <2>1. Append(fs, f) \in Seq(File) /\ Texts(fs) \in Seq(Seq(Piece)) /\ f.lines \in Seq(Piece)
    BY <1>2, <1>3
  <2>2. FlattenSeq(Append(Texts(fs), f.lines)) = FlattenSeq(Texts(fs)) \o f.lines
    BY <2>1, FlattenAppend
  <2> QED
    BY <1>4, <1>5, <2>1, <2>2
<1> QED
  BY <1>1, <1>6, <1>7

\* Whether a write to one of these files has failed.
SomeError(fs) == \E i \in DOMAIN fs : fs[i].error

LEMMA ErrorOf ==
  ASSUME NEW fs \in Seq(File), NEW f \in File
  PROVE  SomeError(Append(fs, f)) <=> SomeError(fs) \/ f.error
<1>1. /\ Len(fs) \in Nat /\ DOMAIN fs = 1 .. Len(fs)
      /\ DOMAIN Append(fs, f) = 1 .. Len(fs) + 1
      /\ Append(fs, f)[Len(fs) + 1] = f
      /\ \A i \in DOMAIN fs : Append(fs, f)[i] = fs[i]
  OBVIOUS
<1>2. DOMAIN Append(fs, f) = DOMAIN fs \union {Len(fs) + 1}
  BY <1>1
<1> QED
  BY <1>1, <1>2, Zenon DEF SomeError

LEMMA SubSeqConcat ==
  ASSUME NEW S, NEW s \in Seq(S), NEW t \in Seq(S), NEW k \in Nat, k <= Len(t)
  PROVE  SubSeq(s \o t, 1, Len(s) + k) = s \o SubSeq(t, 1, k)
<1> DEFINE n == Len(s) + k
           a == SubSeq(s \o t, 1, n)
           u == SubSeq(t, 1, k)
           b == s \o u
<1>1. Len(s) \in Nat /\ Len(t) \in Nat /\ n \in Nat /\ n <= Len(s) + Len(t)
  OBVIOUS
<1>2. /\ s \o t \in Seq(S) /\ Len(s \o t) = Len(s) + Len(t)
      /\ \A i \in 1 .. Len(s) + Len(t) : (s \o t)[i] = IF i <= Len(s) THEN s[i] ELSE t[i - Len(s)]
  BY ConcatProperties
<1>3. u \in Seq(S) /\ Len(u) = k /\ \A i \in 1 .. k : u[i] = t[i]
  BY SubSeqProperties
<1>4. a \in Seq(S) /\ Len(a) = n /\ \A i \in 1 .. n : a[i] = (s \o t)[i]
  <2> DEFINE c == s \o t
  <2>1. c \in Seq(S) /\ Len(c) = Len(s) + Len(t)
    BY <1>2
  <2> HIDE DEF c, n
  <2> QED
    BY <1>1, <2>1, SubSeqProperties DEF c
<1>5. b \in Seq(S) /\ Len(b) = n /\ \A i \in 1 .. n : b[i] = IF i <= Len(s) THEN s[i] ELSE u[i - Len(s)]
  <2> HIDE DEF u
  <2> QED
    BY <1>3, ConcatProperties
<1>6. \A i \in 1 .. n : a[i] = b[i]
  <2> SUFFICES ASSUME NEW i \in 1 .. n PROVE a[i] = b[i]
    OBVIOUS
  <2>1. i \in 1 .. Len(s) + Len(t)
    BY <1>1
  <2>2. a[i] = IF i <= Len(s) THEN s[i] ELSE t[i - Len(s)]
    BY <1>2, <1>4, <2>1
  <2>3. b[i] = IF i <= Len(s) THEN s[i] ELSE u[i - Len(s)]
    BY <1>5
  <2>4. ~(i <= Len(s)) => u[i - Len(s)] = t[i - Len(s)]
    BY <1>1, <1>3
  <2> HIDE DEF a, b, u
  <2> QED
    BY <2>2, <2>3, <2>4
<1> HIDE DEF a, b, n
<1>7. a = [i \in 1 .. n |-> a[i]] /\ b = [i \in 1 .. n |-> b[i]]
  BY <1>1, <1>4, <1>5
<1>8. a = b
  BY <1>6, <1>7
<1> QED
  BY <1>8 DEF a, b, n

\* What an error leaves of the last file is what it leaves of the whole text.
LEMMA CutsConcat ==
  ASSUME NEW s \in Seq(Piece), NEW t \in Seq(Piece), NEW n \in Nat, n <= Len(t), NEW c \in Cuts(t, n)
  PROVE  s \o c \in Sink!Cuts(s \o t, Len(s) + n)
<1> DEFINE w == s \o t
<1>1. PICK k \in n .. Len(t) - 1 :
        c = SubSeq(t, 1, k) \/ c = Append(SubSeq(t, 1, k), Torn(t[k + 1]))
  BY DEF Cuts
<1>2. /\ Len(t) \in Nat /\ Len(s) \in Nat /\ k \in Nat /\ k <= Len(t) /\ k + 1 \in 1 .. Len(t)
      /\ t[k + 1] \in Piece
  BY <1>1
<1>3. SubSeq(w, 1, Len(s) + k) = s \o SubSeq(t, 1, k)
  BY <1>2, SubSeqConcat
<1>4. w[Len(s) + k + 1] = t[k + 1] /\ Len(w) = Len(s) + Len(t)
  <2>1. /\ Len(w) = Len(s) + Len(t)
        /\ \A i \in 1 .. Len(s) + Len(t) : w[i] = IF i <= Len(s) THEN s[i] ELSE t[i - Len(s)]
    BY ConcatProperties
  <2>2. /\ Len(s) + k + 1 \in 1 .. Len(s) + Len(t) /\ ~(Len(s) + k + 1 <= Len(s))
        /\ Len(s) + k + 1 - Len(s) = k + 1
    BY <1>2
  <2> HIDE DEF w
  <2> QED
    BY <2>1, <2>2
<1> DEFINE x == Torn(t[k + 1])
           u == SubSeq(t, 1, k)
<1>5. x \in Piece /\ u \in Seq(Piece)
  <2>1. \A p \in Piece : Torn(p) \in Piece
    BY DEF Torn, Piece
  <2>2. u \in Seq(Piece)
    BY <1>2, SubSeqProperties
  <2> QED
    BY <1>2, <2>1, <2>2
<1>6. s \o Append(u, x) = Append(s \o u, x)
  <2>1. \A p \in Seq(Piece), q \in Piece : s \o Append(p, q) = Append(s \o p, q)
    BY ConcatAppend
  <2> HIDE DEF x, u
  <2> QED
    BY <1>5, <2>1
<1>7. s \o c \in {SubSeq(w, 1, Len(s) + k), Append(SubSeq(w, 1, Len(s) + k), Sink!Torn(w[Len(s) + k + 1]))}
  <2>1. Sink!Torn(w[Len(s) + k + 1]) = x
    BY <1>4 DEF Torn, Sink!Torn
  <2> HIDE DEF x, u, w
  <2>2. CASE c = u
    BY <1>3, <2>2 DEF u
  <2>3. CASE c = Append(u, x)
    BY <1>3, <1>6, <2>1, <2>3 DEF u
  <2> QED
    BY <1>1, <2>2, <2>3 DEF u, x
<1>8. Len(s) + k \in Len(s) + n .. Len(w) - 1
  BY <1>1, <1>2, <1>4
<1> HIDE DEF w
<1> QED
  BY <1>7, <1>8 DEF Sink!Cuts, w

LEMMA SinkStarts == Init => Sink!SinkInit
<1> SUFFICES ASSUME Init PROVE Sink!SinkInit
  OBVIOUS
<1>1. /\ closedFiles = <<>> /\ Lines(closedFiles) = <<>> /\ log = <<>> /\ open = TRUE
      /\ now \in Nat /\ file_ = NewFile(now)
  BY LinesOf, LogFileAssumption DEF Init
<1>2. file_ \in File /\ file_.lines = <<>> /\ file_.flushed = 0 /\ file_.error = FALSE
  BY <1>1, NewFileOf
<1>3. Lines(Files) = <<>>
  <2>1. closedFiles \in Seq(File)
    BY <1>1
  <2>2. Lines(Files) = Lines(closedFiles) \o file_.lines
    BY <1>2, <2>1, LinesOf DEF Files
  <2> QED
    BY <1>1, <1>2, <2>2
<1>4. ~SomeError(Files)
  <2>1. closedFiles \in Seq(File) /\ ~SomeError(closedFiles)
    BY <1>1 DEF SomeError
  <2> QED
    BY <1>2, <2>1, ErrorOf DEF Files
<1>5. (\E i \in DOMAIN Files : Files[i].error) = FALSE
  BY <1>4, Zenon DEF SomeError
<1> QED
  BY <1>1, <1>2, <1>3, <1>5 DEF Sink!SinkInit

\* What a write leaves in the current file that was to hold this text.
Left(text, f) ==
  \/ f.lines = text /\ f.error = file_.error
  \/ WriteCanFail /\ f.error = TRUE /\ f.lines \in Cuts(text, file_.flushed)

LEMMA FlushedLeft ==
  ASSUME NEW f \in File, f.flushed <= Len(f.lines), NEW g \in Flushed(f)
  PROVE  \/ g.lines = f.lines /\ g.error = f.error
         \/ WriteCanFail /\ g.error = TRUE /\ g.lines \in Cuts(f.lines, f.flushed)
<1>1. CASE g = [f EXCEPT !.flushed = Len(f.lines)]
  BY <1>1 DEF File
<1>2. CASE g \in Failed(f)
  <2>1. PICK c \in Cuts(f.lines, f.flushed) :
          g = [f EXCEPT !.lines = c, !.flushed = Len(c), !.error = TRUE]
    BY <1>2, Zenon DEF Failed
  <2>2. WriteCanFail
    BY <1>2, Zenon DEF Failed
  <2> QED
    BY <2>1, <2>2 DEF File
<1> QED
  BY <1>1, <1>2 DEF Flushed

\* After a write that failed there is nothing in the buffer for another to fail with.
LEMMA WritesLeft ==
  ASSUME FileType, NEW len \in Nat, NEW f \in Writes(len), NEW g, g = f \/ g \in Flushed(f)
  PROVE  Left(Append(file_.lines, Whole(Len(log) + 1)), g)
<1> DEFINE h    == WithLine(len)
           text == Append(file_.lines, Whole(Len(log) + 1))
<1>1. /\ Grown(h) /\ h \in File /\ h.flushed <= Len(h.lines)
      /\ h.lines = text /\ h.flushed = file_.flushed /\ h.error = file_.error
  BY WithLineOf DEF Grown
<1> HIDE DEF h, text
<1>2. CASE f = h
  <2>1. CASE g = f
    BY <1>1, <1>2, <2>1 DEF Left, text
  <2>2. CASE g \in Flushed(h)
    <3>1. \/ g.lines = h.lines /\ g.error = h.error
          \/ WriteCanFail /\ g.error = TRUE /\ g.lines \in Cuts(h.lines, h.flushed)
      BY <1>1, <2>2, FlushedLeft
    <3> QED
      BY <1>1, <3>1 DEF Left, text
  <2> QED
    BY <1>2, <2>1, <2>2 DEF text
<1>3. CASE f \in Failed(h)
  <2>1. PICK c \in Cuts(h.lines, h.flushed) :
          f = [h EXCEPT !.lines = c, !.flushed = Len(c), !.error = TRUE]
    BY <1>3, Zenon DEF Failed
  <2>2. WriteCanFail
    BY <1>3, Zenon DEF Failed
  <2>3. f.lines = c /\ f.flushed = Len(c) /\ f.error = TRUE
    BY <1>1, <2>1 DEF File
  <2>4. f \in File /\ f.flushed = Len(f.lines) /\ Len(f.lines) \in Nat
    <3>1. f \in Flushed(h)
      BY <1>3 DEF Flushed
    <3>2. Grown(f) /\ f.flushed = Len(f.lines)
      BY <1>1, <3>1, FlushedGrown
    <3> QED
      BY <3>2 DEF Grown, File
  <2>5. Cuts(f.lines, f.flushed) = {}
    BY <2>4 DEF Cuts
  <2>6. g.lines = f.lines /\ g.error = f.error
    <3>1. CASE g \in Flushed(f)
      <4>1. f.flushed <= Len(f.lines)
        BY <2>4
      <4> QED
        BY <2>4, <2>5, <3>1, <4>1, FlushedLeft
    <3> QED
      BY <3>1
  <2> QED
    BY <1>1, <2>1, <2>2, <2>3, <2>6 DEF Left, text
<1> QED
  BY <1>2, <1>3 DEF Writes, h, text

\* The sink's view of what a step makes of the text of the current file.
LEMMA LeftBecomes ==
  ASSUME FileType, NEW text \in Seq(Piece), file_.flushed <= Len(text),
         NEW g \in File, Left(text, g),
         Lines(Files)' = Lines(closedFiles) \o g.lines,
         SomeError(Files)' <=> SomeError(closedFiles) \/ g.error
  PROVE  Sink!Becomes(Lines(closedFiles) \o text)
<1>1. closedFiles \in Seq(File) /\ file_ \in File /\ file_.flushed \in Nat
  BY DEF FileType, File
<1>2. Lines(closedFiles) \in Seq(Piece)
  BY <1>1, LinesOf
<1>3. SomeError(Files) <=> SomeError(closedFiles) \/ file_.error
  BY <1>1, ErrorOf DEF Files
<1>4. CASE g.lines = text /\ g.error = file_.error
  <2>1. SomeError(Files)' <=> SomeError(Files)
    BY <1>3, <1>4
  <2>2. (\E i \in DOMAIN Files : Files[i].error)' = (\E i \in DOMAIN Files : Files[i].error)
    BY <2>1, Zenon DEF SomeError
  <2> QED
    BY <1>4, <2>2 DEF Sink!Becomes
<1>5. CASE WriteCanFail /\ g.error = TRUE /\ g.lines \in Cuts(text, file_.flushed)
  <2>1. Lines(closedFiles) \o g.lines
          \in Sink!Cuts(Lines(closedFiles) \o text, Len(Lines(closedFiles)) + file_.flushed)
    BY <1>1, <1>2, <1>5, CutsConcat
  <2>2. SomeError(Files)'
    BY <1>5
  <2>3. (\E i \in DOMAIN Files : Files[i].error)' = TRUE
    BY <2>2, Zenon DEF SomeError
  <2> QED
    BY <1>5, <2>1, <2>3 DEF Sink!Becomes
<1> QED
  BY <1>4, <1>5 DEF Left

\* append() gives the line to the text; a roll makes all of the text durable.
LEMMA AppendGives ==
  ASSUME IInv, IInv', AppendLine
  PROVE  Sink!Give
<1> DEFINE old  == Lines(closedFiles)
           line == Len(log) + 1
           text == Append(file_.lines, Whole(line))
<1>1. PICK len \in Nat : open /\ \E f \in Writes(len) : Appends(f)
  BY AppendCases DEF IInv
<1>2. PICK f \in Writes(len) : Appends(f)
  BY <1>1
<1>3. Grown(f)
  BY WritesGrown DEF IInv
<1>4. /\ FileType /\ closedFiles \in Seq(File) /\ file_ \in File /\ file_' \in File
      /\ closedFiles' \in Seq(File) /\ file_.flushed \in Nat /\ file_'.flushed \in Nat
      /\ file_.flushed <= Len(file_.lines) /\ file_'.flushed <= Len(file_'.lines)
  BY DEF IInv, FileType, File
<1>5. old \in Seq(Piece) /\ file_.lines \in Seq(Piece) /\ file_'.lines \in Seq(Piece)
  BY <1>4, LinesOf DEF File
<1>6. open' = open /\ line \in Nat /\ Len(log') = line
  <2>1. PICK t \in Nat : t = now'
    BY <1>2, LogFileAssumption DEF Appends, Logged
  <2>2. log' = Append(log, t) /\ log \in Seq(Nat)
    BY <1>2, <1>4, <2>1 DEF Appends, Logged, FileType
  <2> QED
    BY <1>2, <2>2 DEF Appends, Logged
<1>7. text \in Seq(Piece) /\ file_.flushed <= Len(text) /\ old \o text = Append(old \o file_.lines, Whole(line))
  <2>1. Whole(line) \in Piece
    BY <1>6 DEF Whole, Piece
  <2>2. text \in Seq(Piece) /\ Len(text) = Len(file_.lines) + 1 /\ Len(file_.lines) \in Nat
    BY <1>5, <2>1
  <2>3. old \o text = Append(old \o file_.lines, Whole(line))
    <3> HIDE DEF old, line
    <3> QED
      BY <1>5, <2>1, ConcatAppend
  <2>4. file_.flushed <= Len(text)
    <3> HIDE DEF text
    <3> QED
      BY <1>4, <2>2
  <2> QED
    BY <2>2, <2>3, <2>4
<1>8. \A g : g = f \/ g \in Flushed(f) => Left(text, g)
  BY <1>4, WritesLeft
<1>9. Lines(Files) = old \o file_.lines
  BY <1>4, LinesOf DEF Files
<1> HIDE DEF text, line, old
<1>10. \E g \in File :
         /\ Left(text, g) /\ file_.flushed <= Len(g.lines)
         /\ Lines(Files)' = old \o g.lines
         /\ (SomeError(Files)' <=> SomeError(closedFiles) \/ g.error)
         /\ Len(Lines(closedFiles)') + file_'.flushed \in Len(old) + file_.flushed .. Len(old \o g.lines)
  <2>1. CASE Rolled(f)
    <3>1. PICK g \in Flushed(f) : closedFiles' = Append(closedFiles, g)
      BY <2>1 DEF Rolled
    <3>2. Grown(g) /\ g \in File /\ g.flushed = Len(g.lines) /\ file_.flushed <= Len(g.lines)
      BY <1>3, <1>4, <3>1, FlushedGrown DEF Grown
    <3>3. file_'.lines = <<>> /\ file_'.flushed = 0 /\ file_'.error = FALSE
      BY <1>2, <1>4, <2>1, RolledFile DEF Appends
    <3>4. PICK cs, h : cs = closedFiles' /\ h = file_'
      OBVIOUS
    <3>5. Lines(cs) = old \o g.lines /\ (SomeError(cs) <=> SomeError(closedFiles) \/ g.error)
      BY <1>4, <3>1, <3>2, <3>4, LinesOf, ErrorOf DEF old
    <3>6. /\ Lines(Append(cs, h)) = Lines(cs) \o <<>>
          /\ (SomeError(Append(cs, h)) <=> SomeError(cs))
      <4>1. cs \in Seq(File) /\ h \in File /\ h.lines = <<>> /\ ~h.error
        BY <1>4, <3>3, <3>4
      <4> QED
        BY <4>1, LinesOf, ErrorOf
    <3>7. /\ old \o g.lines \in Seq(Piece) /\ Len(old \o g.lines) = Len(old) + Len(g.lines)
          /\ Len(old) \in Nat /\ Len(g.lines) \in Nat
      <4>1. g.lines \in Seq(Piece)
        BY <3>2 DEF File
      <4> QED
        BY <1>5, <4>1, ConcatProperties
    <3>8. Lines(cs) \o <<>> = old \o g.lines
      BY <3>5, <3>7
    <3>9. Files' = Append(cs, h)
      BY <3>4 DEF Files
    <3>10. Lines(Files)' = Lines(Append(cs, h)) /\ SomeError(Files)' = SomeError(Append(cs, h))
           /\ Lines(closedFiles)' = Lines(cs)
      BY <3>4, <3>9 DEF Lines, SomeError
    <3>11. Len(Lines(cs)) + 0 \in Len(old) + file_.flushed .. Len(old \o g.lines)
      BY <1>4, <3>2, <3>5, <3>7
    <3> QED
      BY <1>8, <3>1, <3>2, <3>3, <3>5, <3>6, <3>8, <3>10, <3>11
  <2>2. CASE ~Rolled(f)
    <3>1. PICK g : g = file_'
      OBVIOUS
    <3>2. Grown(g) /\ closedFiles' = closedFiles
      BY <1>2, <1>3, <1>4, <2>2, <3>1, AppendKeeps
    <3>3. g = f \/ g \in Flushed(f)
      BY <1>2, <2>2, <3>1 DEF Appends, FlushedNow, KeptForName, Unchecked, Checked, KeepFile
    <3>4. Files' = Append(closedFiles, g)
      BY <3>1, <3>2 DEF Files
    <3>5. /\ Lines(Files)' = Lines(Append(closedFiles, g))
          /\ SomeError(Files)' = SomeError(Append(closedFiles, g))
          /\ Lines(closedFiles)' = old
      BY <3>2, <3>4 DEF Lines, SomeError, old
    <3>6. g \in File /\ g.lines \in Seq(Piece) /\ file_.flushed <= g.flushed /\ g.flushed <= Len(g.lines)
          /\ g.flushed \in Nat
      BY <3>2 DEF Grown, File
    <3>7. /\ Lines(Append(closedFiles, g)) = old \o g.lines
          /\ (SomeError(Append(closedFiles, g)) <=> SomeError(closedFiles) \/ g.error)
      BY <1>4, <3>6, LinesOf, ErrorOf DEF old
    <3>8. Len(old \o g.lines) = Len(old) + Len(g.lines) /\ Len(old) \in Nat /\ Len(g.lines) \in Nat
      BY <1>5, <3>6, ConcatProperties
    <3>9. file_.flushed \in Nat
      BY <1>4 DEF File
    <3>10. /\ Len(old) + g.flushed \in Len(old) + file_.flushed .. Len(old \o g.lines)
           /\ file_.flushed <= Len(g.lines)
      <4>1. \A m, i, j, k \in Nat : i <= j /\ j <= k => m + j \in m + i .. m + k /\ i <= k
        OBVIOUS
      <4> QED
        BY <3>6, <3>8, <3>9, <4>1
    <3> QED
      BY <1>8, <3>1, <3>3, <3>5, <3>6, <3>7, <3>10
  <2> QED
    BY <2>1, <2>2
<1>11. PICK g \in File :
         /\ Left(text, g) /\ file_.flushed <= Len(g.lines)
         /\ Lines(Files)' = old \o g.lines
         /\ (SomeError(Files)' <=> SomeError(closedFiles) \/ g.error)
         /\ Len(Lines(closedFiles)') + file_'.flushed \in Len(old) + file_.flushed .. Len(old \o g.lines)
  BY <1>10
<1>12. Sink!Becomes(old \o text)
  BY <1>4, <1>7, <1>11, LeftBecomes DEF old
<1>13. Sink!Becomes(Append(Lines(Files), Sink!Whole(Len(log'))))
  <2>1. Sink!Whole(Len(log')) = Whole(line)
    BY <1>6 DEF Whole, Sink!Whole
  <2>2. Append(Lines(Files), Sink!Whole(Len(log'))) = old \o text
    BY <1>7, <1>9, <2>1
  <2> QED
    BY <1>12, <2>2 DEF Sink!Becomes
<1>14. Len(Lines(closedFiles)') + file_'.flushed
         \in Len(Lines(closedFiles)) + file_.flushed .. Len(Lines(Files)')
  BY <1>11 DEF old
<1> QED
  BY <1>1, <1>6, <1>13, <1>14 DEF Sink!Give, line

\* flush() and the destructor leave nothing in the buffer.
LEMMA FlushHardens ==
  ASSUME FileType, NEW g \in Flushed(file_), file_' = g, closedFiles' = closedFiles
  PROVE  /\ Sink!Becomes(Lines(Files))
         /\ Len(Lines(closedFiles)') + file_'.flushed = Len(Lines(Files)')
<1>1. /\ closedFiles \in Seq(File) /\ file_ \in File /\ file_.flushed <= Len(file_.lines)
  BY DEF FileType
<1>2. g \in File /\ g.flushed = Len(g.lines)
  BY <1>1, FlushedOf
<1>3. Files' = Append(closedFiles, g)
  BY DEF Files
<1>4. /\ Lines(Files)' = Lines(closedFiles) \o g.lines
      /\ (SomeError(Files)' <=> SomeError(closedFiles) \/ g.error)
  <2>1. /\ Lines(Files)' = Lines(Append(closedFiles, g))
        /\ SomeError(Files)' = SomeError(Append(closedFiles, g))
    BY <1>3 DEF Lines, SomeError
  <2> QED
    BY <1>1, <1>2, <2>1, LinesOf, ErrorOf
<1>5. Left(file_.lines, g)
  BY <1>1, FlushedLeft DEF Left
<1>6. file_.lines \in Seq(Piece) /\ g.lines \in Seq(Piece) /\ Lines(closedFiles) \in Seq(Piece)
  BY <1>1, <1>2, LinesOf DEF File
<1>7. PICK text \in Seq(Piece) : text = file_.lines
  BY <1>6
<1>8. Lines(Files) = Lines(closedFiles) \o text
  BY <1>1, <1>7, LinesOf DEF Files
<1>9. Sink!Becomes(Lines(closedFiles) \o text)
  <2>1. Left(text, g) /\ file_.flushed <= Len(text)
    BY <1>1, <1>5, <1>7
  <2> QED
    BY <1>2, <1>4, <2>1, LeftBecomes
<1>10. Sink!Becomes(Lines(Files))
  BY <1>8, <1>9 DEF Sink!Becomes
<1>11. Lines(closedFiles)' = Lines(closedFiles)
  BY DEF Lines
<1>12. Len(Lines(closedFiles) \o g.lines) = Len(Lines(closedFiles)) + Len(g.lines)
  BY <1>6, ConcatProperties
<1>13. Len(Lines(closedFiles)') + file_'.flushed = Len(Lines(Files)')
  BY <1>2, <1>4, <1>11, <1>12
<1> QED
  BY <1>10, <1>13

LEMMA SinkSteps ==
  ASSUME IInv, IInv', [Next]_vars
  PROVE  [Sink!SinkNext]_(Sink!sinkVars)
<1>1. CASE AppendLine
  BY <1>1, AppendGives DEF Sink!SinkNext
<1>2. CASE Tick \/ UNCHANGED vars
  <2>1. UNCHANGED <<file_, closedFiles, open, log>>
    BY <1>2 DEF Tick, vars
  <2> QED
    BY <2>1 DEF Sink!sinkVars, Files
<1>3. CASE Flush \/ Destroy
  <2>1. PICK g \in Flushed(file_) : file_' = g
    BY <1>3 DEF Flush, Destroy
  <2>2. closedFiles' = closedFiles /\ log' = log /\ open
    BY <1>3 DEF Flush, Destroy
  <2>3. /\ Sink!Becomes(Lines(Files))
        /\ Len(Lines(closedFiles)') + file_'.flushed = Len(Lines(Files)')
    BY <2>1, <2>2, FlushHardens DEF IInv
  <2>4. CASE Flush
    BY <2>2, <2>3, <2>4 DEF Flush, Sink!SinkNext, Sink!FlushAll
  <2>5. CASE Destroy
    BY <2>2, <2>3, <2>5 DEF Destroy, Sink!SinkNext, Sink!CloseSink
  <2> QED
    BY <1>3, <2>4, <2>5
<1> QED
  BY <1>1, <1>2, <1>3 DEF Next, Terminated

\* No roll loses, repeats or misplaces a line, and none takes back what was flushed; a
\* write that fails takes from the text only what was still in the buffer.
THEOREM SinkImplemented == Spec => ImplementsSink
<1>1. Init => Sink!SinkInit
  BY SinkStarts
<1>2. IInv /\ IInv' /\ [Next]_vars => [Sink!SinkNext]_(Sink!sinkVars)
  BY SinkSteps
<1> QED
  BY Invariance, <1>1, <1>2, PTL DEF Spec, ImplementsSink, Sink!SinkSpec

=============================================================================
