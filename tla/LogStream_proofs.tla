--------------------------- MODULE LogStream_proofs ---------------------------
(***************************************************************************)
(* The buffer of a log line holds what was appended to it, and the integer *)
(* appended last reads back, for every size, text and integer.             *)
(*                                                                         *)
(* What the loop of convert() returns is proved by induction on the size   *)
(* of the integer that it has come to.                                     *)
(***************************************************************************)
EXTENDS LogStream, SequenceTheorems, WellFoundedInduction, TLAPS

-----------------------------------------------------------------------------
(***************************************************************************)
(* Numbers and sequences.                                                  *)
(***************************************************************************)
\* Induction over the natural numbers, for a set of them.
LEMMA SetInduction ==
  ASSUME NEW T, 0 \in T, \A n \in Nat : n \in T => n + 1 \in T
  PROVE  Nat \subseteq T
<1> DEFINE out == Nat \ T
<1> SUFFICES ASSUME out # {} PROVE FALSE
  OBVIOUS
<1>1. \E x \in out : \A y \in out : ~ (<<y, x>> \in OpToRel(<, Nat))
  <2>1. out \subseteq Nat /\ IsWellFoundedOn(OpToRel(<, Nat), Nat)
    BY NatLessThanWellFounded
  <2> HIDE DEF out
  <2> QED
    BY <2>1, WFMin
<1>2. PICK x \in out : \A y \in out : ~ (<<y, x>> \in OpToRel(<, Nat))
  BY <1>1
<1>3. \A y \in out : ~ (y < x)
  BY <1>2 DEF OpToRel
<1>4. x \in Nat /\ x # 0
  OBVIOUS
<1>5. x - 1 \in Nat /\ x - 1 < x /\ (x - 1) + 1 = x
  BY <1>4
<1>6. x - 1 \in T
  BY <1>3, <1>5
<1> QED
  BY <1>5, <1>6

\* Sequences of one length with the same elements are equal.
LEMMA SameSequence ==
  ASSUME NEW S, NEW a \in Seq(S), NEW b \in Seq(S), Len(a) = Len(b),
         \A i \in 1 .. Len(a) : a[i] = b[i]
  PROVE  a = b
<1>1. a = [i \in 1 .. Len(a) |-> a[i]] /\ b = [i \in 1 .. Len(a) |-> b[i]]
  OBVIOUS
<1> QED
  BY <1>1

LEMMA ReverseProperties ==
  ASSUME NEW S, NEW s \in Seq(S)
  PROVE  /\ Reverse(s) \in Seq(S)
         /\ Len(Reverse(s)) = Len(s)
         /\ \A i \in 1 .. Len(s) : Reverse(s)[i] = s[Len(s) - i + 1]
<1>1. Len(s) \in Nat /\ \A i \in 1 .. Len(s) : s[Len(s) - i + 1] \in S
  OBVIOUS
<1> QED
  BY <1>1 DEF Reverse

\* What was put down first comes last.
LEMMA ReverseFirst ==
  ASSUME NEW S, NEW x \in S, NEW s \in Seq(S)
  PROVE  Reverse(<<x>> \o s) = Append(Reverse(s), x)
<1> DEFINE n == Len(s)
           t == <<x>> \o s
           a == Reverse(t)
           r == Reverse(s)
           b == Append(r, x)
<1>1. n \in Nat /\ t \in Seq(S) /\ Len(t) = n + 1
  OBVIOUS
<1>2. \A i \in 1 .. n + 1 : t[i] = IF i = 1 THEN x ELSE s[i - 1]
  OBVIOUS
<1>3. r \in Seq(S) /\ Len(r) = n /\ \A i \in 1 .. n : r[i] = s[n - i + 1]
  BY ReverseProperties
<1> HIDE DEF t
<1>4. a \in Seq(S) /\ Len(a) = Len(t) /\ \A i \in 1 .. Len(t) : a[i] = t[Len(t) - i + 1]
  BY <1>1, ReverseProperties
<1> HIDE DEF a, r, n
<1>5. b \in Seq(S) /\ Len(b) = n + 1
  BY <1>1, <1>3
<1>6. \A i \in 1 .. n + 1 : b[i] = IF i = n + 1 THEN x ELSE r[i]
  BY <1>1, <1>3
<1> HIDE DEF b
<1>7. ASSUME NEW i \in 1 .. n + 1 PROVE a[i] = b[i]
  <2>1. a[i] = t[n + 1 - i + 1] /\ n + 1 - i + 1 \in 1 .. n + 1
    BY <1>1, <1>4
  <2>2. CASE i = n + 1
    BY <1>1, <1>2, <1>6, <2>1, <2>2
  <2>3. CASE i # n + 1
    <3>1. i \in 1 .. n /\ n + 1 - i + 1 # 1 /\ (n + 1 - i + 1) - 1 = n - i + 1
      BY <1>1, <2>3
    <3> QED
      BY <1>2, <1>3, <1>6, <2>1, <2>3, <3>1
  <2> QED
    BY <2>2, <2>3
<1> QED
  <2>1. a = b
    BY <1>1, <1>4, <1>5, <1>7, SameSequence
  <2> QED
    BY <2>1 DEF a, b, t, r

\* What was put down last comes first.
LEMMA ReverseLast ==
  ASSUME NEW S, NEW x \in S, NEW s \in Seq(S)
  PROVE  Reverse(s \o <<x>>) = <<x>> \o Reverse(s)
<1> DEFINE n == Len(s)
           t == s \o <<x>>
           a == Reverse(t)
           r == Reverse(s)
           b == <<x>> \o r
<1>1. n \in Nat /\ t \in Seq(S) /\ Len(t) = n + 1
  OBVIOUS
<1>2. \A i \in 1 .. n + 1 : t[i] = IF i = n + 1 THEN x ELSE s[i]
  OBVIOUS
<1>3. r \in Seq(S) /\ Len(r) = n /\ \A i \in 1 .. n : r[i] = s[n - i + 1]
  BY ReverseProperties
<1> HIDE DEF t
<1>4. a \in Seq(S) /\ Len(a) = Len(t) /\ \A i \in 1 .. Len(t) : a[i] = t[Len(t) - i + 1]
  BY <1>1, ReverseProperties
<1> HIDE DEF a, r, n
<1>5. b \in Seq(S) /\ Len(b) = n + 1
  BY <1>1, <1>3
<1>6. \A i \in 1 .. n + 1 : b[i] = IF i = 1 THEN x ELSE r[i - 1]
  BY <1>1, <1>3
<1> HIDE DEF b
<1>7. ASSUME NEW i \in 1 .. n + 1 PROVE a[i] = b[i]
  <2>1. a[i] = t[n + 1 - i + 1] /\ n + 1 - i + 1 \in 1 .. n + 1
    BY <1>1, <1>4
  <2>2. CASE i = 1
    BY <1>1, <1>2, <1>6, <2>1, <2>2
  <2>3. CASE i # 1
    <3>1. /\ i - 1 \in 1 .. n /\ n + 1 - i + 1 # n + 1
          /\ n + 1 - i + 1 = n - (i - 1) + 1
      BY <1>1, <2>3
    <3> QED
      BY <1>2, <1>3, <1>6, <2>1, <2>3, <3>1
  <2> QED
    BY <2>2, <2>3
<1> QED
  <2>1. a = b
    BY <1>1, <1>4, <1>5, <1>7, SameSequence
  <2> QED
    BY <2>1 DEF a, b, t, r

-----------------------------------------------------------------------------
(***************************************************************************)
(* The loops of convert() and convertHex().  In the loop for i, digit[i]   *)
(* is put down, and the loop for rest[i] comes next if that is not 0.      *)
(***************************************************************************)
PutDown(digit, rest, loop, i) ==
  <<digit[i]>> \o (IF rest[i] = 0 THEN <<>> ELSE loop[rest[i]])

Loops(D, digit, rest, loop) == loop = [i \in D |-> PutDown(digit, rest, loop, i)]

\* The size of what is left decreases.
Decreases(D, rest, size) ==
  \A i \in D : /\ size[i] \in Nat
               /\ rest[i] # 0 => rest[i] \in D /\ size[rest[i]] < size[i]

LEMMA LoopExists ==
  ASSUME NEW D, NEW digit, NEW rest, NEW size, Decreases(D, rest, size),
         NEW bound \in Nat, \A i \in D : size[i] < bound
  PROVE  \E loop : Loops(D, digit, rest, loop)
<1> DEFINE Small(k) == {i \in D : size[i] < k}
           T == {k \in Nat : \E f : Loops(Small(k), digit, rest, f)}
<1>1. 0 \in T
  <2> DEFINE f == [i \in Small(0) |-> PutDown(digit, rest, <<>>, i)]
  <2>1. Small(0) = {}
    BY DEF Decreases
  <2>2. f = [i \in Small(0) |-> PutDown(digit, rest, f, i)]
    BY <2>1
  <2> QED
    BY <2>2 DEF Loops
<1>2. ASSUME NEW k \in Nat, k \in T PROVE k + 1 \in T
  <2>1. PICK f : f = [i \in Small(k) |-> PutDown(digit, rest, f, i)]
    BY <1>2 DEF Loops
  <2> DEFINE g == [i \in Small(k + 1) |-> PutDown(digit, rest, f, i)]
             h == [i \in Small(k + 1) |-> PutDown(digit, rest, g, i)]
  <2>2. Small(k) \subseteq Small(k + 1)
    BY DEF Decreases
  <2>3. \A i \in Small(k) : f[i] = g[i]
    <3> HIDE DEF Small
    <3> QED
      BY <2>1, <2>2
  <2>4. \A i \in Small(k + 1) : rest[i] # 0 => rest[i] \in Small(k)
    BY DEF Decreases
  <2>5. \A i \in Small(k + 1) : PutDown(digit, rest, f, i) = PutDown(digit, rest, g, i)
    <3> HIDE DEF Small, g
    <3> QED
      BY <2>3, <2>4 DEF PutDown
  <2>6. g = h
    <3> HIDE DEF Small
    <3> QED
      BY <2>5
  <2>7. Loops(Small(k + 1), digit, rest, g)
    BY <2>6 DEF Loops
  <2> HIDE DEF Small, g
  <2> QED
    BY <2>7
<1>3. Nat \subseteq T
  <2> HIDE DEF T
  <2> QED
    BY <1>1, <1>2, SetInduction
<1>4. Small(bound) = D
  OBVIOUS
<1>5. bound \in T
  BY <1>3
<1> QED
  BY <1>4, <1>5

Size(i) == IF i < 0 THEN -i ELSE i

\* The integers that the loop of convert(value) may come to.
Between(value) == IF value < 0 THEN value .. 0 ELSE 0 .. value

\* / and % of C++ by 10: both parts have the sign of i, and i is what they make up.
LEMMA DivideByTen ==
  ASSUME NEW i \in Int
  PROVE  /\ Quotient(i, 10) \in Int /\ Remainder(i, 10) \in -9 .. 9
         /\ i = 10 * Quotient(i, 10) + Remainder(i, 10)
         /\ i >= 0 => Quotient(i, 10) \in 0 .. i /\ Remainder(i, 10) >= 0
         /\ i <= 0 => Quotient(i, 10) \in i .. 0 /\ Remainder(i, 10) <= 0
         /\ i # 0 => Size(Quotient(i, 10)) < Size(i)
<1> DEFINE q == i \div 10
           r == i % 10
<1>1. q \in Int /\ r \in 0 .. 9 /\ i = 10 * q + r
  BY SMT
<1> HIDE DEF q, r
<1>2. Quotient(i, 10) = IF i < 0 /\ r # 0 THEN q + 1 ELSE q
  BY DEF Quotient, q, r
<1>3. Remainder(i, 10) = IF i < 0 /\ r # 0 THEN r - 10 ELSE r
  BY DEF Remainder, r
<1> QED
  BY <1>1, <1>2, <1>3, SMT DEF Size

\* The loop of convert(value), for every integer that it may come to.
Converts(value, loop) ==
  \A i \in Between(value) :
    loop[i] = <<Digits[10 + Remainder(i, 10)]>>
              \o (IF Quotient(i, 10) = 0 THEN <<>> ELSE loop[Quotient(i, 10)])

LEMMA LastToFirstLoop ==
  ASSUME NEW value \in Int
  PROVE  \E loop : LastToFirst(value) = loop[value] /\ Converts(value, loop)
<1> DEFINE D == Between(value)
           digit == [i \in D |-> Digits[10 + Remainder(i, 10)]]
           rest == [i \in D |-> Quotient(i, 10)]
           size == [i \in D |-> Size(i)]
           Body(loop, i) == <<Digits[10 + Remainder(i, 10)]>>
                            \o (IF Quotient(i, 10) = 0 THEN <<>> ELSE loop[Quotient(i, 10)])
           IsLoop(loop) == loop = [i \in D |-> Body(loop, i)]
           theLoop == CHOOSE loop : IsLoop(loop)
<1>1. D \subseteq Int /\ \A i \in D : Size(i) \in Nat /\ Size(i) < Size(value) + 1
  BY DEF Between, Size
<1>2. \A i \in D : Quotient(i, 10) # 0 => Quotient(i, 10) \in D /\ Size(Quotient(i, 10)) < Size(i)
  <2> SUFFICES ASSUME NEW i \in D, Quotient(i, 10) # 0
               PROVE  Quotient(i, 10) \in D /\ Size(Quotient(i, 10)) < Size(i)
    OBVIOUS
  <2>1. i \in Int
    BY <1>1
  <2>2. i # 0
    BY <2>1, DivideByTen
  <2>3. Quotient(i, 10) \in D
    BY <2>1, DivideByTen DEF Between
  <2> QED
    BY <2>1, <2>2, <2>3, DivideByTen
<1>3. Decreases(D, rest, size)
  <2> HIDE DEF D
  <2> QED
    BY <1>1, <1>2 DEF Decreases
<1>4. Size(value) + 1 \in Nat /\ \A i \in D : size[i] < Size(value) + 1
  <2>1. Size(value) + 1 \in Nat
    BY DEF Size
  <2> HIDE DEF D
  <2> QED
    BY <1>1, <2>1
<1>5. PICK f : Loops(D, digit, rest, f)
  <2> HIDE DEF D, digit, rest, size
  <2> QED
    BY <1>3, <1>4, LoopExists
<1>6. \A i \in D : PutDown(digit, rest, f, i) = Body(f, i)
  <2> HIDE DEF D
  <2> QED
    BY DEF PutDown
<1>7. IsLoop(f)
  <2>1. f = [i \in D |-> PutDown(digit, rest, f, i)]
    BY <1>5 DEF Loops
  <2> HIDE DEF D, Body, digit, rest
  <2> QED
    BY <1>6, <2>1
<1>8. IsLoop(theLoop)
  <2> HIDE DEF IsLoop
  <2> QED
    BY <1>7
<1>9. LastToFirst(value) = theLoop[value]
  BY DEF LastToFirst, Between
<1>10. Converts(value, theLoop)
  <2> HIDE DEF theLoop
  <2> QED
    BY <1>8 DEF Converts
<1> QED
  BY <1>9, <1>10

-----------------------------------------------------------------------------
(***************************************************************************)
(* Digits and what they stand for.                                         *)
(***************************************************************************)
\* What texts and numbers are made of.  The provers do not know that a literal is in
\* STRING.
Character ==
  STRING \cup {"0", "1", "2", "3", "4", "5", "6", "7", "8", "9",
               "A", "B", "C", "D", "E", "F", "-", "x", "?", NUL, Stale}

LEMMA HexDigitsDiffer ==
  \A m, n \in 0 .. 9 : HexDigits[m + 1] = HexDigits[n + 1] => m = n
<1> SUFFICES ASSUME NEW m \in 0 .. 9, NEW n \in 0 .. 9, HexDigits[m + 1] = HexDigits[n + 1]
             PROVE  m = n
  OBVIOUS
<1>1. \A k \in 0 .. 9 :
        HexDigits[k + 1] = CASE k = 0 -> "0" [] k = 1 -> "1" [] k = 2 -> "2" [] k = 3 -> "3"
                             [] k = 4 -> "4" [] k = 5 -> "5" [] k = 6 -> "6" [] k = 7 -> "7"
                             [] k = 8 -> "8" [] k = 9 -> "9"
  BY DEF HexDigits
<1> QED
  BY <1>1

LEMMA DigitValueIs ==
  ASSUME NEW n \in 0 .. 9
  PROVE  DigitValue(HexDigits[n + 1]) = n
<1> DEFINE d == HexDigits[n + 1]
           m == DigitValue(d)
<1>1. \E k \in 0 .. 9 : HexDigits[k + 1] = d
  OBVIOUS
<1>2. m \in 0 .. 9 /\ HexDigits[m + 1] = d
  <2> HIDE DEF d
  <2> QED
    BY <1>1 DEF DigitValue
<1> HIDE DEF m
<1>3. m = n
  BY <1>2, HexDigitsDiffer
<1> QED
  BY <1>3 DEF m

\* zero[r]: the same digit for a remainder and for its negation.
LEMMA DigitOfRemainder ==
  ASSUME NEW r \in -9 .. 9
  PROVE  /\ Digits[10 + r] \in Character
         /\ Digits[10 + r] \in ToSet(Digits)
         /\ Digits[10 + r] = HexDigits[Size(r) + 1]
         /\ DigitValue(Digits[10 + r]) = Size(r)
         /\ r # 0 => Digits[10 + r] # "0"
<1>1. Digits[10 + r] = HexDigits[Size(r) + 1] /\ Size(r) \in 0 .. 9 /\ (Size(r) = 0 => r = 0)
  BY DEF Digits, HexDigits, Size
<1>2. Digits[10 + r] \in Character
  BY DEF Digits, Character
<1>3. Digits[10 + r] \in ToSet(Digits)
  <2>1. 10 + r \in DOMAIN Digits
    BY DEF Digits
  <2> QED
    BY <2>1 DEF ToSet
<1>4. DigitValue(Digits[10 + r]) = Size(r)
  BY <1>1, DigitValueIs
<1>5. r # 0 => Digits[10 + r] # "0"
  <2>1. HexDigits[0 + 1] = "0" /\ 0 \in 0 .. 9
    BY DEF HexDigits
  <2> QED
    BY <1>1, <2>1, HexDigitsDiffer
<1> QED
  BY <1>1, <1>2, <1>3, <1>4, <1>5

\* value is the function by which Reading is defined, for the first n digits.
Reads(sign, digits, n, value) ==
  value = [k \in 0 .. n |-> IF k = 0 THEN 0
                            ELSE 10 * value[k - 1] + sign * DigitValue(digits[k])]

LEMMA ReadsExists ==
  ASSUME NEW sign, NEW digits
  PROVE  \A n \in Nat : \E value : Reads(sign, digits, n, value)
<1> DEFINE Step(f, k) == IF k = 0 THEN 0 ELSE 10 * f[k - 1] + sign * DigitValue(digits[k])
           T == {n \in Nat : \E f : Reads(sign, digits, n, f)}
<1>1. 0 \in T
  <2> DEFINE f == [k \in 0 .. 0 |-> 0]
  <2>1. f = [k \in 0 .. 0 |-> Step(f, k)]
    OBVIOUS
  <2> QED
    BY <2>1 DEF Reads
<1>2. ASSUME NEW n \in Nat, n \in T PROVE n + 1 \in T
  <2>1. PICK f : f = [k \in 0 .. n |-> Step(f, k)]
    BY <1>2 DEF Reads
  <2> DEFINE g == [k \in 0 .. n + 1 |-> Step(f, k)]
             h == [k \in 0 .. n + 1 |-> Step(g, k)]
  <2>2. \A k \in 0 .. n : f[k] = g[k]
    <3> HIDE DEF Step
    <3> QED
      BY <2>1
  <2>3. \A k \in 0 .. n + 1 : Step(f, k) = Step(g, k)
    <3> HIDE DEF g
    <3> QED
      BY <2>2
  <2>4. g = h
    <3> HIDE DEF Step
    <3> QED
      BY <2>3
  <2>5. Reads(sign, digits, n + 1, g)
    BY <2>4 DEF Reads
  <2> HIDE DEF g
  <2> QED
    BY <2>5
<1>3. Nat \subseteq T
  <2> HIDE DEF T
  <2> QED
    BY <1>1, <1>2, SetInduction
<1> QED
  BY <1>3

LEMMA ReadingIs ==
  ASSUME NEW sign, NEW digits, Len(digits) \in Nat
  PROVE  \E value : /\ Reads(sign, digits, Len(digits), value)
                    /\ Reading(sign, digits) = value[Len(digits)]
<1> DEFINE value == CHOOSE v : Reads(sign, digits, Len(digits), v)
<1>1. Reads(sign, digits, Len(digits), value)
  BY ReadsExists
<1>2. Reading(sign, digits) = value[Len(digits)]
  BY DEF Reading, Reads
<1> QED
  BY <1>1, <1>2

\* One more digit.
LEMMA ReadingAppend ==
  ASSUME NEW sign, NEW s \in Seq(Character), NEW d \in Character
  PROVE  Reading(sign, Append(s, d)) = 10 * Reading(sign, s) + sign * DigitValue(d)
<1> DEFINE n == Len(s)
           t == Append(s, d)
<1>1. n \in Nat /\ Len(t) = n + 1 /\ t[n + 1] = d /\ \A k \in 1 .. n : t[k] = s[k]
  <2>1. n \in Nat
    OBVIOUS
  <2>2. Len(t) = n + 1 /\ t[n + 1] = d /\ \A k \in 1 .. n : t[k] = s[k]
    BY AppendProperties
  <2> QED
    BY <2>1, <2>2
<1> HIDE DEF n, t
<1>2. PICK f : Reads(sign, s, n, f) /\ Reading(sign, s) = f[n]
  BY <1>1, ReadingIs DEF n
<1>3. PICK g : Reads(sign, t, n + 1, g) /\ Reading(sign, t) = g[n + 1]
  BY <1>1, ReadingIs
<1>4. f[0] = 0 /\ \A k \in 1 .. n : f[k] = 10 * f[k - 1] + sign * DigitValue(s[k])
  BY <1>1, <1>2 DEF Reads
<1>5. g[0] = 0 /\ \A k \in 1 .. n + 1 : g[k] = 10 * g[k - 1] + sign * DigitValue(t[k])
  BY <1>1, <1>3 DEF Reads
<1> DEFINE T == {k \in Nat : k <= n => f[k] = g[k]}
<1>6. 0 \in T
  BY <1>4, <1>5
<1>7. ASSUME NEW k \in Nat, k \in T PROVE k + 1 \in T
  <2> SUFFICES ASSUME k + 1 <= n PROVE f[k + 1] = g[k + 1]
    OBVIOUS
  <2>1. k + 1 \in 1 .. n /\ k + 1 \in 1 .. n + 1 /\ (k + 1) - 1 = k /\ f[k] = g[k]
    BY <1>1, <1>7
  <2>2. f[k + 1] = 10 * f[k] + sign * DigitValue(s[k + 1])
    BY <1>4, <2>1
  <2>3. g[k + 1] = 10 * g[k] + sign * DigitValue(t[k + 1])
    BY <1>5, <2>1
  <2> QED
    BY <1>1, <2>1, <2>2, <2>3
<1>8. Nat \subseteq T
  <2> HIDE DEF T
  <2> QED
    BY <1>6, <1>7, SetInduction
<1>9. f[n] = g[n]
  BY <1>1, <1>8
<1>10. g[n + 1] = 10 * g[n] + sign * DigitValue(d)
  <2>1. n + 1 \in 1 .. n + 1 /\ (n + 1) - 1 = n
    BY <1>1
  <2> QED
    BY <1>1, <1>5, <2>1
<1> QED
  BY <1>2, <1>3, <1>9, <1>10 DEF t

LEMMA ReadingEmpty ==
  ASSUME NEW sign
  PROVE  Reading(sign, <<>>) = 0
<1>1. PICK f : Reads(sign, <<>>, 0, f) /\ Reading(sign, <<>>) = f[0]
  BY ReadingIs
<1> QED
  BY <1>1 DEF Reads

-----------------------------------------------------------------------------
(***************************************************************************)
(* convert().                                                              *)
(***************************************************************************)
Sign(value) == IF value < 0 THEN -1 ELSE 1

\* s holds the digits of i from the last to the first, and no more than needed.
IsWritten(sign, i, s) ==
  /\ s \in Seq(Character) /\ Len(s) > 0
  /\ \A j \in 1 .. Len(s) : s[j] \in ToSet(Digits)
  /\ Reading(sign, Reverse(s)) = i
  /\ i = 0 => Len(s) = 1
  /\ i # 0 => s[Len(s)] # "0"

\* One round of the loop: a digit goes before those of the quotient.
LEMMA OneMoreDigit ==
  ASSUME NEW sign \in {-1, 1}, NEW i \in Int, sign * i >= 0,
         NEW s, IF Quotient(i, 10) = 0 THEN s = <<>> ELSE IsWritten(sign, Quotient(i, 10), s)
  PROVE  IsWritten(sign, i, <<Digits[10 + Remainder(i, 10)]>> \o s)
<1>1. PICK q, r : q = Quotient(i, 10) /\ r = Remainder(i, 10)
  OBVIOUS
<1>2. /\ q \in Int /\ r \in -9 .. 9 /\ i = 10 * q + r
      /\ sign * r >= 0 /\ (q # 0 => i # 0)
  <2>1. /\ q \in Int /\ r \in -9 .. 9 /\ i = 10 * q + r
        /\ (i >= 0 => q \in 0 .. i /\ r >= 0) /\ (i <= 0 => q \in i .. 0 /\ r <= 0)
    BY <1>1, DivideByTen
  <2>2. CASE sign = 1
    BY <2>1, <2>2
  <2>3. CASE sign = -1
    BY <2>1, <2>3
  <2> QED
    BY <2>1, <2>2, <2>3
<1>3. PICK d : d = Digits[10 + r]
  OBVIOUS
<1>4. d \in Character /\ d \in ToSet(Digits) /\ DigitValue(d) = sign * r /\ (r # 0 => d # "0")
  <2>1. Size(r) = sign * r
    BY <1>2 DEF Size
  <2> QED
    BY <1>2, <1>3, <2>1, DigitOfRemainder
<1>5. s \in Seq(Character) /\ Reading(sign, Reverse(s)) = q
  <2>1. CASE q = 0
    <3>1. s = <<>> /\ Reverse(<<>>) = <<>>
      BY <1>1, <2>1 DEF Reverse
    <3> QED
      BY <2>1, <3>1, ReadingEmpty
  <2>2. CASE q # 0
    BY <1>1, <2>2 DEF IsWritten
  <2> QED
    BY <2>1, <2>2
<1>6. PICK t : t = <<d>> \o s
  OBVIOUS
<1>7. /\ t \in Seq(Character) /\ Len(t) = Len(s) + 1 /\ Len(s) \in Nat
      /\ \A j \in 1 .. Len(t) : t[j] = IF j = 1 THEN d ELSE s[j - 1]
  BY <1>4, <1>5, <1>6
<1>8. Reading(sign, Reverse(t)) = i
  <2>1. Reverse(t) = Append(Reverse(s), d)
    BY <1>4, <1>5, <1>6, ReverseFirst
  <2>2. Reverse(s) \in Seq(Character)
    BY <1>5, ReverseProperties
  <2>3. Reading(sign, Reverse(t)) = 10 * q + sign * DigitValue(d)
    BY <1>4, <1>5, <2>1, <2>2, ReadingAppend
  <2>4. sign * DigitValue(d) = r
    BY <1>2, <1>4
  <2> QED
    BY <1>2, <2>3, <2>4
<1>9. \A j \in 1 .. Len(t) : t[j] \in ToSet(Digits)
  <2> SUFFICES ASSUME NEW j \in 1 .. Len(t) PROVE t[j] \in ToSet(Digits)
    OBVIOUS
  <2>1. CASE j = 1
    BY <1>4, <1>7, <2>1
  <2>2. CASE j # 1
    <3>1. j - 1 \in 1 .. Len(s) /\ t[j] = s[j - 1]
      BY <1>7, <2>2
    <3>2. q # 0
      <4>1. ASSUME q = 0 PROVE FALSE
        <5>1. Len(s) = 0
          BY <1>1, <4>1
        <5> QED
          BY <3>1, <5>1
      <4> QED
        BY <4>1
    <3>3. IsWritten(sign, q, s)
      BY <1>1, <3>2
    <3> QED
      BY <3>1, <3>3 DEF IsWritten
  <2> QED
    BY <2>1, <2>2
<1>10. i = 0 => Len(t) = 1
  <2> SUFFICES ASSUME i = 0 PROVE Len(t) = 1
    OBVIOUS
  <2>1. s = <<>>
    BY <1>1, <1>2
  <2> QED
    BY <1>7, <2>1
<1>11. i # 0 => t[Len(t)] # "0"
  <2> SUFFICES ASSUME i # 0 PROVE t[Len(t)] # "0"
    OBVIOUS
  <2>1. CASE q = 0
    <3>1. s = <<>> /\ r # 0
      BY <1>1, <1>2, <2>1
    <3>2. Len(t) = 1 /\ t[1] = d
      BY <1>7, <3>1
    <3> QED
      BY <1>4, <3>1, <3>2
  <2>2. CASE q # 0
    <3>1. IsWritten(sign, q, s)
      BY <1>1, <2>2
    <3>2. Len(s) > 0 /\ s[Len(s)] # "0"
      BY <2>2, <3>1 DEF IsWritten
    <3>3. t[Len(t)] = s[Len(s)]
      BY <1>7, <3>2
    <3> QED
      BY <3>2, <3>3
  <2> QED
    BY <2>1, <2>2
<1>12. IsWritten(sign, i, t)
  BY <1>7, <1>8, <1>9, <1>10, <1>11 DEF IsWritten
<1> QED
  BY <1>1, <1>3, <1>6, <1>12

\* The loop writes what it is given.
LEMMA LoopWrites ==
  ASSUME NEW value \in Int, NEW loop, Converts(value, loop)
  PROVE  \A i \in Between(value) : IsWritten(Sign(value), i, loop[i])
<1> DEFINE D == Between(value)
           sign == Sign(value)
           T == {n \in Nat : \A i \in D : Size(i) <= n => IsWritten(sign, i, loop[i])}
<1>1. sign \in {-1, 1} /\ D \subseteq Int /\ \A i \in D : sign * i >= 0 /\ Size(i) \in Nat
  BY DEF Sign, Between, Size
<1>2. ASSUME NEW i \in D, Quotient(i, 10) # 0 => IsWritten(sign, Quotient(i, 10), loop[Quotient(i, 10)])
      PROVE  IsWritten(sign, i, loop[i])
  <2>1. PICK s : s = IF Quotient(i, 10) = 0 THEN <<>> ELSE loop[Quotient(i, 10)]
    OBVIOUS
  <2>2. loop[i] = <<Digits[10 + Remainder(i, 10)]>> \o s
    BY <2>1 DEF Converts
  <2>3. IF Quotient(i, 10) = 0 THEN s = <<>> ELSE IsWritten(sign, Quotient(i, 10), s)
    BY <1>2, <2>1
  <2>4. i \in Int /\ sign * i >= 0
    BY <1>1
  <2> HIDE DEF sign
  <2> QED
    BY <1>1, <2>2, <2>3, <2>4, OneMoreDigit
<1>3. \A i \in D : Quotient(i, 10) # 0 => Quotient(i, 10) \in D /\ Size(Quotient(i, 10)) < Size(i)
  <2> SUFFICES ASSUME NEW i \in D, Quotient(i, 10) # 0
               PROVE  Quotient(i, 10) \in D /\ Size(Quotient(i, 10)) < Size(i)
    OBVIOUS
  <2>1. i \in Int
    BY <1>1
  <2>2. i # 0 /\ Quotient(i, 10) \in D
    BY <2>1, DivideByTen DEF Between
  <2> QED
    BY <2>1, <2>2, DivideByTen
<1> HIDE DEF D, sign
<1>4. 0 \in T
  <2> SUFFICES ASSUME NEW i \in D, Size(i) <= 0
               PROVE  IsWritten(sign, i, loop[i])
    OBVIOUS
  <2>1. ~ \E n \in Nat : n < Size(i)
    BY <1>1
  <2>2. Quotient(i, 10) = 0
    BY <1>1, <1>3, <2>1
  <2> QED
    BY <1>2, <2>2
<1>5. ASSUME NEW n \in Nat, n \in T PROVE n + 1 \in T
  <2> SUFFICES ASSUME NEW i \in D, Size(i) <= n + 1
               PROVE  IsWritten(sign, i, loop[i])
    OBVIOUS
  <2>1. ASSUME Quotient(i, 10) # 0 PROVE IsWritten(sign, Quotient(i, 10), loop[Quotient(i, 10)])
    <3>1. Quotient(i, 10) \in D /\ Size(Quotient(i, 10)) < Size(i)
      BY <1>3, <2>1
    <3>2. Size(Quotient(i, 10)) <= n
      <4>1. Size(i) \in Nat /\ Size(Quotient(i, 10)) \in Nat
        BY <1>1, <3>1
      <4> QED
        BY <3>1, <4>1
    <3> QED
      BY <1>5, <3>1, <3>2
  <2> QED
    BY <1>2, <2>1
<1>6. Nat \subseteq T
  <2> HIDE DEF T
  <2> QED
    BY <1>4, <1>5, SetInduction
<1>7. ASSUME NEW i \in D PROVE IsWritten(sign, i, loop[i])
  <2>1. Size(i) \in T /\ Size(i) <= Size(i)
    BY <1>1, <1>6
  <2> QED
    BY <2>1
<1> QED
  BY <1>7 DEF D, sign

\* What IntegersReadBack says of the characters of an integer.
ReadsBack(v, chars) ==
  LET digits == IF v < 0 THEN Tail(chars) ELSE chars
  IN /\ v < 0 => Head(chars) = "-"
     /\ ToSet(digits) \subseteq ToSet(Digits)
     /\ Reading(IF v < 0 THEN -1 ELSE 1, digits) = v
     /\ Len(digits) > 1 => Head(digits) # "0"

LEMMA ConvertReadsBack ==
  ASSUME NEW v \in Int
  PROVE  convert(v) \in Seq(Character) /\ ReadsBack(v, convert(v))
<1>1. PICK loop : LastToFirst(v) = loop[v] /\ Converts(v, loop)
  BY LastToFirstLoop
<1>2. PICK s : s = LastToFirst(v)
  OBVIOUS
<1>3. IsWritten(Sign(v), v, s)
  <2>1. v \in Between(v)
    BY DEF Between
  <2> QED
    BY <1>1, <1>2, <2>1, LoopWrites
<1>4. s \in Seq(Character) /\ Len(s) \in Nat /\ Len(s) > 0
  BY <1>3 DEF IsWritten
<1>5. PICK digits : digits = Reverse(s)
  OBVIOUS
<1>6. /\ digits \in Seq(Character) /\ Len(digits) = Len(s)
      /\ \A j \in 1 .. Len(s) : digits[j] = s[Len(s) - j + 1]
  BY <1>4, <1>5, ReverseProperties
<1>7. ToSet(digits) \subseteq ToSet(Digits)
  <2>1. \A j \in 1 .. Len(s) : digits[j] \in ToSet(Digits)
    <3> SUFFICES ASSUME NEW j \in 1 .. Len(s) PROVE digits[j] \in ToSet(Digits)
      OBVIOUS
    <3>1. Len(s) - j + 1 \in 1 .. Len(s)
      BY <1>4
    <3> QED
      BY <1>3, <1>6, <3>1 DEF IsWritten
  <2>2. DOMAIN digits = 1 .. Len(s)
    BY <1>6
  <2> QED
    BY <2>1, <2>2 DEF ToSet
<1>8. Reading(Sign(v), digits) = v
  BY <1>3, <1>5 DEF IsWritten
<1>9. Len(digits) > 1 => Head(digits) # "0"
  <2> SUFFICES ASSUME Len(digits) > 1 PROVE Head(digits) # "0"
    OBVIOUS
  <2>1. Head(digits) = digits[1] /\ 1 \in 1 .. Len(s) /\ Len(s) - 1 + 1 = Len(s)
    BY <1>4, <1>6
  <2>2. v # 0
    BY <1>3, <1>6 DEF IsWritten
  <2>3. digits[1] = s[Len(s)]
    BY <1>6, <2>1
  <2> QED
    BY <1>3, <2>1, <2>2, <2>3 DEF IsWritten
<1>10. CASE v < 0
  <2>1. convert(v) = <<"-">> \o digits
    <3>1. convert(v) = Reverse(s \o <<"-">>)
      BY <1>2, <1>10 DEF convert
    <3>2. "-" \in Character
      BY DEF Character
    <3> QED
      BY <1>4, <1>5, <3>1, <3>2, ReverseLast
  <2>2. "-" \in Character
    BY DEF Character
  <2>3. PICK chars : chars = <<"-">> \o digits
    OBVIOUS
  <2>4. chars \in Seq(Character) /\ Head(chars) = "-"
    BY <1>6, <2>2, <2>3
  <2>5. Tail(chars) = digits
    <3>1. Len(chars) = Len(digits) + 1 /\ Len(digits) \in Nat
          /\ \A j \in 1 .. Len(digits) : chars[j + 1] = digits[j]
      BY <1>6, <2>2, <2>3
    <3>2. Tail(chars) \in Seq(Character) /\ Len(Tail(chars)) = Len(digits)
          /\ \A j \in 1 .. Len(digits) : Tail(chars)[j] = chars[j + 1]
      BY <2>4, <3>1
    <3> QED
      BY <1>6, <3>1, <3>2, SameSequence
  <2>6. ReadsBack(v, chars)
    BY <1>7, <1>8, <1>9, <1>10, <2>4, <2>5 DEF ReadsBack, Sign
  <2> QED
    BY <2>1, <2>3, <2>4, <2>6
<1>11. CASE ~ (v < 0)
  <2>1. convert(v) = digits
    <3>1. convert(v) = Reverse(s \o <<>>)
      BY <1>2, <1>11 DEF convert
    <3>2. s \o <<>> = s
      BY <1>4
    <3> QED
      BY <1>5, <3>1, <3>2
  <2>2. ReadsBack(v, digits)
    BY <1>7, <1>8, <1>9, <1>11 DEF ReadsBack, Sign
  <2> QED
    BY <1>6, <2>1, <2>2
<1> QED
  BY <1>10, <1>11

-----------------------------------------------------------------------------
(***************************************************************************)
(* convertHex(), and how long numbers get.                                 *)
(***************************************************************************)
\* The loop of convertHex(value), for every integer that it may come to.
HexConverts(value, loop) ==
  \A i \in 0 .. value :
    loop[i] = <<HexDigits[1 + (i % 16)]>>
              \o (IF i \div 16 = 0 THEN <<>> ELSE loop[i \div 16])

LEMMA DivideBySixteen ==
  ASSUME NEW i \in Nat
  PROVE  /\ i % 16 \in 0 .. 15 /\ i \div 16 \in 0 .. i
         /\ i # 0 => i \div 16 < i
         /\ 16 * (i \div 16) <= i
  BY SMT

LEMMA HexLoop ==
  ASSUME NEW value \in Nat
  PROVE  \E loop : convertHex(value) = Reverse(loop[value]) /\ HexConverts(value, loop)
<1> DEFINE D == 0 .. value
           digit == [i \in D |-> HexDigits[1 + (i % 16)]]
           rest == [i \in D |-> i \div 16]
           size == [i \in D |-> i]
           Body(loop, i) == <<HexDigits[1 + (i % 16)]>>
                            \o (IF i \div 16 = 0 THEN <<>> ELSE loop[i \div 16])
           IsLoop(loop) == loop = [i \in D |-> Body(loop, i)]
           theLoop == CHOOSE loop : IsLoop(loop)
<1>1. D \subseteq Nat /\ \A i \in D : i < value + 1
  OBVIOUS
<1>2. \A i \in D : i \div 16 # 0 => i \div 16 \in D /\ i \div 16 < i
  <2> SUFFICES ASSUME NEW i \in D, i \div 16 # 0
               PROVE  i \div 16 \in D /\ i \div 16 < i
    OBVIOUS
  <2>1. i \in Nat /\ i # 0
    BY <1>1, DivideBySixteen
  <2>2. PICK q : q = i \div 16
    OBVIOUS
  <2>3. q \in 0 .. i /\ q < i
    BY <2>1, <2>2, DivideBySixteen
  <2>4. q \in 0 .. value
    BY <2>3
  <2> QED
    BY <2>2, <2>3, <2>4
<1>3. Decreases(D, rest, size)
  <2> HIDE DEF D
  <2> QED
    BY <1>1, <1>2 DEF Decreases
<1>4. PICK f : Loops(D, digit, rest, f)
  <2>1. value + 1 \in Nat /\ \A i \in D : size[i] < value + 1
    OBVIOUS
  <2> HIDE DEF D, digit, rest, size
  <2> QED
    BY <1>3, <2>1, LoopExists
<1>5. \A i \in D : PutDown(digit, rest, f, i) = Body(f, i)
  <2> HIDE DEF D
  <2> QED
    BY DEF PutDown
<1>6. IsLoop(f)
  <2>1. f = [i \in D |-> PutDown(digit, rest, f, i)]
    BY <1>4 DEF Loops
  <2> HIDE DEF D, Body, digit, rest
  <2> QED
    BY <1>5, <2>1
<1>7. IsLoop(theLoop)
  <2> HIDE DEF IsLoop
  <2> QED
    BY <1>6
<1>8. convertHex(value) = Reverse(theLoop[value])
  BY DEF convertHex
<1>9. HexConverts(value, theLoop)
  <2> HIDE DEF theLoop
  <2> QED
    BY <1>7 DEF HexConverts
<1> QED
  BY <1>8, <1>9

\* loop[i] is what the loops put down for i.
Runs(D, digit, rest, loop) == \A i \in D : loop[i] = PutDown(digit, rest, loop, i)

LEMMA LoopIsSequence ==
  ASSUME NEW D, NEW digit, NEW rest, NEW size, NEW loop, NEW S,
         Decreases(D, rest, size), Runs(D, digit, rest, loop), \A i \in D : digit[i] \in S
  PROVE  \A i \in D : loop[i] \in Seq(S)
<1> DEFINE T == {n \in Nat : \A i \in D : size[i] < n => loop[i] \in Seq(S)}
<1>1. 0 \in T
  BY DEF Decreases
<1>2. ASSUME NEW n \in Nat, n \in T PROVE n + 1 \in T
  <2> SUFFICES ASSUME NEW i \in D, size[i] < n + 1 PROVE loop[i] \in Seq(S)
    OBVIOUS
  <2>1. PICK s : s = IF rest[i] = 0 THEN <<>> ELSE loop[rest[i]]
    OBVIOUS
  <2>2. loop[i] = <<digit[i]>> \o s
    BY <2>1 DEF Runs, PutDown
  <2>3. s \in Seq(S)
    <3>1. CASE rest[i] = 0
      BY <2>1, <3>1
    <3>2. CASE rest[i] # 0
      <4>1. /\ rest[i] \in D /\ size[i] \in Nat /\ size[rest[i]] \in Nat
            /\ size[rest[i]] < size[i]
        BY <3>2 DEF Decreases
      <4>2. size[rest[i]] < n
        BY <4>1
      <4> QED
        BY <1>2, <2>1, <3>2, <4>1, <4>2
    <3> QED
      BY <3>1, <3>2
  <2>4. digit[i] \in S
    OBVIOUS
  <2> QED
    BY <2>2, <2>3, <2>4
<1>3. Nat \subseteq T
  <2> HIDE DEF T
  <2> QED
    BY <1>1, <1>2, SetInduction
<1>4. ASSUME NEW i \in D PROVE loop[i] \in Seq(S)
  <2>1. size[i] \in Nat
    BY DEF Decreases
  <2>2. size[i] + 1 \in T /\ size[i] < size[i] + 1
    BY <1>3, <2>1
  <2> QED
    BY <2>2
<1> QED
  BY <1>4

\* The loop of convertHex() puts down characters.
LEMMA HexLoopWrites ==
  ASSUME NEW value \in Nat, NEW loop, HexConverts(value, loop)
  PROVE  \A i \in 0 .. value : loop[i] \in Seq(Character)
<1> DEFINE D == 0 .. value
           digit == [i \in D |-> HexDigits[1 + (i % 16)]]
           rest == [i \in D |-> i \div 16]
           size == [i \in D |-> i]
<1>1. ASSUME NEW i \in D
      PROVE  /\ i \in Nat /\ HexDigits[1 + (i % 16)] \in Character
             /\ i \div 16 # 0 => i \div 16 \in D /\ i \div 16 < i
  <2>1. i \in Nat /\ i <= value
    OBVIOUS
  <2>2. PICK q, r : q = i \div 16 /\ r = i % 16
    OBVIOUS
  <2>3. r \in 0 .. 15 /\ q \in 0 .. i /\ (i # 0 => q < i)
    BY <2>1, <2>2, DivideBySixteen
  <2>4. HexDigits[1 + r] \in Character
    BY <2>3 DEF HexDigits, Character
  <2>5. q # 0 => q \in D /\ q < i
    BY <2>1, <2>3
  <2> QED
    BY <2>1, <2>2, <2>4, <2>5
<1> HIDE DEF D
<1>2. Decreases(D, rest, size) /\ \A i \in D : digit[i] \in Character
  BY <1>1 DEF Decreases
<1>3. Runs(D, digit, rest, loop)
  BY DEF Runs, PutDown, HexConverts, D
<1> HIDE DEF digit, rest, size
<1>4. \A i \in D : loop[i] \in Seq(Character)
  BY <1>2, <1>3, LoopIsSequence
<1> QED
  BY <1>4 DEF D

LEMMA ConvertHexType ==
  ASSUME NEW p \in Nat
  PROVE  convertHex(p) \in Seq(Character)
<1>1. PICK loop : convertHex(p) = Reverse(loop[p]) /\ HexConverts(p, loop)
  BY HexLoop
<1>2. loop[p] \in Seq(Character)
  BY <1>1, HexLoopWrites
<1> QED
  BY <1>1, <1>2, ReverseProperties

\* A quotient by base is left.
Divides(D, rest, size, base) ==
  \A i \in D : /\ size[i] \in Nat
               /\ rest[i] # 0 => /\ rest[i] \in D /\ size[rest[i]] > 0
                                 /\ base * size[rest[i]] <= size[i]

\* A loop that puts down characters, a digit for each division by base.
IsLoopFor(D, digit, rest, size, base, loop) ==
  /\ Runs(D, digit, rest, loop) /\ Divides(D, rest, size, base)
  /\ \A i \in D : digit[i] \in Character /\ loop[i] \in Seq(Character)

\* For less than limit there are at most n digits.
AtMost(D, size, loop, limit, n) == \A i \in D : size[i] < limit => Len(loop[i]) <= n

LEMMA OneDigit ==
  ASSUME NEW D, NEW digit, NEW rest, NEW size, NEW base \in {10, 16}, NEW loop,
         IsLoopFor(D, digit, rest, size, base, loop)
  PROVE  AtMost(D, size, loop, base, 1)
<1> SUFFICES ASSUME NEW i \in D, size[i] < base PROVE Len(loop[i]) <= 1
  BY DEF AtMost
<1>1. rest[i] = 0
  <2> SUFFICES ASSUME rest[i] # 0 PROVE FALSE
    OBVIOUS
  <2>1. PICK m, n : m = size[rest[i]] /\ n = size[i]
    OBVIOUS
  <2>2. m \in Nat /\ n \in Nat /\ m > 0 /\ base * m <= n /\ n < base
    BY <2>1 DEF IsLoopFor, Divides
  <2> QED
    BY <2>2, SMT
<1>2. loop[i] = <<digit[i]>> \o <<>> /\ digit[i] \in Character
  BY <1>1 DEF IsLoopFor, Runs, PutDown
<1> QED
  BY <1>2

LEMMA OneDigitMore ==
  ASSUME NEW D, NEW digit, NEW rest, NEW size, NEW base \in {10, 16}, NEW loop,
         IsLoopFor(D, digit, rest, size, base, loop),
         NEW limit \in Nat, NEW n \in Nat, AtMost(D, size, loop, limit, n)
  PROVE  AtMost(D, size, loop, base * limit, n + 1)
<1> SUFFICES ASSUME NEW i \in D, size[i] < base * limit PROVE Len(loop[i]) <= n + 1
  BY DEF AtMost
<1>1. PICK s : s = IF rest[i] = 0 THEN <<>> ELSE loop[rest[i]]
  OBVIOUS
<1>2. loop[i] = <<digit[i]>> \o s /\ digit[i] \in Character
  BY <1>1 DEF IsLoopFor, Runs, PutDown
<1>3. s \in Seq(Character) /\ Len(s) <= n
  <2>1. CASE rest[i] = 0
    BY <1>1, <2>1
  <2>2. CASE rest[i] # 0
    <3>1. PICK l, m : l = size[rest[i]] /\ m = size[i]
      OBVIOUS
    <3>2. rest[i] \in D /\ l \in Nat /\ m \in Nat /\ base * l <= m /\ m < base * limit
      BY <2>2, <3>1 DEF IsLoopFor, Divides
    <3>3. l < limit
      BY <3>2, SMT
    <3>4. Len(loop[rest[i]]) <= n
      BY <3>1, <3>2, <3>3 DEF AtMost
    <3>5. loop[rest[i]] \in Seq(Character)
      BY <3>2 DEF IsLoopFor
    <3> QED
      BY <1>1, <2>2, <3>4, <3>5
  <2> QED
    BY <2>1, <2>2
<1>4. Len(loop[i]) = Len(s) + 1 /\ Len(s) \in Nat
  BY <1>2, <1>3
<1> QED
  BY <1>3, <1>4

LEMMA FiveDigitsMore ==
  ASSUME NEW D, NEW digit, NEW rest, NEW size, NEW base \in {10, 16}, NEW loop,
         IsLoopFor(D, digit, rest, size, base, loop),
         NEW limit \in Nat, NEW n \in Nat, AtMost(D, size, loop, limit, n)
  PROVE  AtMost(D, size, loop, (IF base = 10 THEN 100000 ELSE 1048576) * limit, n + 5)
<1>1. ASSUME NEW l \in Nat, NEW m \in Nat, AtMost(D, size, loop, l, m)
      PROVE  base * l \in Nat /\ m + 1 \in Nat /\ AtMost(D, size, loop, base * l, m + 1)
  BY <1>1, OneDigitMore
<1>2. PICK l1 \in Nat : l1 = base * limit /\ AtMost(D, size, loop, l1, n + 1)
  BY <1>1
<1>3. PICK l2 \in Nat : l2 = base * l1 /\ AtMost(D, size, loop, l2, (n + 1) + 1)
  BY <1>1, <1>2
<1>4. PICK l3 \in Nat : l3 = base * l2 /\ AtMost(D, size, loop, l3, ((n + 1) + 1) + 1)
  BY <1>1, <1>3
<1>5. PICK l4 \in Nat : l4 = base * l3 /\ AtMost(D, size, loop, l4, (((n + 1) + 1) + 1) + 1)
  BY <1>1, <1>4
<1>6. PICK l5 \in Nat : l5 = base * l4 /\ AtMost(D, size, loop, l5, ((((n + 1) + 1) + 1) + 1) + 1)
  BY <1>1, <1>5
<1>7. l5 = (IF base = 10 THEN 100000 ELSE 1048576) * limit
  BY <1>2, <1>3, <1>4, <1>5, <1>6, SMT
<1>8. ((((n + 1) + 1) + 1) + 1) + 1 = n + 5
  BY SMT
<1> QED
  BY <1>6, <1>7, <1>8

\* v fits 64 bits, with or without a sign.
SixtyFourBits(v) == Size(v) < 65536 * 65536 * 65536 * 65536

LEMMA DecimalLength ==
  ASSUME NEW v \in Int, SixtyFourBits(v)
  PROVE  Len(convert(v)) <= 21
<1> DEFINE D == Between(v)
           digit == [i \in D |-> Digits[10 + Remainder(i, 10)]]
           rest == [i \in D |-> Quotient(i, 10)]
           size == [i \in D |-> Size(i)]
<1>1. PICK loop : LastToFirst(v) = loop[v] /\ Converts(v, loop)
  BY LastToFirstLoop
<1>2. \A i \in D : IsWritten(Sign(v), i, loop[i])
  BY <1>1, LoopWrites
<1>3. ASSUME NEW i \in D
      PROVE  /\ i \in Int /\ Size(i) \in Nat /\ Digits[10 + Remainder(i, 10)] \in Character
             /\ loop[i] \in Seq(Character)
             /\ Quotient(i, 10) # 0 => /\ Quotient(i, 10) \in D /\ Size(Quotient(i, 10)) > 0
                                       /\ 10 * Size(Quotient(i, 10)) <= Size(i)
  <2>1. i \in Int
    BY DEF Between
  <2>2. PICK q, r : q = Quotient(i, 10) /\ r = Remainder(i, 10)
    OBVIOUS
  <2>3. /\ q \in Int /\ r \in -9 .. 9 /\ i = 10 * q + r
        /\ i >= 0 => q \in 0 .. i /\ r >= 0
        /\ i <= 0 => q \in i .. 0 /\ r <= 0
    BY <2>1, <2>2, DivideByTen
  <2>4. Digits[10 + r] \in Character
    BY <2>3, DigitOfRemainder
  <2>5. q # 0 => Size(q) > 0 /\ 10 * Size(q) <= Size(i)
    BY <2>1, <2>3, SMT DEF Size
  <2>6. q \in D
    BY <2>3, SMT DEF Between
  <2>7. loop[i] \in Seq(Character)
    BY <1>2 DEF IsWritten
  <2>8. Size(i) \in Nat
    BY <2>1 DEF Size
  <2> QED
    BY <2>1, <2>2, <2>4, <2>5, <2>6, <2>7, <2>8
<1>4. v \in D
  BY DEF Between
<1> HIDE DEF D
<1>5. Runs(D, digit, rest, loop)
  BY <1>1 DEF Runs, PutDown, Converts, D
<1>6. IsLoopFor(D, digit, rest, size, 10, loop)
  <2>1. Divides(D, rest, size, 10)
    BY <1>3 DEF Divides
  <2>2. \A i \in D : digit[i] \in Character /\ loop[i] \in Seq(Character)
    BY <1>3
  <2> HIDE DEF digit, rest, size
  <2> QED
    BY <1>5, <2>1, <2>2 DEF IsLoopFor
<1>7. size[v] = Size(v) /\ Size(v) \in Nat
  BY <1>3, <1>4
<1> HIDE DEF digit, rest, size
<1>8. ASSUME NEW l \in Nat, NEW n \in Nat, AtMost(D, size, loop, l, n)
      PROVE  100000 * l \in Nat /\ n + 5 \in Nat /\ AtMost(D, size, loop, 100000 * l, n + 5)
  BY <1>6, <1>8, FiveDigitsMore
<1>9. PICK l1 \in Nat : l1 = 10 /\ AtMost(D, size, loop, l1, 1)
  BY <1>6, OneDigit
<1>10. PICK l2 \in Nat : l2 = 100000 * l1 /\ AtMost(D, size, loop, l2, 1 + 5)
  BY <1>8, <1>9
<1>11. PICK l3 \in Nat : l3 = 100000 * l2 /\ AtMost(D, size, loop, l3, (1 + 5) + 5)
  BY <1>8, <1>10
<1>12. PICK l4 \in Nat : l4 = 100000 * l3 /\ AtMost(D, size, loop, l4, ((1 + 5) + 5) + 5)
  BY <1>8, <1>11
<1>13. ASSUME NEW l \in Nat, NEW n \in Nat, AtMost(D, size, loop, l, n)
       PROVE  10 * l \in Nat /\ n + 1 \in Nat /\ AtMost(D, size, loop, 10 * l, n + 1)
  BY <1>6, <1>13, OneDigitMore
<1>14. AtMost(D, size, loop, l4, 16)
  BY <1>12
<1>15. PICK l5 \in Nat : l5 = 10 * l4 /\ AtMost(D, size, loop, l5, 16 + 1)
  BY <1>13, <1>14
<1>16. PICK l6 \in Nat : l6 = 10 * l5 /\ AtMost(D, size, loop, l6, (16 + 1) + 1)
  BY <1>13, <1>15
<1>17. PICK l7 \in Nat : l7 = 10 * l6 /\ AtMost(D, size, loop, l7, ((16 + 1) + 1) + 1)
  BY <1>13, <1>16
<1>18. PICK l8 \in Nat : l8 = 10 * l7 /\ AtMost(D, size, loop, l8, (((16 + 1) + 1) + 1) + 1)
  BY <1>13, <1>17
<1>19. Size(v) < l8
  BY <1>7, <1>9, <1>10, <1>11, <1>12, <1>15, <1>16, <1>17, <1>18, SMT
     DEF SixtyFourBits
<1>20. Len(loop[v]) <= 20 /\ loop[v] \in Seq(Character)
  BY <1>3, <1>4, <1>7, <1>18, <1>19 DEF AtMost
<1>21. PICK s : s = LastToFirst(v) \o (IF v < 0 THEN <<"-">> ELSE <<>>)
  OBVIOUS
<1>22. s \in Seq(Character) /\ Len(s) <= 21
  <2>1. "-" \in Character
    BY DEF Character
  <2>2. PICK t : t = loop[v]
    OBVIOUS
  <2>3. t \in Seq(Character) /\ Len(t) <= 20 /\ s = t \o (IF v < 0 THEN <<"-">> ELSE <<>>)
    BY <1>1, <1>20, <1>21, <2>2
  <2>4. CASE v < 0
    BY <2>1, <2>3, <2>4
  <2>5. CASE ~ (v < 0)
    BY <2>3, <2>5
  <2> QED
    BY <2>4, <2>5
<1>23. convert(v) = Reverse(s)
  BY <1>21 DEF convert
<1>24. Len(Reverse(s)) = Len(s)
  BY <1>22, ReverseProperties
<1> QED
  BY <1>22, <1>23, <1>24

LEMMA HexLength ==
  ASSUME NEW p \in Nat, SixtyFourBits(p)
  PROVE  Len(convertHex(p)) <= 16
<1> DEFINE D == 0 .. p
           digit == [i \in D |-> HexDigits[1 + (i % 16)]]
           rest == [i \in D |-> i \div 16]
           size == [i \in D |-> i]
<1>1. PICK loop : convertHex(p) = Reverse(loop[p]) /\ HexConverts(p, loop)
  BY HexLoop
<1>2. \A i \in D : loop[i] \in Seq(Character)
  BY <1>1, HexLoopWrites
<1>3. ASSUME NEW i \in D
      PROVE  /\ i \in Nat /\ HexDigits[1 + (i % 16)] \in Character
             /\ i \div 16 # 0 => i \div 16 \in D /\ i \div 16 > 0 /\ 16 * (i \div 16) <= i
  <2>1. i \in Nat /\ i <= p
    BY SMT
  <2>2. PICK q, r : q = i \div 16 /\ r = i % 16
    OBVIOUS
  <2>3. r \in 0 .. 15 /\ q \in 0 .. i /\ 16 * q <= i
    BY <2>1, <2>2, DivideBySixteen
  <2>4. HexDigits[1 + r] \in Character
    BY <2>3, SMT DEF HexDigits, Character
  <2>5. q # 0 => q \in D /\ q > 0
    BY <2>1, <2>3, SMT
  <2> QED
    BY <2>1, <2>2, <2>3, <2>4, <2>5
<1>4. p \in D
  BY SMT
<1> HIDE DEF D
<1>5. Runs(D, digit, rest, loop)
  BY <1>1 DEF Runs, PutDown, HexConverts, D
<1>6. IsLoopFor(D, digit, rest, size, 16, loop)
  <2>1. Divides(D, rest, size, 16)
    BY <1>3 DEF Divides
  <2>2. \A i \in D : digit[i] \in Character /\ loop[i] \in Seq(Character)
    BY <1>2, <1>3
  <2> HIDE DEF digit, rest, size
  <2> QED
    BY <1>5, <2>1, <2>2 DEF IsLoopFor
<1>7. size[p] = p
  BY <1>4
<1> HIDE DEF digit, rest, size
<1>8. ASSUME NEW l \in Nat, NEW n \in Nat, AtMost(D, size, loop, l, n)
      PROVE  1048576 * l \in Nat /\ n + 5 \in Nat /\ AtMost(D, size, loop, 1048576 * l, n + 5)
  BY <1>6, <1>8, FiveDigitsMore
<1>9. PICK l1 \in Nat : l1 = 16 /\ AtMost(D, size, loop, l1, 1)
  BY <1>6, OneDigit
<1>10. PICK l2 \in Nat : l2 = 1048576 * l1 /\ AtMost(D, size, loop, l2, 1 + 5)
  BY <1>8, <1>9
<1>11. PICK l3 \in Nat : l3 = 1048576 * l2 /\ AtMost(D, size, loop, l3, (1 + 5) + 5)
  BY <1>8, <1>10
<1>12. PICK l4 \in Nat : l4 = 1048576 * l3 /\ AtMost(D, size, loop, l4, ((1 + 5) + 5) + 5)
  BY <1>8, <1>11
<1>13. p < l4
  BY <1>9, <1>10, <1>11, <1>12, SMT DEF SixtyFourBits, Size
<1>14. Len(loop[p]) <= 16
  BY <1>4, <1>7, <1>12, <1>13 DEF AtMost
<1> QED
  BY <1>1, <1>2, <1>4, <1>14, ReverseProperties

\* RoomAssumption holds of the program: kMaxNumericSize is 32, and no integer or
\* pointer of 64 bits takes more than 21 characters (formatInteger(), operator<< for
\* a pointer).
THEOREM SixtyFourBitsHaveRoom ==
  ASSUME kMaxNumericSize = 32,
         \A v \in Values : SixtyFourBits(v),
         \A p \in Addresses : SixtyFourBits(p)
  PROVE  /\ \A v \in Values : Len(convert(v)) < kMaxNumericSize
         /\ \A p \in Addresses : 2 + Len(convertHex(p)) < kMaxNumericSize
<1>1. ASSUME NEW v \in Values PROVE Len(convert(v)) < kMaxNumericSize
  <2>1. v \in Int
    BY StreamAssumption
  <2>2. Len(convert(v)) <= 21 /\ Len(convert(v)) \in Nat
    BY <2>1, DecimalLength, ConvertReadsBack
  <2> QED
    BY <2>2
<1>2. ASSUME NEW p \in Addresses PROVE 2 + Len(convertHex(p)) < kMaxNumericSize
  <2>1. p \in Nat
    BY StreamAssumption
  <2>2. Len(convertHex(p)) <= 16 /\ Len(convertHex(p)) \in Nat
    BY <2>1, HexLength, ConvertHexType
  <2> QED
    BY <2>2
<1> QED
  BY <1>1, <1>2

-----------------------------------------------------------------------------
(***************************************************************************)
(* The buffer.                                                             *)
(***************************************************************************)
StreamType ==
  /\ data_ \in [1 .. SIZE -> Character] /\ cur_ \in 0 .. SIZE - 1
  /\ overrun \in BOOLEAN /\ text \in Seq(Character)

\* Character by character, data_ begins with text, but where text is stale.
HoldsText ==
  ~overrun => Len(text) = cur_ /\ \A i \in 1 .. cur_ : text[i] # Stale => data_[i] = text[i]

\* The integer v ends at cur_ and begins at place.
HoldsInteger(v, place) ==
  /\ v \in Values /\ place \in 1 .. cur_ + 1
  /\ cur_ = place - 1 + Len(convert(v))
  /\ \A j \in 1 .. Len(convert(v)) : data_[place - 1 + j] = convert(v)[j]

HoldsNumber == ~overrun /\ number # <<>> => HoldsInteger(number[1], number[2])

IInv == StreamType /\ HoldsText /\ HoldsNumber

LEMMA SequenceInto ==
  ASSUME NEW S, NEW R, S \subseteq R, NEW s \in Seq(S)
  PROVE  s \in Seq(R)
<1>1. Len(s) \in Nat /\ s \in [1 .. Len(s) -> S]
  OBVIOUS
<1>2. s \in [1 .. Len(s) -> R]
  BY <1>1
<1> QED
  BY <1>1, <1>2, SeqDef

LEMMA SourceType ==
  ASSUME NEW s \in Sources
  PROVE  /\ s.chars \in Seq(Character) /\ Len(s.chars) \in Nat
         /\ s.len \in Nat
<1>1. s.chars \in Seq(STRING) /\ s.len \in Nat
  BY StreamAssumption
<1>2. STRING \subseteq Character
  BY DEF Character
<1>3. s.chars \in Seq(Character)
  <2>1. PICK c : c = s.chars
    OBVIOUS
  <2>2. c \in Seq(STRING)
    BY <1>1, <2>1
  <2> QED
    BY <1>2, <2>1, <2>2, SequenceInto
<1> QED
  BY <1>1, <1>3

LEMMA InitHolds == Init => IInv
<1> SUFFICES ASSUME Init PROVE IInv
  OBVIOUS
<1>1. SIZE \in Nat \ {0}
  BY StreamAssumption
<1>2. "?" \in Character /\ NUL \in Character
  BY DEF Character
<1>3. data_ \in [1 .. SIZE -> Character]
  BY <1>2 DEF Init
<1>4. StreamType
  <2>1. cur_ \in 0 .. SIZE - 1
    BY <1>1 DEF Init
  <2>2. overrun \in BOOLEAN
    BY DEF Init
  <2>3. text \in Seq(Character)
    <3>1. text = <<>>
      BY DEF Init
    <3> QED
      BY <3>1
  <2> QED
    BY <1>3, <2>1, <2>2, <2>3 DEF StreamType
<1>5. HoldsText /\ HoldsNumber
  BY DEF Init, HoldsText, HoldsNumber
<1> QED
  BY <1>4, <1>5 DEF IInv

LEMMA ContributedType ==
  ASSUME NEW chars \in Seq(Character), NEW len \in Nat
  PROVE  /\ Contributed(chars, len) \in Seq(Character) /\ Len(Contributed(chars, len)) = len
         /\ \A j \in 1 .. len : Contributed(chars, len)[j] =
              IF j <= Len(chars) THEN chars[j] ELSE IF j = Len(chars) + 1 THEN NUL ELSE Stale
<1> DEFINE c == Contributed(chars, len)
           At(j) == IF j <= Len(chars) THEN chars[j]
                    ELSE IF j = Len(chars) + 1 THEN NUL ELSE Stale
<1>1. NUL \in Character /\ Stale \in Character
  BY DEF Character
<1>2. ASSUME NEW j \in 1 .. len PROVE At(j) \in Character
  <2>1. CASE j <= Len(chars)
    <3>1. j \in 1 .. Len(chars)
      BY <2>1
    <3> QED
      BY <2>1, <3>1, ElementOfSeq
  <2> QED
    BY <1>1, <2>1
<1>3. c = [j \in 1 .. len |-> At(j)]
  BY DEF Contributed
<1> HIDE DEF c, At
<1>4. c \in [1 .. len -> Character]
  BY <1>2, <1>3
<1>5. c \in Seq(Character) /\ Len(c) = len
  BY <1>4
<1>6. \A j \in 1 .. len : c[j] = At(j)
  BY <1>3
<1> QED
  BY <1>5, <1>6 DEF c, At

\* What strcpy() and add() do to a text and to what was there before.
LEMMA CopyHolds ==
  ASSUME IInv, ~overrun, NEW chars \in Seq(Character), NEW len \in Nat,
         avail > len, CopyAndAdd(chars, len)
  PROVE  /\ StreamType' /\ HoldsText' /\ cur_' = cur_ + len
         /\ ~overrun' => \A j \in 1 .. Len(chars) : data_'[cur_ + j] = chars[j]
<1>1. /\ SIZE \in Nat /\ cur_ \in 0 .. SIZE - 1 /\ Len(chars) \in Nat /\ len \in Nat
      /\ data_ \in [1 .. SIZE -> Character] /\ text \in Seq(Character)
      /\ Len(text) = cur_ /\ \A i \in 1 .. cur_ : text[i] # Stale => data_[i] = text[i]
  BY StreamAssumption DEF IInv, StreamType, HoldsText
<1>2. /\ data_' = Copied(chars) /\ cur_' = cur_ + len
      /\ overrun' = (cur_ + Len(chars) + 1 > SIZE)
      /\ text' = text \o Contributed(chars, len)
  BY DEF CopyAndAdd
<1>3. cur_ + len \in 0 .. SIZE - 1
  BY <1>1 DEF avail
<1>4. data_' \in [1 .. SIZE -> Character]
  <2>1. \A i \in 1 .. SIZE :
          i \in cur_ + 1 .. cur_ + Len(chars) => chars[i - cur_] \in Character
    <3> SUFFICES ASSUME NEW i \in 1 .. SIZE, i \in cur_ + 1 .. cur_ + Len(chars)
                 PROVE  chars[i - cur_] \in Character
      OBVIOUS
    <3>1. i - cur_ \in 1 .. Len(chars)
      BY <1>1
    <3> QED
      BY <3>1, ElementOfSeq
  <2>2. NUL \in Character
    BY DEF Character
  <2> QED
    BY <1>1, <1>2, <2>1, <2>2 DEF Copied
<1>5. PICK s : s = Contributed(chars, len)
  OBVIOUS
<1>6. /\ s \in Seq(Character) /\ Len(s) = len
      /\ \A j \in 1 .. len : s[j] =
           IF j <= Len(chars) THEN chars[j] ELSE IF j = Len(chars) + 1 THEN NUL ELSE Stale
  BY <1>5, ContributedType
<1>7. PICK t : t = text \o s
  OBVIOUS
<1>8. /\ t \in Seq(Character) /\ Len(t) = cur_ + len
      /\ \A i \in 1 .. cur_ + len : t[i] = IF i <= cur_ THEN text[i] ELSE s[i - cur_]
  <2>1. Len(text) + Len(s) = cur_ + len
    BY <1>1, <1>6
  <2> QED
    BY <1>1, <1>6, <1>7, <2>1, ConcatProperties
<1>9. text' = t
  BY <1>2, <1>5, <1>7
<1>10. StreamType'
  <2>1. overrun' \in BOOLEAN
    BY <1>2
  <2> QED
    BY <1>2, <1>3, <1>4, <1>8, <1>9, <2>1 DEF StreamType
<1>11. ASSUME ~overrun'
       PROVE  /\ \A j \in 1 .. Len(chars) : data_'[cur_ + j] = chars[j]
              /\ data_'[cur_ + Len(chars) + 1] = NUL
              /\ \A i \in 1 .. cur_ : data_'[i] = data_[i]
  <2>1. cur_ + Len(chars) + 1 <= SIZE
    <3>1. ~ (cur_ + Len(chars) + 1 > SIZE)
      BY <1>2, <1>11, Zenon
    <3> QED
      BY <1>1, <3>1
  <2>2. ASSUME NEW j \in 1 .. Len(chars) PROVE data_'[cur_ + j] = chars[j]
    <3>1. /\ cur_ + j \in 1 .. SIZE /\ cur_ + j \in cur_ + 1 .. cur_ + Len(chars)
          /\ (cur_ + j) - cur_ = j
      BY <1>1, <2>1
    <3> QED
      BY <1>2, <3>1 DEF Copied
  <2>3. ASSUME NEW i \in 1 .. cur_ PROVE data_'[i] = data_[i]
    <3>1. i \in 1 .. SIZE /\ i \notin cur_ + 1 .. cur_ + Len(chars) /\ i # cur_ + Len(chars) + 1
      BY <1>1
    <3> QED
      BY <1>2, <3>1 DEF Copied
  <2>4. data_'[cur_ + Len(chars) + 1] = NUL
    <3>1. /\ cur_ + Len(chars) + 1 \in 1 .. SIZE
          /\ cur_ + Len(chars) + 1 \notin cur_ + 1 .. cur_ + Len(chars)
      BY <1>1, <2>1
    <3> QED
      BY <1>2, <3>1 DEF Copied
  <2> QED
    BY <2>2, <2>3, <2>4
<1>12. HoldsText'
  <2> SUFFICES ASSUME ~overrun'
               PROVE  /\ Len(t) = cur_ + len
                      /\ \A i \in 1 .. cur_ + len : t[i] # Stale => data_'[i] = t[i]
    BY <1>2, <1>9 DEF HoldsText
  <2>1. ASSUME NEW i \in 1 .. cur_ + len, t[i] # Stale PROVE data_'[i] = t[i]
    <3>1. CASE i <= cur_
      <4>1. i \in 1 .. cur_
        BY <1>1, <3>1
      <4> QED
        BY <1>1, <1>8, <1>11, <2>1, <3>1, <4>1
    <3>2. CASE ~ (i <= cur_)
      <4>1. PICK j : j = i - cur_
        OBVIOUS
      <4>2. j \in 1 .. len /\ cur_ + j = i
        BY <1>1, <3>2, <4>1
      <4>3. t[i] = s[j]
        BY <1>8, <3>2, <4>1
      <4>4. CASE j <= Len(chars)
        <5>1. j \in 1 .. Len(chars)
          BY <4>2, <4>4
        <5> QED
          BY <1>6, <1>11, <4>2, <4>3, <4>4, <5>1
      <4>5. CASE ~ (j <= Len(chars))
        <5>1. j = Len(chars) + 1
          BY <1>6, <2>1, <4>2, <4>3, <4>5
        <5>2. i = cur_ + Len(chars) + 1 /\ t[i] = NUL
          BY <1>1, <1>6, <4>2, <4>3, <4>5, <5>1
        <5> QED
          BY <1>11, <5>2
      <4> QED
        BY <4>4, <4>5
    <3> QED
      BY <3>1, <3>2
  <2> QED
    BY <1>8, <2>1
<1> QED
  BY <1>2, <1>10, <1>11, <1>12

\* Nothing is appended, or everything is dropped.
LEMMA ResetHolds ==
  ASSUME IInv, reset \/ bzero
  PROVE  IInv'
<1>1. /\ cur_' = 0 /\ text' = <<>> /\ number' = <<>> /\ overrun' = overrun
      /\ data_' = data_ \/ data_' = [i \in 1 .. SIZE |-> NUL]
  BY DEF reset, bzero
<1>2. SIZE \in Nat \ {0} /\ NUL \in Character
  BY StreamAssumption DEF Character
<1>3. data_' \in [1 .. SIZE -> Character]
  BY <1>1, <1>2 DEF IInv, StreamType
<1>4. text' \in Seq(Character)
  BY <1>1
<1>5. StreamType'
  BY <1>1, <1>2, <1>3, <1>4 DEF IInv, StreamType
<1>6. HoldsText' /\ HoldsNumber'
  BY <1>1 DEF HoldsText, HoldsNumber
<1> QED
  BY <1>5, <1>6 DEF IInv

LEMMA StutterHolds ==
  ASSUME IInv, UNCHANGED vars
  PROVE  IInv'
BY DEF IInv, StreamType, HoldsText, HoldsNumber, HoldsInteger, vars

LEMMA AppendHolds ==
  ASSUME IInv, NEW s \in Sources, append(s.chars, s.len)
  PROVE  IInv'
<1>1. CASE avail > s.len
  <2>1. PICK chars, len : chars = s.chars /\ len = s.len
    OBVIOUS
  <2>2. ~overrun /\ avail > len /\ CopyAndAdd(chars, len) /\ number' = <<>>
    BY <1>1, <2>1 DEF append
  <2>3. chars \in Seq(Character) /\ len \in Nat
    BY <2>1, SourceType
  <2>4. StreamType' /\ HoldsText'
    BY <2>2, <2>3, CopyHolds
  <2>5. HoldsNumber'
    BY <2>2 DEF HoldsNumber
  <2> QED
    BY <2>4, <2>5 DEF IInv
<1>2. CASE ~ (avail > s.len)
  BY <1>2, StutterHolds DEF append
<1> QED
  BY <1>1, <1>2

\* A number of fewer characters than the room it wants.
LEMMA NumberHolds ==
  ASSUME IInv, NEW chars \in Seq(Character), Len(chars) < kMaxNumericSize,
         NEW appended, AppendNumber(chars, appended),
         \/ appended = <<>>
         \/ \E v \in Values : appended = <<v, cur_ + 1>> /\ chars = convert(v)
  PROVE  IInv'
<1>1. CASE avail >= kMaxNumericSize
  <2>1. ~overrun /\ CopyAndAdd(chars, Len(chars)) /\ number' = appended
    BY <1>1 DEF AppendNumber
  <2>2. Len(chars) \in Nat /\ cur_ \in Nat /\ avail > Len(chars)
    <3>1. Len(chars) \in Nat /\ kMaxNumericSize \in Nat /\ SIZE \in Nat /\ cur_ \in 0 .. SIZE - 1
      BY StreamAssumption DEF IInv, StreamType
    <3> QED
      BY <1>1, <3>1 DEF avail
  <2>3. /\ StreamType' /\ HoldsText' /\ cur_' = cur_ + Len(chars)
        /\ ~overrun' => \A j \in 1 .. Len(chars) : data_'[cur_ + j] = chars[j]
    BY <2>1, <2>2, CopyHolds
  <2>4. HoldsNumber'
    <3> SUFFICES ASSUME ~overrun', number' # <<>>
                 PROVE  HoldsInteger(number[1], number[2])'
      BY DEF HoldsNumber
    <3>1. PICK v \in Values : appended = <<v, cur_ + 1>> /\ chars = convert(v)
      BY <2>1
    <3>2. number'[1] = v /\ number'[2] = cur_ + 1
      BY <2>1, <3>1
    <3>3. cur_ + 1 \in 1 .. cur_' + 1 /\ cur_' = (cur_ + 1) - 1 + Len(chars)
      BY <2>2, <2>3
    <3>4. \A j \in 1 .. Len(chars) : data_'[(cur_ + 1) - 1 + j] = chars[j]
      <4>1. (cur_ + 1) - 1 = cur_
        BY <2>2
      <4> QED
        BY <2>3, <4>1
    <3> QED
      BY <3>1, <3>2, <3>3, <3>4 DEF HoldsInteger
  <2> QED
    BY <2>3, <2>4 DEF IInv
<1>2. CASE ~ (avail >= kMaxNumericSize)
  BY <1>2, StutterHolds DEF AppendNumber
<1> QED
  BY <1>1, <1>2

LEMMA IntegerHolds ==
  ASSUME IInv, NEW v \in Values, formatInteger(v)
  PROVE  IInv'
<1>1. v \in Int
  BY StreamAssumption
<1>2. convert(v) \in Seq(Character) /\ Len(convert(v)) < kMaxNumericSize
  BY <1>1, ConvertReadsBack, RoomAssumption
<1>3. AppendNumber(convert(v), <<v, cur_ + 1>>)
  BY DEF formatInteger
<1> QED
  BY <1>2, <1>3, NumberHolds

LEMMA PointerText ==
  ASSUME NEW p \in Addresses, AppendPointer(p)
  PROVE  \E chars \in Seq(Character) :
           Len(chars) < kMaxNumericSize /\ AppendNumber(chars, <<>>)
<1>1. PICK hex : hex = convertHex(p)
  OBVIOUS
<1>2. hex \in Seq(Character) /\ 2 + Len(hex) < kMaxNumericSize
  <2>1. p \in Nat
    BY StreamAssumption
  <2> QED
    BY <1>1, <2>1, ConvertHexType, RoomAssumption
<1>3. PICK chars : chars = <<"0", "x">> \o hex
  OBVIOUS
<1>4. chars \in Seq(Character) /\ Len(chars) < kMaxNumericSize
  <2>1. PICK zero, x : zero = "0" /\ x = "x"
    OBVIOUS
  <2>2. zero \in Character /\ x \in Character
    BY <2>1 DEF Character
  <2>3. <<zero, x>> \in Seq(Character) /\ Len(<<zero, x>>) = 2
    BY <2>2
  <2>4. chars = <<zero, x>> \o hex
    BY <1>3, <2>1
  <2> QED
    BY <1>2, <2>3, <2>4, ConcatProperties
<1>5. AppendNumber(chars, <<>>)
  BY <1>1, <1>3 DEF AppendPointer
<1> QED
  BY <1>4, <1>5

LEMMA PointerHolds ==
  ASSUME IInv, NEW p \in Addresses, AppendPointer(p)
  PROVE  IInv'
<1>1. PICK chars \in Seq(Character) :
        Len(chars) < kMaxNumericSize /\ AppendNumber(chars, <<>>)
  BY PointerText
<1> QED
  BY <1>1, NumberHolds

LEMMA StepHolds ==
  ASSUME IInv, [Next]_vars
  PROVE  IInv'
<1>1. CASE \E s \in Sources : append(s.chars, s.len)
  BY <1>1, AppendHolds
<1>2. CASE \E v \in Values : formatInteger(v)
  BY <1>2, IntegerHolds
<1>3. CASE \E p \in Addresses : AppendPointer(p)
  BY <1>3, PointerHolds
<1>4. CASE reset \/ bzero
  BY <1>4, ResetHolds
<1>5. CASE Undefined \/ UNCHANGED vars
  BY <1>5, StutterHolds DEF Undefined
<1> QED
  BY <1>1, <1>2, <1>3, <1>4, <1>5 DEF Next

LEMMA Invariance == Spec => []IInv
<1>1. IInv /\ [Next]_vars => IInv'
  BY StepHolds
<1> QED
  BY <1>1, InitHolds, PTL DEF Spec

-----------------------------------------------------------------------------
LEMMA SubSeqOfData ==
  ASSUME NEW S, NEW n \in Nat, NEW d \in [1 .. n -> S],
         NEW place \in Nat, NEW s \in Seq(S), place - 1 + Len(s) <= n, place >= 1,
         \A j \in 1 .. Len(s) : d[place - 1 + j] = s[j]
  PROVE  SubSeq(d, place, place - 1 + Len(s)) = s
<1> DEFINE last == place - 1 + Len(s)
           t == SubSeq(d, place, last)
<1>1. Len(s) \in Nat /\ last \in Nat /\ last - place + 1 = Len(s) /\ d \in Seq(S) /\ Len(d) = n
  OBVIOUS
<1>2. /\ t \in Seq(S) /\ Len(t) = Len(s)
      /\ \A j \in 1 .. Len(s) : t[j] = d[place - 1 + j]
  <2>1. t = [j \in 1 .. Len(s) |-> d[place - 1 + j]]
    BY <1>1
  <2>2. \A j \in 1 .. Len(s) : d[place - 1 + j] \in S
    BY <1>1
  <2> HIDE DEF t
  <2> QED
    BY <1>1, <2>1, <2>2
<1> HIDE DEF t
<1>3. t = s
  BY <1>2, SameSequence
<1> QED
  BY <1>3 DEF t

\* The length() characters at data() are the texts and numbers that had room, in order
\* and whole up to a NUL inside, and a NUL has room behind them (FixedBuffer::append(),
\* add(), reset(), LogStream::formatInteger() and operator<< for a pointer).
THEOREM TextCorrect == Spec => []TextIsWhatWasAppended
<1>1. IInv => TextIsWhatWasAppended
  <2>1. cur_ \in 0 .. SIZE - 1 /\ SIZE \in Nat => cur_ < SIZE
    OBVIOUS
  <2> QED
    BY <2>1, StreamAssumption DEF IInv, StreamType, HoldsText, TextIsWhatWasAppended
<1> QED
  BY <1>1, Invariance, PTL

\* A text or number that fits, with len for all of its characters, fits with its NUL.
LEMMA CopyFits ==
  ASSUME IInv, NEW chars \in Seq(Character), NEW len \in Nat, ~ (len < Len(chars)),
         avail > len, CopyAndAdd(chars, len)
  PROVE  ~overrun'
<1>1. SIZE \in Nat /\ cur_ \in Nat /\ Len(chars) \in Nat
  BY StreamAssumption DEF IInv, StreamType
<1>2. ~ (cur_ + Len(chars) + 1 > SIZE)
  BY <1>1 DEF avail
<1> QED
  BY <1>2, Zenon DEF CopyAndAdd

\* strcpy() writes past data_ only where the test of append() does not see all that it
\* copies: with a source that has more characters than its len.
THEOREM RoomCorrect == Spec => OverrunOnlyByLongerSource
<1> DEFINE Longer == \E s \in Sources : s.len < Len(s.chars) /\ append(s.chars, s.len)
<1>1. ASSUME IInv, Next PROVE UNCHANGED vars \/ (overrun' => Longer)
  <2>1. ASSUME NEW s \in Sources, append(s.chars, s.len), ~ (s.len < Len(s.chars))
        PROVE  UNCHANGED vars \/ ~overrun'
    <3>1. CASE avail > s.len
      <4>1. PICK chars, len : chars = s.chars /\ len = s.len
        OBVIOUS
      <4>2. chars \in Seq(Character) /\ len \in Nat /\ ~ (len < Len(chars))
        BY <2>1, <4>1, SourceType
      <4>3. avail > len /\ CopyAndAdd(chars, len)
        BY <2>1, <3>1, <4>1 DEF append
      <4> QED
        BY <1>1, <4>2, <4>3, CopyFits
    <3>2. CASE ~ (avail > s.len)
      BY <2>1, <3>2 DEF append
    <3> QED
      BY <3>1, <3>2
  <2>2. ASSUME NEW chars \in Seq(Character), Len(chars) < kMaxNumericSize,
               NEW appended, AppendNumber(chars, appended)
        PROVE  UNCHANGED vars \/ ~overrun'
    <3>1. CASE avail >= kMaxNumericSize
      <4>1. Len(chars) \in Nat /\ ~ (Len(chars) < Len(chars)) /\ avail > Len(chars)
        <5>1. /\ Len(chars) \in Nat /\ kMaxNumericSize \in Nat /\ SIZE \in Nat
              /\ cur_ \in 0 .. SIZE - 1
          BY <1>1, StreamAssumption DEF IInv, StreamType
        <5> QED
          BY <2>2, <3>1, <5>1 DEF avail
      <4>2. CopyAndAdd(chars, Len(chars))
        BY <2>2, <3>1 DEF AppendNumber
      <4> QED
        BY <1>1, <4>1, <4>2, CopyFits
    <3>2. CASE ~ (avail >= kMaxNumericSize)
      BY <2>2, <3>2 DEF AppendNumber
    <3> QED
      BY <3>1, <3>2
  <2>3. CASE \E s \in Sources : append(s.chars, s.len)
    BY <2>1, <2>3
  <2>4. CASE \E v \in Values : formatInteger(v)
    <3>1. PICK v \in Values : AppendNumber(convert(v), <<v, cur_ + 1>>)
      BY <2>4 DEF formatInteger
    <3>2. convert(v) \in Seq(Character) /\ Len(convert(v)) < kMaxNumericSize
      BY StreamAssumption, ConvertReadsBack, RoomAssumption
    <3> QED
      BY <2>2, <3>1, <3>2
  <2>5. CASE \E p \in Addresses : AppendPointer(p)
    <3>1. PICK p \in Addresses : AppendPointer(p)
      BY <2>5
    <3>2. PICK chars : /\ chars \in Seq(Character) /\ Len(chars) < kMaxNumericSize
                       /\ AppendNumber(chars, <<>>)
      BY <3>1, PointerText
    <3> QED
      BY <2>2, <3>2
  <2>6. CASE reset \/ bzero
    BY <2>6 DEF reset, bzero
  <2>7. CASE Undefined
    BY <2>7 DEF Undefined
  <2> QED
    BY <1>1, <2>3, <2>4, <2>5, <2>6, <2>7 DEF Next
<1>2. IInv /\ [Next]_vars => [overrun' => Longer]_vars
  BY <1>1
<1> QED
  BY <1>2, Invariance, PTL DEF Spec, OverrunOnlyByLongerSource

\* The characters of the integer appended last read back as that integer: a sign, and
\* digits without a leading zero, also of a negative one
\* (convert(), LogStream::formatInteger()).
THEOREM IntegersCorrect == Spec => []IntegersReadBack
<1>1. ASSUME IInv PROVE IntegersReadBack
  <2> SUFFICES ASSUME number # <<>>, ~overrun
               PROVE  ReadsBack(number[1], SubSeq(data_, number[2], cur_))
    BY DEF IntegersReadBack, ReadsBack
  <2>1. PICK v, place : v = number[1] /\ place = number[2]
    OBVIOUS
  <2>2. HoldsInteger(v, place)
    BY <1>1, <2>1 DEF IInv, HoldsNumber
  <2>3. PICK chars : chars = convert(v)
    OBVIOUS
  <2>4. chars \in Seq(Character) /\ ReadsBack(v, chars)
    <3>1. v \in Int
      BY <2>2, StreamAssumption DEF HoldsInteger
    <3> QED
      BY <2>3, <3>1, ConvertReadsBack
  <2>5. /\ SIZE \in Nat /\ cur_ \in 0 .. SIZE - 1 /\ data_ \in [1 .. SIZE -> Character]
        /\ place \in 1 .. cur_ + 1 /\ cur_ = place - 1 + Len(chars)
        /\ \A j \in 1 .. Len(chars) : data_[place - 1 + j] = chars[j]
    BY <1>1, <2>2, <2>3, StreamAssumption DEF IInv, StreamType, HoldsInteger
  <2>6. place \in Nat /\ place >= 1 /\ place - 1 + Len(chars) <= SIZE
    BY <2>5
  <2>7. SubSeq(data_, place, place - 1 + Len(chars)) = chars
    BY <2>4, <2>5, <2>6, SubSeqOfData
  <2>8. SubSeq(data_, place, cur_) = chars
    BY <2>5, <2>7
  <2> QED
    BY <2>1, <2>4, <2>8
<1> QED
  BY <1>1, Invariance, PTL
=============================================================================
