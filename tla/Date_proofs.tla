----------------------------- MODULE Date_proofs -----------------------------
(***************************************************************************)
(* The date arithmetic is right for every date with a positive Julian day  *)
(* number, not only for the 400 years that TLC walks through, and so are   *)
(* the conversions between seconds and UTC.  Local times are right in      *)
(* every zone whose transitions are in order, and convert back in every    *)
(* zone whose summer time is an hour ahead.                                *)
(*                                                                         *)
(* Both functions count years from March, so that the leap day ends a      *)
(* year.  March(year, month) and Month(month) are the year and the month   *)
(* counted that way.                                                       *)
(***************************************************************************)
EXTENDS TimeZone, SequenceTheorems, WellFoundedInduction, TLAPS

-----------------------------------------------------------------------------
(***************************************************************************)
(* Numbers.                                                                *)
(***************************************************************************)
\* Induction over the natural numbers, for a set of them.
LEMMA SetInduction ==
  ASSUME NEW T, 0 \in T, \A n \in Nat : n \in T => n + 1 \in T
  PROVE  Nat \subseteq T
<1> DEFINE out == Nat \ T
<1> SUFFICES ASSUME out # {} PROVE FALSE
  OBVIOUS
<1>1. \E x \in out : \A y \in out : ~ (<<y, x>> \in OpToRel(<, Nat))
  <2>1. out \subseteq Nat /\ IsWellFoundedOn(OpToRel(<, Nat), Nat)
    BY NatLessThanWellFounded
  <2> HIDE DEF out
  <2> QED
    BY <2>1, WFMin
<1>2. PICK x \in out : \A y \in out : ~ (<<y, x>> \in OpToRel(<, Nat))
  BY <1>1
<1>3. \A y \in out : ~ (y < x)
  BY <1>2 DEF OpToRel
<1>4. x \in Nat /\ x # 0
  OBVIOUS
<1>5. x - 1 \in Nat /\ x - 1 < x /\ (x - 1) + 1 = x
  BY <1>4
<1>6. x - 1 \in T
  BY <1>3, <1>5
<1> QED
  BY <1>5, <1>6

\* A set of numbers has a least element.
LEMMA Least ==
  ASSUME NEW S, S \subseteq Nat, S # {}
  PROVE  \E x \in S : \A y \in S : x <= y
<1> SUFFICES ASSUME \A x \in S : ~ \A y \in S : x <= y
             PROVE  FALSE
  OBVIOUS
<1> DEFINE T == {n \in Nat : \A y \in S : n <= y}
<1>1. 0 \in T
  OBVIOUS
<1>2. ASSUME NEW n \in Nat, n \in T PROVE n + 1 \in T
  <2>1. n \notin S /\ \A y \in S : n <= y
    BY <1>2
  <2>2. \A y \in S : n + 1 <= y
    BY <2>1
  <2> QED
    BY <2>2
<1>3. Nat \subseteq T
  <2> HIDE DEF T
  <2> QED
    BY <1>1, <1>2, SetInduction
<1>4. PICK x \in S : TRUE
  OBVIOUS
<1>5. x + 1 \in T
  BY <1>3, <1>4
<1> QED
  BY <1>4, <1>5

\* A bounded set of numbers has a greatest element.
LEMMA Greatest ==
  ASSUME NEW n \in Nat, NEW S, S \subseteq 1 .. n, S # {}
  PROVE  \E x \in S : \A y \in S : x >= y
<1> DEFINE mirror == {n - x : x \in S}
<1>1. mirror \subseteq Nat /\ mirror # {}
  <2>1. \A x \in S : n - x \in Nat
    OBVIOUS
  <2>2. mirror \subseteq Nat
    BY <2>1
  <2>3. mirror # {}
    OBVIOUS
  <2> QED
    BY <2>2, <2>3
<1>2. PICK m \in mirror : \A k \in mirror : m <= k
  <2> HIDE DEF mirror
  <2> QED
    BY <1>1, Least
<1>3. PICK x \in S : m = n - x
  BY <1>2
<1>4. \A y \in S : n - x <= n - y
  BY <1>2, <1>3
<1> QED
  BY <1>3, <1>4

-----------------------------------------------------------------------------
\* The dates there are.
ValidDate ==
  [year : Int, month : 1 .. 12, day : 1 .. 31]

OnCalendar(ymd) ==
  /\ ymd \in ValidDate
  /\ ymd.year >= -4714
  /\ ymd.day <= DaysOfMonth(ymd.year, ymd.month)

Julian(ymd) == getJulianDayNumber(ymd.year, ymd.month, ymd.day)

March(year, month) == IF month <= 2 THEN year + 4799 ELSE year + 4800
Month(month) == IF month <= 2 THEN month + 9 ELSE month - 3

\* Days of the March years before y, and of the months before m in it.
DaysOfYears(y) == 365 * y + (y \div 4) - (y \div 100) + (y \div 400)
DaysOfMonths(m) == (153 * m + 2) \div 5

\* What getJulianDayNumber() comes to, from the year that it does not count below 0.
CountedByMarch(year, month, day) ==
  day + DaysOfMonths(Month(month)) + DaysOfYears(March(year, month)) - 32045
InRange(year) == year \in Int /\ year >= -4799

\* getJulianDayNumber() in terms of March years.
LEMMA JulianByMarch ==
  ASSUME NEW year, InRange(year), NEW month \in 1 .. 12, NEW day \in Int
  PROVE  getJulianDayNumber(year, month, day) = CountedByMarch(year, month, day)
<1> DEFINE a == Quotient(14 - month, 12)
           y == year + 4800 - a
           m == month + 12 * a - 3
<1>1. a = IF month <= 2 THEN 1 ELSE 0
  BY DEF Quotient
<1>2. y = March(year, month) /\ m = Month(month) /\ y \in Nat /\ m \in 0 .. 11
  BY <1>1 DEF March, Month, InRange
<1>3. /\ Quotient(153 * m + 2, 5) = (153 * m + 2) \div 5
      /\ Quotient(y, 4) = y \div 4
      /\ Quotient(y, 100) = y \div 100
      /\ Quotient(y, 400) = y \div 400
  BY <1>2 DEF Quotient
<1>4. getJulianDayNumber(year, month, day)
        = day + Quotient(153 * m + 2, 5) + y * 365
            + Quotient(y, 4) - Quotient(y, 100) + Quotient(y, 400) - 32045
  BY DEF getJulianDayNumber
<1>5. getJulianDayNumber(year, month, day)
        = day + ((153 * m + 2) \div 5) + y * 365 + (y \div 4) - (y \div 100) + (y \div 400) - 32045
  BY <1>3, <1>4
<1>6. (153 * m + 2) \div 5 = DaysOfMonths(m)
  BY DEF DaysOfMonths
<1>7. y * 365 + (y \div 4) - (y \div 100) + (y \div 400) = DaysOfYears(y)
  BY <1>2 DEF DaysOfYears
<1>8. /\ (153 * m + 2) \div 5 \in Int
      /\ y \div 4 \in Int /\ y \div 100 \in Int /\ y \div 400 \in Int
  BY <1>2
<1> HIDE DEF a, y, m
<1>9. getJulianDayNumber(year, month, day) = day + DaysOfMonths(m) + DaysOfYears(y) - 32045
  BY <1>2, <1>5, <1>6, <1>7, <1>8
<1> QED
  BY <1>2, <1>9 DEF CountedByMarch

\* The same for a date made by its constructor.
LEMMA JulianOfRecord ==
  ASSUME NEW year, InRange(year), NEW month \in 1 .. 12, NEW day \in Int
  PROVE  Julian(YearMonthDay(year, month, day)) = CountedByMarch(year, month, day)
<1>1. Julian(YearMonthDay(year, month, day)) = getJulianDayNumber(year, month, day)
  BY DEF Julian, YearMonthDay
<1> QED
  BY <1>1, JulianByMarch

\* Months have 28 to 31 days.
LEMMA DaysOfMonthType ==
  ASSUME NEW year \in Int, NEW month \in 1 .. 12
  PROVE  DaysOfMonth(year, month) \in 28 .. 31
BY DEF DaysOfMonth

\* The day after has the next Julian day number.
LEMMA JulianOfDayAfter ==
  ASSUME NEW ymd, OnCalendar(ymd)
  PROVE  OnCalendar(DayAfter(ymd)) /\ Julian(DayAfter(ymd)) = Julian(ymd) + 1
<1> DEFINE year == ymd.year
           month == ymd.month
           day == ymd.day
<1>1. /\ year \in Int /\ year >= -4714 /\ month \in 1 .. 12 /\ day \in 1 .. 31
      /\ day <= DaysOfMonth(year, month)
  BY DEF OnCalendar, ValidDate
<1>0. InRange(year) /\ InRange(year + 1)
  BY <1>1 DEF InRange
<1>2. Julian(ymd) = CountedByMarch(year, month, day)
  <2>1. Julian(ymd) = getJulianDayNumber(year, month, day)
    BY DEF Julian
  <2> HIDE DEF year, month, day
  <2> QED
    BY <1>0, <1>1, <2>1, JulianByMarch
<1> HIDE DEF year, month, day
<1>3. CASE day < DaysOfMonth(year, month)
  <2>1. DayAfter(ymd) = YearMonthDay(year, month, day + 1)
    BY <1>3 DEF DayAfter, year, month, day
  <2>2. day + 1 \in 1 .. 31
    BY <1>1, <1>3, DaysOfMonthType
  <2>3. OnCalendar(YearMonthDay(year, month, day + 1))
    <3>1. YearMonthDay(year, month, day + 1) \in ValidDate
      BY <1>1, <2>2 DEF ValidDate, YearMonthDay
    <3>2. day + 1 <= DaysOfMonth(year, month)
      BY <1>1, <1>3, DaysOfMonthType
    <3> QED
      BY <1>1, <3>1, <3>2 DEF OnCalendar, YearMonthDay
  <2>4. Julian(YearMonthDay(year, month, day + 1))
          = CountedByMarch(year, month, day + 1)
    BY <1>0, <1>1, <2>2, JulianOfRecord
  <2>5. DaysOfMonths(Month(month)) \in Int /\ DaysOfYears(March(year, month)) \in Int
    BY <1>1 DEF DaysOfMonths, DaysOfYears, Month, March
  <2> QED
    BY <1>1, <1>2, <2>1, <2>3, <2>4, <2>5 DEF CountedByMarch
<1>4. CASE day = DaysOfMonth(year, month) /\ month < 12
  <2>1. DayAfter(ymd) = YearMonthDay(year, month + 1, 1)
    BY <1>1, <1>4 DEF DayAfter, year, month, day
  <2>2. OnCalendar(YearMonthDay(year, month + 1, 1))
    BY <1>1, <1>4 DEF OnCalendar, ValidDate, YearMonthDay, DaysOfMonth
  <2>3. Julian(YearMonthDay(year, month + 1, 1))
          = CountedByMarch(year, month + 1, 1)
    BY <1>0, <1>1, <1>4, JulianOfRecord
  <2>4. CASE month = 2
    <3>1. /\ March(year, month) = year + 4799 /\ March(year, month + 1) = year + 4800
          /\ Month(month) = 11 /\ Month(month + 1) = 0
      BY <2>4 DEF March, Month
    <3>2. DaysOfMonths(11) = 337 /\ DaysOfMonths(0) = 0
      BY DEF DaysOfMonths
    <3>3. DaysOfYears(year + 4800) - DaysOfYears(year + 4799) = IF IsLeap(year) THEN 366 ELSE 365
      BY <1>1 DEF DaysOfYears, IsLeap
    <3>4. day = IF IsLeap(year) THEN 29 ELSE 28
      BY <1>4, <2>4 DEF DaysOfMonth
    <3>5. DaysOfYears(year + 4800) \in Int /\ DaysOfYears(year + 4799) \in Int
      BY <1>1 DEF DaysOfYears
    <3> QED
      BY <1>2, <2>1, <2>2, <2>3, <3>1, <3>2, <3>3, <3>4, <3>5 DEF CountedByMarch
  <2>5. CASE month # 2
    <3>1. March(year, month + 1) = March(year, month) /\ Month(month + 1) = Month(month) + 1
      BY <1>1, <1>4, <2>5 DEF March, Month
    <3>2. DaysOfMonths(Month(month) + 1) - DaysOfMonths(Month(month)) = day
      BY <1>1, <1>4, <2>5 DEF DaysOfMonths, Month, DaysOfMonth
    <3>3. /\ DaysOfMonths(Month(month)) \in Int /\ DaysOfMonths(Month(month) + 1) \in Int
          /\ DaysOfYears(March(year, month)) \in Int
      BY <1>1 DEF DaysOfMonths, DaysOfYears, Month, March
    <3> QED
      BY <1>1, <1>2, <2>1, <2>2, <2>3, <3>1, <3>2, <3>3 DEF CountedByMarch
  <2> QED
    BY <2>4, <2>5
<1>5. CASE day = DaysOfMonth(year, month) /\ month = 12
  <2>1. DayAfter(ymd) = YearMonthDay(year + 1, 1, 1)
    BY <1>1, <1>5 DEF DayAfter, year, month, day
  <2>2. OnCalendar(YearMonthDay(year + 1, 1, 1))
    BY <1>1 DEF OnCalendar, ValidDate, YearMonthDay, DaysOfMonth
  <2>3. Julian(YearMonthDay(year + 1, 1, 1))
          = CountedByMarch(year + 1, 1, 1)
    BY <1>0, <1>1, JulianOfRecord
  <2>4. /\ March(year + 1, 1) = year + 4800 /\ March(year, 12) = year + 4800
        /\ Month(1) = 10 /\ Month(12) = 9
    BY <1>1 DEF March, Month
  <2>5. DaysOfMonths(10) = 306 /\ DaysOfMonths(9) = 275 /\ day = 31
    BY <1>5 DEF DaysOfMonths, DaysOfMonth
  <2>6. DaysOfYears(year + 4800) \in Int
    BY <1>1 DEF DaysOfYears
  <2> QED
    BY <1>2, <1>5, <2>1, <2>2, <2>3, <2>4, <2>5, <2>6 DEF CountedByMarch
<1> QED
  BY <1>1, <1>3, <1>4, <1>5 DEF DaysOfMonth

-----------------------------------------------------------------------------
(***************************************************************************)
(* The calendar and the Julian day numbers.                                *)
(***************************************************************************)
\* 1970-01-01, from which the calendar and toUtcTime() count.
LEMMA JulianOf1970 ==
  /\ OnCalendar(YearMonthDay(1970, 1, 1))
  /\ Julian(YearMonthDay(1970, 1, 1)) = kJulianDayOf1970_01_01
  /\ kJulianDayOf1970_01_01 = 2440588
<1>1. OnCalendar(YearMonthDay(1970, 1, 1))
  BY DEF OnCalendar, ValidDate, YearMonthDay, DaysOfMonth
<1>2. Julian(YearMonthDay(1970, 1, 1)) = kJulianDayOf1970_01_01
  BY DEF Julian, YearMonthDay, kJulianDayOf1970_01_01
<1>3. InRange(1970)
  BY DEF InRange
<1>4. kJulianDayOf1970_01_01 = CountedByMarch(1970, 1, 1)
  BY <1>3, JulianByMarch DEF kJulianDayOf1970_01_01
<1>5. CountedByMarch(1970, 1, 1) = 2440588
  BY DEF CountedByMarch, DaysOfMonths, DaysOfYears, March, Month
<1> QED
  BY <1>1, <1>2, <1>4, <1>5

\* The year is bounded below because its Julian day number is.
LEMMA YearOfPositiveJulian ==
  ASSUME NEW ymd, OnCalendar(ymd), Julian(ymd) >= 1, ymd.month = 1, ymd.day = 1
  PROVE  ymd.year - 1 >= -4714
<1>1. ymd.year \in Int /\ ymd.year >= -4714
  BY DEF OnCalendar, ValidDate
<1>2. SUFFICES ASSUME ymd.year = -4714 PROVE FALSE
  BY <1>1
<1>3. InRange(-4714)
  BY DEF InRange
<1>4. Julian(ymd) = CountedByMarch(-4714, 1, 1)
  BY <1>2, <1>3, JulianByMarch DEF Julian
<1>5. CountedByMarch(-4714, 1, 1) = -692
  BY DEF CountedByMarch, DaysOfMonths, DaysOfYears, March, Month
<1> QED
  BY <1>4, <1>5

\* The calendar goes back the way it came.
LEMMA DayBeforeDayAfter ==
  ASSUME NEW ymd, OnCalendar(ymd), Julian(ymd) >= 1
  PROVE  OnCalendar(DayBefore(ymd)) /\ DayAfter(DayBefore(ymd)) = ymd
<1>1. /\ ymd = YearMonthDay(ymd.year, ymd.month, ymd.day)
      /\ ymd.year \in Int /\ ymd.year >= -4714
      /\ ymd.month \in 1 .. 12 /\ ymd.day \in 1 .. 31
      /\ ymd.day <= DaysOfMonth(ymd.year, ymd.month)
  BY DEF OnCalendar, ValidDate, YearMonthDay
<1>2. CASE ymd.day > 1
  BY <1>1, <1>2, DaysOfMonthType DEF DayBefore, DayAfter, OnCalendar, ValidDate, YearMonthDay
<1>3. CASE ymd.day = 1 /\ ymd.month > 1
  <2> DEFINE last == DaysOfMonth(ymd.year, ymd.month - 1)
  <2>1. DayBefore(ymd) = YearMonthDay(ymd.year, ymd.month - 1, last)
    BY <1>3 DEF DayBefore
  <2>2. last \in 28 .. 31
    BY <1>1, <1>3, DaysOfMonthType
  <2>3. OnCalendar(YearMonthDay(ymd.year, ymd.month - 1, last))
    BY <1>1, <1>3, <2>2 DEF OnCalendar, ValidDate, YearMonthDay
  <2>4. DayAfter(YearMonthDay(ymd.year, ymd.month - 1, last)) = YearMonthDay(ymd.year, ymd.month, 1)
    BY <1>1, <1>3, <2>2 DEF DayAfter, YearMonthDay
  <2> QED
    BY <1>1, <1>3, <2>1, <2>3, <2>4
<1>4. CASE ymd.day = 1 /\ ymd.month = 1
  <2>1. DayBefore(ymd) = YearMonthDay(ymd.year - 1, 12, 31)
    BY <1>1, <1>4 DEF DayBefore
  <2>2. ymd.year - 1 >= -4714
    BY <1>4, YearOfPositiveJulian
  <2>3. OnCalendar(YearMonthDay(ymd.year - 1, 12, 31))
    BY <1>1, <2>2 DEF OnCalendar, ValidDate, YearMonthDay, DaysOfMonth
  <2>4. DayAfter(YearMonthDay(ymd.year - 1, 12, 31)) = YearMonthDay(ymd.year, 1, 1)
    BY <1>1 DEF DayAfter, YearMonthDay, DaysOfMonth
  <2> QED
    BY <1>1, <1>4, <2>1, <2>3, <2>4
<1> QED
  BY <1>1, <1>2, <1>3, <1>4

\* The inductive invariant.
CalendarInv ==
  /\ OnCalendar(date)
  /\ days \in FirstDay .. LastDay
  /\ Julian(date) = kJulianDayOf1970_01_01 + days

\* The first leaf has it, and a leaf that is turned keeps it.
LEMMA CalendarInvInit == Init => CalendarInv
BY JulianOf1970, DateAssumption DEF Init, CalendarInv

LEMMA CalendarInvStep == CalendarInv /\ [Next]_vars => CalendarInv'
<1> SUFFICES ASSUME CalendarInv, [Next]_vars PROVE CalendarInv'
  OBVIOUS
<1>1. /\ days \in Int /\ LastDay \in Nat
      /\ FirstDay \in Int /\ FirstDay <= 0 /\ FirstDay >= -2440587
  BY DateAssumption DEF CalendarInv
<1>2. CASE Forward
  <2>1. OnCalendar(date') /\ Julian(date') = Julian(date) + 1
    BY <1>2, JulianOfDayAfter DEF CalendarInv, Forward
  <2>2. days' = days + 1 /\ days' \in FirstDay .. LastDay
    BY <1>1, <1>2 DEF Forward
  <2> QED
    BY <1>1, <2>1, <2>2, JulianOf1970 DEF CalendarInv
<1>3. CASE Backward
  <2>1. days' = days - 1 /\ days' \in FirstDay .. LastDay
    BY <1>1, <1>3 DEF Backward
  <2>2. Julian(date) >= 1
    BY <1>1, <2>1, JulianOf1970 DEF CalendarInv
  <2>3. OnCalendar(date') /\ DayAfter(date') = date
    BY <1>3, <2>2, DayBeforeDayAfter DEF CalendarInv, Backward
  <2>4. Julian(date) = Julian(date') + 1
    BY <2>3, JulianOfDayAfter
  <2>5. Julian(date') \in Int
    <3>1. date'.year \in Int /\ InRange(date'.year) /\ date'.month \in 1 .. 12 /\ date'.day \in Int
      BY <2>3 DEF OnCalendar, ValidDate, InRange
    <3>2. Julian(date') = CountedByMarch(date'.year, date'.month, date'.day)
      BY <3>1, JulianByMarch DEF Julian
    <3> QED
      BY <3>1, <3>2 DEF CountedByMarch, DaysOfMonths, DaysOfYears, March, Month
  <2> QED
    BY <1>1, <2>1, <2>3, <2>4, <2>5, JulianOf1970 DEF CalendarInv
<1>4. CASE UNCHANGED vars
  BY <1>4 DEF CalendarInv, vars
<1> QED
  BY <1>2, <1>3, <1>4 DEF Next, Terminated

\* The leaf is a date of the calendar, with the Julian day number that belongs to it.
LEMMA CalendarInvHolds == Spec => []CalendarInv
BY CalendarInvInit, CalendarInvStep, PTL DEF Spec

\* The Julian day number of a leaf, and the day of the week that weekDay() makes of it.
LEMMA JulianDaysInv == CalendarInv => JulianDaysFollowTheCalendar
<1> SUFFICES ASSUME CalendarInv PROVE JulianDaysFollowTheCalendar
  OBVIOUS
<1>1. days \in Int /\ days >= -2440587
  BY DateAssumption DEF CalendarInv
<1>2. Julian(date) = 2440588 + days /\ Julian(date) = kJulianDayOf1970_01_01 + days
  BY JulianOf1970 DEF CalendarInv
<1>3. weekDay(Julian(date)) = (2440589 + days) % 7
  BY <1>1, <1>2 DEF weekDay, Remainder
<1>4. (2440589 + days) % 7 = (days + 4) % 7
  BY <1>1
<1> QED
  BY <1>2, <1>3, <1>4 DEF JulianDaysFollowTheCalendar, Julian

\* On every day with a positive Julian day number, Date's arithmetic counts the days of
\* the Gregorian calendar and gives the right day of the week.
THEOREM JulianDaysCorrect == Spec => []JulianDaysFollowTheCalendar
BY JulianDaysInv, CalendarInvHolds, PTL

-----------------------------------------------------------------------------
(***************************************************************************)
(* Back from the Julian day number.  With B centuries and D years of the   *)
(* March calendar gone, and e days since March 1, the divisions of         *)
(* getYearMonthDay() find B, D and the month one after the other: no       *)
(* remainder is so large that a leap day would make it one too many.       *)
(***************************************************************************)
\* The March year y ends with a leap day.
LeapDay(y) == (y + 1) % 4 = 0 /\ ((y + 1) % 100 # 0 \/ (y + 1) % 400 = 0)

\* The day of the March year.
LEMMA DayOfMarchYear ==
  ASSUME NEW year, InRange(year), NEW month \in 1 .. 12,
         NEW day \in 1 .. 31, day <= DaysOfMonth(year, month),
         NEW e, e = DaysOfMonths(Month(month)) + day - 1
  PROVE  /\ e \in Nat /\ e <= 365
         /\ e = 365 => LeapDay(March(year, month))
         /\ (5 * e + 2) \div 153 = Month(month)
<1>1. CASE month = 2
  <2>1. e = 336 + day /\ Month(month) = 11 /\ March(year, month) + 1 = year + 4800
    BY <1>1 DEF DaysOfMonths, Month, March, InRange
  <2>2. day <= 29 /\ (day = 29 => IsLeap(year))
    BY <1>1 DEF DaysOfMonth
  <2>3. IsLeap(year) => LeapDay(March(year, month))
    BY <2>1 DEF IsLeap, LeapDay, InRange
  <2>4. (5 * e + 2) \div 153 = 11
    BY <2>1, <2>2
  <2> QED
    BY <2>1, <2>2, <2>3, <2>4
<1>2. CASE month # 2
  <2>1. day <= DaysOfMonths(Month(month) + 1) - DaysOfMonths(Month(month))
    BY <1>2 DEF DaysOfMonths, Month, DaysOfMonth
  <2>2. Month(month) \in 0 .. 10
    BY <1>2 DEF Month
  <2> QED
    BY <2>1, <2>2 DEF DaysOfMonths
<1> QED
  BY <1>1, <1>2

\* The centuries and the years of the March calendar.
LEMMA DaysOfCenturies ==
  ASSUME NEW y \in Nat
  PROVE  /\ y = 100 * (y \div 100) + (y % 100)
         /\ y \div 100 \in Nat /\ y % 100 \in 0 .. 99
         /\ DaysOfYears(y) = 36524 * (y \div 100) + ((y \div 100) \div 4)
                               + 365 * (y % 100) + ((y % 100) \div 4)
<1>1. y = 100 * (y \div 100) + (y % 100) /\ y \div 100 \in Nat /\ y % 100 \in 0 .. 99
  OBVIOUS
<1>2. y \div 4 = 25 * (y \div 100) + ((y % 100) \div 4)
  OBVIOUS
<1>3. y \div 400 = (y \div 100) \div 4
  OBVIOUS
<1> QED
  BY <1>1, <1>2, <1>3 DEF DaysOfYears

\* A century of March years has 36524 days and every fourth one a day more.
LEMMA QuartersOfCenturies ==
  ASSUME NEW n \in Nat
  PROVE  (n * 146097) \div 4 = 36524 * n + (n \div 4)
OBVIOUS

\* A year has 365 days and every fourth one a day more.
LEMMA QuartersOfYears ==
  ASSUME NEW n \in Nat
  PROVE  (1461 * n) \div 4 = 365 * n + (n \div 4)
OBVIOUS

\* The divisions of getYearMonthDay(): the centuries in a days, the days of the last
\* century, the years in those, and the days of the last year.
Centuries(a) == (4 * a + 3) \div 146097
CenturyDays(a) == a - ((Centuries(a) * 146097) \div 4)
Years(c) == (4 * c + 3) \div 1461
YearDays(c) == c - ((1461 * Years(c)) \div 4)

\* Days are divided into years of 1461 quarters of a day.
LEMMA YearFound ==
  ASSUME NEW D \in Nat, NEW e \in Nat, e <= 365, e = 365 => D % 4 = 3
  PROVE  (4 * (365 * D + (D \div 4) + e) + 3) \div 1461 = D
<1>1. PICK q, k : q = D \div 4 /\ k = D % 4
  OBVIOUS
<1>2. q \in Nat /\ k \in 0 .. 3 /\ D = 4 * q + k
  BY <1>1
<1>3. PICK r : r = 4 * e + 3 - k
  OBVIOUS
<1>4. r \in 0 .. 1460 /\ 4 * (365 * D + q + e) + 3 = 1461 * D + r
  BY <1>1, <1>2, <1>3
<1>5. (1461 * D + r) \div 1461 = D
  BY <1>4
<1> QED
  BY <1>1, <1>4, <1>5

LEMMA CenturiesAndYears ==
  ASSUME NEW y \in Nat, NEW e \in Nat, e <= 365, e = 365 => LeapDay(y),
         NEW a, a = DaysOfYears(y) + e
  PROVE  /\ a \in Nat /\ Centuries(a) \in Nat /\ CenturyDays(a) \in Nat
         /\ Years(CenturyDays(a)) \in Nat
         /\ 100 * Centuries(a) + Years(CenturyDays(a)) = y
         /\ YearDays(CenturyDays(a)) = e
<1> DEFINE b == Centuries(a)
           c == CenturyDays(a)
           d == Years(c)
<1> DEFINE B == y \div 100
           D == y % 100
<1>1. /\ B \in Nat /\ D \in 0 .. 99 /\ y = 100 * B + D
      /\ a = 36524 * B + (B \div 4) + 365 * D + (D \div 4) + e
  BY DaysOfCenturies
<1>2. e = 365 => D % 4 = 3 /\ (D = 99 => B % 4 = 3)
  BY <1>1 DEF LeapDay
<1>3. /\ b = (4 * a + 3) \div 146097 /\ c = a - ((b * 146097) \div 4)
      /\ d = (4 * c + 3) \div 1461 /\ YearDays(c) = c - ((1461 * d) \div 4)
  BY DEF Centuries, CenturyDays, Years, YearDays
<1> HIDE DEF B, D, b, c, d
<1>4. 365 * D + (D \div 4) + e <= 36523 + (IF B % 4 = 3 THEN 1 ELSE 0)
  BY <1>1, <1>2
<1>5. b = B
  BY <1>1, <1>3, <1>4
<1>6. (b * 146097) \div 4 = 36524 * B + (B \div 4)
  BY <1>1, <1>5, QuartersOfCenturies
<1>7. c = 365 * D + (D \div 4) + e
  <2>1. PICK p, q : p = 36524 * B + (B \div 4) /\ q = 365 * D + (D \div 4)
    OBVIOUS
  <2>2. p \in Int /\ q \in Int /\ a = p + q + e
    BY <1>1, <2>1
  <2>3. c = a - p
    BY <1>3, <1>6, <2>1
  <2> QED
    BY <2>1, <2>2, <2>3
<1>8. d = D
  BY <1>1, <1>2, <1>3, <1>7, YearFound
<1>9. (1461 * d) \div 4 = 365 * D + (D \div 4)
  BY <1>1, <1>8, QuartersOfYears
<1>10. B \div 4 \in Nat /\ D \div 4 \in Nat /\ 365 * D \in Nat /\ 36524 * B \in Nat
  BY <1>1
<1>11. YearDays(c) = e
  BY <1>3, <1>7, <1>9, <1>10
<1>12. a \in Nat /\ c \in Nat
  BY <1>1, <1>7, <1>10
<1>13. b \in Nat /\ d \in Nat /\ 100 * b + d = y
  BY <1>1, <1>5, <1>8
<1> QED
  BY <1>11, <1>12, <1>13 DEF b, c, d

\* getYearMonthDay() is the inverse of getJulianDayNumber().
LEMMA DateOfJulian ==
  ASSUME NEW ymd, OnCalendar(ymd)
  PROVE  getYearMonthDay(Julian(ymd)) = ymd
<1> DEFINE year == ymd.year
           month == ymd.month
           day == ymd.day
           y == March(year, month)
           n == Month(month)
           a == Julian(ymd) + 32044
           b == Quotient(4 * a + 3, 146097)
           c == a - Quotient(b * 146097, 4)
           d == Quotient(4 * c + 3, 1461)
           e == c - Quotient(1461 * d, 4)
           m == Quotient(5 * e + 2, 153)
           e0 == DaysOfMonths(n) + day - 1
<1>1. /\ year \in Int /\ InRange(year) /\ month \in 1 .. 12 /\ day \in 1 .. 31
      /\ day <= DaysOfMonth(year, month) /\ ymd = YearMonthDay(year, month, day)
  BY DEF OnCalendar, ValidDate, InRange, YearMonthDay
<1>2. y \in Nat /\ n \in 0 .. 11 /\ DaysOfMonths(n) \in Int /\ DaysOfYears(y) \in Int
  BY <1>1 DEF March, Month, InRange, DaysOfMonths, DaysOfYears
<1>3. /\ e0 \in Nat /\ e0 <= 365 /\ (e0 = 365 => LeapDay(y))
      /\ (5 * e0 + 2) \div 153 = n
  <2> HIDE DEF year, month, day
  <2> QED
    BY <1>1, DayOfMarchYear
<1>4. a = DaysOfYears(y) + e0
  <2>1. Julian(ymd) = CountedByMarch(year, month, day)
    BY <1>1, JulianByMarch DEF Julian
  <2> HIDE DEF year, month, day
  <2> QED
    BY <1>1, <1>2, <2>1 DEF CountedByMarch
<1>5. getYearMonthDay(Julian(ymd))
        = YearMonthDay(b * 100 + d - 4800 + Quotient(m, 10), m + 3 - 12 * Quotient(m, 10),
                       e - Quotient(153 * m + 2, 5) + 1)
  BY DEF getYearMonthDay
<1> HIDE DEF e0, a
<1> DEFINE b1 == Centuries(a)
           c1 == CenturyDays(a)
           d1 == Years(c1)
<1>6. /\ a \in Nat /\ b1 \in Nat /\ c1 \in Nat /\ d1 \in Nat
      /\ 100 * b1 + d1 = y
      /\ YearDays(c1) = e0
  <2> HIDE DEF y
  <2> QED
    BY <1>2, <1>3, <1>4, CenturiesAndYears
<1>7. b = b1
  BY <1>6, SMTT(30) DEF Quotient, Centuries
<1>8. c = c1
  <2>1. c1 = a - ((b1 * 146097) \div 4)
    BY DEF CenturyDays
  <2> HIDE DEF b, b1, c1
  <2> QED
    BY <1>6, <1>7, <2>1 DEF Quotient
<1>9. d = d1
  <2>1. d1 = (4 * c1 + 3) \div 1461
    BY DEF Years
  <2> HIDE DEF c, c1, d1
  <2> QED
    BY <1>6, <1>8, <2>1 DEF Quotient
<1>10. e = e0
  <2>1. YearDays(c1) = c1 - ((1461 * d1) \div 4)
    BY DEF YearDays
  <2> HIDE DEF d, d1, c, c1
  <2> QED
    BY <1>6, <1>8, <1>9, <2>1 DEF Quotient
<1>11. m = n
  <2> HIDE DEF e, n
  <2> QED
    BY <1>3, <1>10 DEF Quotient
<1>12. Quotient(m, 10) = (IF n >= 10 THEN 1 ELSE 0)
  <2> HIDE DEF m, n
  <2> QED
    BY <1>2, <1>11 DEF Quotient
<1>13. Quotient(153 * m + 2, 5) = DaysOfMonths(n)
  <2> HIDE DEF m, n
  <2> QED
    BY <1>2, <1>11 DEF Quotient, DaysOfMonths
<1>14. b * 100 + d - 4800 + Quotient(m, 10) = year
  <2>1. b * 100 + d = y
    <3> HIDE DEF b, b1, d, d1, y
    <3> QED
      BY <1>6, <1>7, <1>9
  <2>2. y - 4800 + (IF n >= 10 THEN 1 ELSE 0) = year
    BY <1>1 DEF March, Month
  <2> HIDE DEF b, d, m, y, n, year
  <2>3. (IF n >= 10 THEN 1 ELSE 0) \in Int
    OBVIOUS
  <2>4. b \in Int /\ d \in Int
    BY <1>6, <1>7, <1>9
  <2> QED
    BY <1>2, <1>12, <2>1, <2>2, <2>3, <2>4
<1>15. m + 3 - 12 * Quotient(m, 10) = month
  <2>1. n + 3 - 12 * (IF n >= 10 THEN 1 ELSE 0) = month
    BY <1>1 DEF Month
  <2> HIDE DEF m, n
  <2> QED
    BY <1>11, <1>12, <2>1
<1>16. e - Quotient(153 * m + 2, 5) + 1 = day
  <2>1. e0 - DaysOfMonths(n) + 1 = day
    <3> HIDE DEF day, n
    <3> QED
      BY <1>1, <1>2 DEF e0
  <2> HIDE DEF e, m, n, day
  <2> QED
    BY <1>10, <1>13, <2>1
<1> HIDE DEF b, d, e, m, year, month, day
<1> QED
  BY <1>1, <1>5, <1>14, <1>15, <1>16

\* getYearMonthDay() undoes getJulianDayNumber() for every date of the calendar with a
\* positive Julian day number: Date(y, m, d) prints as y-m-d.
THEOREM DatesAlwaysComeBack == Spec => []DatesComeBack
<1>1. CalendarInv => DatesComeBack
  BY DateOfJulian DEF CalendarInv, DatesComeBack, Julian
<1> QED
  BY <1>1, CalendarInvHolds, PTL
-----------------------------------------------------------------------------
(***************************************************************************)
(* Seconds.                                                                *)
(***************************************************************************)
\* The seconds of a day.
LEMMA SecondsPerDay == kSecondsPerDay = 86400
BY DEF kSecondsPerDay

\* One day and one time of day make up a second.
LEMMA OneDayAndRest ==
  ASSUME NEW d \in Int, NEW e \in Int, NEW c \in Int, NEW f \in Int,
         0 <= c, c < 86400, 0 <= f, f < 86400, 86400 * d + c = 86400 * e + f
  PROVE  d = e
OBVIOUS

\* What is divided by a day.
LEMMA DivisionWithRest ==
  ASSUME NEW s \in Int
  PROVE  /\ s = 86400 * (s \div 86400) + (s % 86400)
         /\ s \div 86400 \in Int /\ s % 86400 \in Int
         /\ 0 <= s % 86400 /\ s % 86400 < 86400
<1>1. s = 86400 * (s \div 86400) + (s % 86400)
  OBVIOUS
<1>2. s \div 86400 \in Int
  OBVIOUS
<1>3. s % 86400 \in Int
  OBVIOUS
<1>4. 0 <= s % 86400 /\ s % 86400 < 86400
  OBVIOUS
<1> QED
  BY <1>1, <1>2, <1>3, <1>4, SMT

\* Day d of the calendar is ymd.
IsDay(ymd, d) ==
  OnCalendar(ymd) /\ d \in Int /\ Julian(ymd) = kJulianDayOf1970_01_01 + d

\* The second s is at this time of this day.
IsSecond(s, day, clock) ==
  /\ s \in Int /\ day \in Int /\ clock \in Int
  /\ 0 <= clock /\ clock < 86400
  /\ s = 86400 * day + clock

\* The day and the time of day are the quotient and the rest.
LEMMA DivisionByDay ==
  ASSUME NEW s, NEW day, NEW clock, IsSecond(s, day, clock)
  PROVE  s \div 86400 = day /\ s % 86400 = clock
<1>0. s \in Int
  BY DEF IsSecond
<1>1. PICK e, f : e = s \div 86400 /\ f = s % 86400
  OBVIOUS
<1>2. s = 86400 * e + f /\ e \in Int /\ f \in Int /\ 0 <= f /\ f < 86400
  BY <1>0, <1>1, DivisionWithRest, SMT
<1>3. day = e
  BY <1>2, OneDayAndRest, SMT DEF IsSecond
<1>4. clock = f
  BY <1>2, <1>3, SMT DEF IsSecond
<1> QED
  BY <1>1, <1>3, <1>4, SMT

\* The correction of a negative remainder: before 1970 as after it, the day is the one
\* that began last.
LEMMA DayAndSecondsIs ==
  ASSUME NEW s, NEW d, NEW clock, IsSecond(s, d, clock)
  PROVE  DayAndSeconds(s) = [days |-> d, seconds |-> clock]
<1>1. s \div 86400 = d /\ s % 86400 = clock
  BY DivisionByDay, SMT
<1>2. PICK q, r : q = Quotient(s, 86400) /\ r = Remainder(s, 86400)
  OBVIOUS
<1>3. /\ q = IF s < 0 /\ clock # 0 THEN d + 1 ELSE d
      /\ r = IF s < 0 /\ clock # 0 THEN clock - 86400 ELSE clock
  BY <1>1, <1>2, SMT DEF Quotient, Remainder
<1>4. DayAndSeconds(s) = IF r < 0 THEN [days |-> q - 1, seconds |-> r + 86400]
                         ELSE [days |-> q, seconds |-> r]
  BY <1>2, SecondsPerDay, SMT DEF DayAndSeconds
<1>5. CASE s < 0 /\ clock # 0
  <2>1. q - 1 = d /\ r + 86400 = clock /\ r < 0
    BY <1>3, <1>5, SMT DEF IsSecond
  <2>2. DayAndSeconds(s) = [days |-> q - 1, seconds |-> r + 86400]
    BY <1>4, <2>1, SMT
  <2> QED
    BY <2>1, <2>2, SMT
<1>6. CASE ~ (s < 0 /\ clock # 0)
  <2>1. q = d /\ r = clock /\ ~ (r < 0)
    BY <1>3, <1>6, SMT DEF IsSecond
  <2>2. DayAndSeconds(s) = [days |-> q, seconds |-> r]
    BY <1>4, <2>1, SMT
  <2> QED
    BY <2>1, <2>2, SMT
<1> QED
  BY <1>5, <1>6, SMT

\* What is divided by 60.
LEMMA MinutesAndSeconds ==
  ASSUME NEW n \in Nat
  PROVE  /\ n \div 60 \in Nat /\ n % 60 \in 0 .. 59
         /\ n = 60 * (n \div 60) + (n % 60)
<1>1. n \div 60 \in Nat
  OBVIOUS
<1>2. n % 60 \in 0 .. 59
  OBVIOUS
<1>3. n = 60 * (n \div 60) + (n % 60)
  OBVIOUS
<1> QED
  BY <1>1, <1>2, <1>3

\* The whole minutes and hours of a time of day.
IsClock(h, n, sec, m, clock) == m = 60 * h + n /\ clock = 60 * m + sec

\* A time of day put together.
LEMMA ClockIs ==
  ASSUME NEW h \in Int, NEW n \in Int, NEW sec \in Int, NEW m \in Int, NEW clock,
         IsClock(h, n, sec, m, clock)
  PROVE  h * 3600 + n * 60 + sec = clock
BY DEF IsClock

\* What fromUtcTime() makes of a time of day.
IsTime(hms, clock) ==
  /\ hms.hour \in Nat /\ hms.min \in 0 .. 59 /\ hms.sec \in 0 .. 59
  /\ hms.hour * 3600 + hms.min * 60 + hms.sec = clock

\* fillHMS() breaks down a time of day.
LEMMA HourMinuteSecondIs ==
  ASSUME NEW clock \in Nat
  PROVE  IsTime(HourMinuteSecond(clock), clock)
<1>1. /\ clock \in Nat /\ clock \div 60 \in Nat /\ clock % 60 \in 0 .. 59
      /\ clock = 60 * (clock \div 60) + (clock % 60)
  BY MinutesAndSeconds
<1> DEFINE m == clock \div 60
<1>2. /\ m \div 60 \in Nat /\ m % 60 \in 0 .. 59 /\ m = 60 * (m \div 60) + (m % 60)
  BY <1>1, MinutesAndSeconds
<1>3. (m \div 60) * 3600 + (m % 60) * 60 + (clock % 60) = clock
  <2> DEFINE h == m \div 60
             n == m % 60
             sec == clock % 60
  <2>1. /\ IsClock(h, n, sec, m, clock)
        /\ m \in Int /\ h \in Int /\ n \in Int /\ sec \in Int
    BY <1>1, <1>2 DEF IsClock
  <2> HIDE DEF m, h, n, sec
  <2>2. h * 3600 + n * 60 + sec = clock
    BY <2>1, ClockIs, SMT
  <2> QED
    BY <2>2 DEF h, n, sec
<1> DEFINE hms == HourMinuteSecond(clock)
<1>4. hms.hour = m \div 60 /\ hms.min = m % 60 /\ hms.sec = clock % 60
  BY SMT DEF HourMinuteSecond
<1> HIDE DEF hms, m
<1> QED
  BY <1>1, <1>2, <1>3, <1>4, SMT DEF IsTime, hms

\* Julian day numbers are whole numbers.
LEMMA JulianType ==
  ASSUME NEW ymd, OnCalendar(ymd)
  PROVE  Julian(ymd) \in Int
<1>1. ymd.year \in Int /\ InRange(ymd.year) /\ ymd.month \in 1 .. 12 /\ ymd.day \in Int
  BY DEF OnCalendar, ValidDate, InRange
<1>2. Julian(ymd) = CountedByMarch(ymd.year, ymd.month, ymd.day)
  BY <1>1, JulianByMarch DEF Julian
<1>3. /\ DaysOfMonths(Month(ymd.month)) \in Int
      /\ DaysOfYears(March(ymd.year, ymd.month)) \in Int
  <2> DEFINE year == ymd.year
             month == ymd.month
  <2>1. /\ March(year, month) \in Int /\ Month(month) \in Int
    BY <1>1 DEF March, Month
  <2> DEFINE y == March(year, month)
             m == Month(month)
  <2> HIDE DEF y, m
  <2>2. DaysOfMonths(m) \in Int /\ DaysOfYears(y) \in Int
    BY <2>1 DEF DaysOfMonths, DaysOfYears, y, m
  <2> QED
    BY <2>2 DEF y, m
<1> QED
  BY <1>1, <1>2, <1>3 DEF CountedByMarch

\* The day of the year, as toUtcTime() computes it.
YearDay(ymd) == Julian(ymd) - getJulianDayNumber(ymd.year, 1, 1)

\* A second of a day of the calendar, broken down.
LEMMA UtcOfDay ==
  ASSUME NEW ymd, NEW d, IsDay(ymd, d), NEW clock, NEW s, IsSecond(s, d, clock)
  PROVE  toUtcTime(s) =
           [ymd |-> ymd, hms |-> HourMinuteSecond(clock), wday |-> weekDay(Julian(ymd)),
            yday |-> YearDay(ymd)]
<1> DEFINE at == DayAndSeconds(s)
           julian == at.days + kJulianDayOf1970_01_01
<1>1. at = [days |-> d, seconds |-> clock]
  BY DayAndSecondsIs, SMT
<1>2. toUtcTime(s) =
        [ymd |-> getYearMonthDay(julian), hms |-> HourMinuteSecond(at.seconds),
         wday |-> weekDay(julian),
         yday |-> julian - getJulianDayNumber(getYearMonthDay(julian).year, 1, 1)]
  BY DEF toUtcTime
<1> HIDE DEF at
<1>3. at.days = d /\ at.seconds = clock
  BY <1>1, SMT
<1>4. julian = Julian(ymd)
  BY <1>3, JulianOf1970, SMT DEF IsSecond, IsDay
<1>5. getYearMonthDay(Julian(ymd)) = ymd
  BY DateOfJulian, SMT DEF IsDay
<1> HIDE DEF julian
<1> QED
  BY <1>2, <1>3, <1>4, <1>5, SMT DEF YearDay

\* A day of the year 0 is New Year's Day.
LEMMA YearDayZero ==
  ASSUME NEW ymd, OnCalendar(ymd)
  PROVE  YearDay(ymd) = 0 <=> (ymd.month = 1 /\ ymd.day = 1)
<1> DEFINE first == YearMonthDay(ymd.year, 1, 1)
<1>1. /\ ymd = YearMonthDay(ymd.year, ymd.month, ymd.day) /\ ymd.year \in Int
      /\ ymd.year >= -4714 /\ InRange(ymd.year)
  BY DEF OnCalendar, ValidDate, YearMonthDay, InRange
<1>2. OnCalendar(first)
  BY <1>1, DaysOfMonthType DEF OnCalendar, ValidDate, YearMonthDay, DaysOfMonth
<1>3. Julian(first) = getJulianDayNumber(ymd.year, 1, 1)
  BY DEF Julian, YearMonthDay
<1>4. Julian(first) \in Int /\ Julian(ymd) \in Int
  BY <1>2, JulianType
<1>5. getYearMonthDay(Julian(first)) = first /\ getYearMonthDay(Julian(ymd)) = ymd
  BY <1>2, DateOfJulian
<1>6. ymd = first <=> (ymd.month = 1 /\ ymd.day = 1)
  BY <1>1 DEF YearMonthDay
<1> HIDE DEF first
<1>7. YearDay(ymd) = 0 <=> Julian(ymd) = Julian(first)
  BY <1>3, <1>4 DEF YearDay
<1>8. Julian(ymd) = Julian(first) <=> ymd = first
  BY <1>5
<1> QED
  BY <1>6, <1>7, <1>8

\* fromUtcTime() of a date and a time of day.
LEMMA SecondOfUtc ==
  ASSUME NEW ymd, NEW d, IsDay(ymd, d), NEW clock, NEW s, IsSecond(s, d, clock),
         NEW hms, IsTime(hms, clock)
  PROVE  fromUtcTime(ymd, hms) = s
<1>1. PICK p, h, m : p = d * 86400 /\ h = hms.hour * 3600 /\ m = hms.min * 60
  OBVIOUS
<1>2. getJulianDayNumber(ymd.year, ymd.month, ymd.day) - kJulianDayOf1970_01_01 = d
  BY JulianOf1970, SMT DEF IsDay, Julian
<1>3. fromUtcTime(ymd, hms) = p + h + m + hms.sec
  BY <1>1, <1>2, SecondsPerDay, SMT DEF fromUtcTime
<1>4. p \in Int /\ h \in Int /\ m \in Int /\ hms.sec \in Int
  BY <1>1, SMT DEF IsTime, IsDay
<1>5. h + m + hms.sec = clock /\ p + clock = s
  BY <1>1, <1>4, SMT DEF IsTime, IsSecond
<1> QED
  BY <1>3, <1>4, <1>5, SMT

\* toUtcTime() and fromUtcTime() follow the calendar to the second, before 1970 too.
THEOREM UtcCorrect == Spec => []UtcFollowsTheCalendar
<1>1. CalendarInv => UtcFollowsTheCalendar
  <2> SUFFICES ASSUME CalendarInv, NEW clock \in Clocks,
                      NEW seconds, seconds = days * kSecondsPerDay + clock,
                      NEW utc, utc = toUtcTime(seconds)
               PROVE  /\ utc.ymd = date
                      /\ utc.hms.hour * 3600 + utc.hms.min * 60 + utc.hms.sec = clock
                      /\ utc.hms.min < 60 /\ utc.hms.sec < 60
                      /\ utc.wday = (days + 4) % 7
                      /\ (utc.yday = 0) <=> (date.month = 1 /\ date.day = 1)
                      /\ fromUtcTime(utc.ymd, utc.hms) = seconds
    BY SMT DEF UtcFollowsTheCalendar
  <2>1. clock \in Nat /\ clock < 86400
    BY DateAssumption, SMT
  <2>2. IsDay(date, days)
    <3>1. FirstDay \in Int /\ LastDay \in Int
      BY DateAssumption, SMT
    <3> QED
      BY <3>1, SMT DEF CalendarInv, IsDay
  <2>3. IsSecond(seconds, days, clock)
    BY <2>1, <2>2, SecondsPerDay, SMT DEF IsDay, IsSecond
  <2>4. utc = [ymd |-> date, hms |-> HourMinuteSecond(clock), wday |-> weekDay(Julian(date)),
               yday |-> YearDay(date)]
    BY <2>2, <2>3, UtcOfDay, SMT
  <2>5. /\ utc.ymd = date /\ utc.hms = HourMinuteSecond(clock)
        /\ utc.wday = weekDay(Julian(date)) /\ utc.yday = YearDay(date)
    BY <2>4, SMT
  <2>6. IsTime(utc.hms, clock)
    BY <2>1, <2>5, HourMinuteSecondIs, SMT
  <2>7. weekDay(Julian(date)) = (days + 4) % 7
    BY JulianDaysInv, SMT DEF JulianDaysFollowTheCalendar, Julian
  <2>8. YearDay(date) = 0 <=> (date.month = 1 /\ date.day = 1)
    BY <2>2, YearDayZero, SMT DEF IsDay
  <2>9. fromUtcTime(utc.ymd, utc.hms) = seconds
    BY <2>2, <2>3, <2>5, <2>6, SecondOfUtc, SMT
  <2> QED
    BY <2>5, <2>6, <2>7, <2>8, <2>9, SMT DEF IsTime
<1> QED
  BY <1>1, CalendarInvHolds, PTL
-----------------------------------------------------------------------------
(***************************************************************************)
(* std::lower_bound().                                                     *)
(***************************************************************************)
\* One step of the binary search.
Narrow(times, sentry, search, count) ==
  [first \in Nat |->
     IF count = 0 THEN first
     ELSE LET half == count \div 2 IN
          IF times[first + half] < sentry
          THEN search[count - half - 1][first + half + 1]
          ELSE search[half][first]]

\* The function that lower_bound() defines.
Searches(times, sentry, n, search) ==
  search = [count \in 0 .. n |-> Narrow(times, sentry, search, count)]

\* Half of a number.
LEMMA Half ==
  ASSUME NEW count \in Nat, count # 0
  PROVE  /\ count \div 2 \in 0 .. count - 1 /\ count - (count \div 2) - 1 \in 0 .. count - 1
OBVIOUS

\* A step of the search uses those for smaller counts only.
LEMMA NarrowAgrees ==
  ASSUME NEW times, NEW sentry, NEW f, NEW g, NEW count \in Nat,
         \A c \in 0 .. count - 1 : f[c] = g[c]
  PROVE  Narrow(times, sentry, f, count) = Narrow(times, sentry, g, count)
<1>1. CASE count = 0
  BY <1>1 DEF Narrow
<1>2. CASE count # 0
  <2>1. count \div 2 \in 0 .. count - 1 /\ count - (count \div 2) - 1 \in 0 .. count - 1
    BY <1>2, Half
  <2>2. PICK half : half = count \div 2
    OBVIOUS
  <2>3. f[half] = g[half] /\ f[count - half - 1] = g[count - half - 1]
    BY <2>1, <2>2
  <2> QED
    BY <1>2, <2>2, <2>3 DEF Narrow
<1> QED
  BY <1>1, <1>2

\* The recursive definition of the search has a solution.
LEMMA SearchExists ==
  ASSUME NEW times, NEW sentry, NEW n \in Nat
  PROVE  \E f : Searches(times, sentry, n, f)
<1> DEFINE T == {k \in Nat : \E f : Searches(times, sentry, k, f)}
<1>1. 0 \in T
  <2> DEFINE f == [count \in 0 .. 0 |-> Narrow(times, sentry, <<>>, count)]
  <2>1. \A count \in 0 .. 0 : Narrow(times, sentry, <<>>, count) = Narrow(times, sentry, f, count)
    <3> HIDE DEF f
    <3> QED
      BY NarrowAgrees
  <2>2. f = [count \in 0 .. 0 |-> Narrow(times, sentry, f, count)]
    <3> DEFINE g == [count \in 0 .. 0 |-> Narrow(times, sentry, f, count)]
    <3> SUFFICES f = g
      OBVIOUS
    <3> QED
      BY <2>1
  <2> QED
    BY <2>2 DEF Searches
<1>2. ASSUME NEW k \in Nat, k \in T PROVE k + 1 \in T
  <2>1. PICK f : f = [count \in 0 .. k |-> Narrow(times, sentry, f, count)]
    BY <1>2 DEF Searches
  <2> DEFINE g == [count \in 0 .. k + 1 |-> Narrow(times, sentry, f, count)]
  <2>2. \A c \in 0 .. k : f[c] = g[c]
    BY <2>1
  <2>3. \A count \in 0 .. k + 1 : Narrow(times, sentry, f, count) = Narrow(times, sentry, g, count)
    <3> SUFFICES ASSUME NEW count \in 0 .. k + 1
                 PROVE  Narrow(times, sentry, f, count) = Narrow(times, sentry, g, count)
      OBVIOUS
    <3>1. count \in Nat /\ \A c \in 0 .. count - 1 : c \in 0 .. k
      OBVIOUS
    <3> HIDE DEF g
    <3>2. \A c \in 0 .. count - 1 : f[c] = g[c]
      BY <2>2, <3>1
    <3> QED
      BY <3>1, <3>2, NarrowAgrees
  <2>4. Searches(times, sentry, k + 1, g)
    <3> DEFINE h == [count \in 0 .. k + 1 |-> Narrow(times, sentry, g, count)]
    <3>1. g = h
      BY <2>3
    <3> QED
      BY <3>1 DEF Searches
  <2> QED
    BY <2>4
<1>3. Nat \subseteq T
  <2> HIDE DEF T
  <2> QED
    BY <1>1, <1>2, SetInduction
<1> QED
  BY <1>3

\* Where the search in times ends that begins with count of them, from first on.
IsLowerBound(times, sentry, first, count, m) ==
  /\ m \in first .. first + count
  /\ \A i \in first .. m - 1 : times[i] < sentry
  /\ m < first + count => ~ (times[m] < sentry)

\* Strictly, as the transitions of a zone are.
Sorted(times) ==
  /\ \A i \in DOMAIN times : times[i] \in Int
  /\ \A i, j \in DOMAIN times : i < j => times[i] < times[j]

\* The search finds the lower bound among any consecutive times.
LEMMA SearchFinds ==
  ASSUME NEW times, NEW sentry \in Int, NEW n \in Nat, NEW f, Searches(times, sentry, n, f),
         DOMAIN times = 1 .. n, Sorted(times)
  PROVE  \A count \in 0 .. n : \A first \in Nat :
           1 <= first /\ first + count <= n + 1 =>
             IsLowerBound(times, sentry, first, count, f[count][first])
<1> DEFINE Q(count) == \A first \in Nat : 1 <= first /\ first + count <= n + 1 =>
                         IsLowerBound(times, sentry, first, count, f[count][first])
           T == {k \in Nat : \A count \in 0 .. k : count <= n => Q(count)}
<1>0. \A count \in 0 .. n : f[count] = Narrow(times, sentry, f, count)
  BY DEF Searches
<1>1. 0 \in T
  <2>1. ASSUME NEW first \in Nat, 1 <= first
        PROVE IsLowerBound(times, sentry, first, 0, f[0][first])
    <3>1. f[0][first] = first
      <4>1. f[0] = Narrow(times, sentry, f, 0)
        BY <1>0
      <4> QED
        BY <4>1 DEF Narrow
    <3> QED
      BY <3>1 DEF IsLowerBound
  <2>2. Q(0)
    BY <2>1
  <2> QED
    BY <2>2
<1>2. ASSUME NEW k \in Nat, k \in T PROVE k + 1 \in T
  <2> SUFFICES ASSUME k + 1 <= n, NEW first \in Nat, 1 <= first, first + (k + 1) <= n + 1
               PROVE  IsLowerBound(times, sentry, first, k + 1, f[k + 1][first])
    BY <1>2
  <2>1. PICK half : half = (k + 1) \div 2
    OBVIOUS
  <2>2. half \in 0 .. k /\ (k + 1) - half - 1 \in 0 .. k
    BY <2>1, Half
  <2>3. f[k + 1][first] = IF times[first + half] < sentry
                          THEN f[(k + 1) - half - 1][first + half + 1]
                          ELSE f[half][first]
    <3>1. PICK count : count = k + 1
      OBVIOUS
    <3>2. f[count] = Narrow(times, sentry, f, count) /\ count # 0
      BY <1>0, <3>1
    <3>3. half = count \div 2
      BY <2>1, <3>1
    <3>4. f[count][first] = IF times[first + half] < sentry
                            THEN f[count - half - 1][first + half + 1]
                            ELSE f[half][first]
      <4>1. Narrow(times, sentry, f, count)[first]
              = IF times[first + half] < sentry
                THEN f[count - half - 1][first + half + 1]
                ELSE f[half][first]
        BY <3>2, <3>3 DEF Narrow
      <4> QED
        BY <3>2, <4>1
    <3> QED
      BY <3>1, <3>4
  <2>4. first + half \in 1 .. n
    BY <2>2
  <2>5. CASE times[first + half] < sentry
    <3> DEFINE rest == (k + 1) - half - 1
               m == f[rest][first + half + 1]
    <3>1. IsLowerBound(times, sentry, first + half + 1, rest, m)
      <4>1. Q(rest)
        BY <1>2, <2>2
      <4>2. first + half + 1 \in Nat /\ 1 <= first + half + 1 /\ (first + half + 1) + rest <= n + 1
        BY <2>2
      <4> HIDE DEF rest, m
      <4> QED
        BY <4>1, <4>2 DEF m
    <3>2. \A i \in first .. first + half : times[i] < sentry
      <4> SUFFICES ASSUME NEW i \in first .. first + half PROVE times[i] < sentry
        OBVIOUS
      <4>1. i \in 1 .. n /\ i <= first + half
        BY <2>2
      <4>2. times[i] \in Int /\ times[first + half] \in Int
            /\ (i < first + half => times[i] < times[first + half])
        BY <2>4, <4>1 DEF Sorted
      <4>3. CASE i = first + half
        BY <2>5, <4>3
      <4>4. CASE i < first + half
        <5> DEFINE a == times[i]
                   b == times[first + half]
        <5>1. a < b /\ b < sentry /\ a \in Int /\ b \in Int
          BY <2>5, <4>2, <4>4
        <5> HIDE DEF a, b
        <5>2. a < sentry
          BY <5>1
        <5> QED
          BY <5>2 DEF a
      <4> QED
        BY <2>2, <4>1, <4>3, <4>4
    <3>3. f[k + 1][first] = m
      BY <2>3, <2>5
    <3>4. rest \in Int /\ half \in Int /\ first + half + 1 + rest = first + (k + 1)
      BY <2>2
    <3> HIDE DEF m, rest
    <3>5. /\ m \in first + half + 1 .. first + half + 1 + rest
          /\ \A i \in first + half + 1 .. m - 1 : times[i] < sentry
          /\ m < first + half + 1 + rest => ~ (times[m] < sentry)
      BY <3>1 DEF IsLowerBound
    <3>6. m \in first .. first + (k + 1)
      BY <2>2, <3>4, <3>5
    <3>7. \A i \in first .. m - 1 : times[i] < sentry
      BY <2>2, <3>2, <3>4, <3>5, <3>6
    <3>8. m < first + (k + 1) => ~ (times[m] < sentry)
      BY <3>4, <3>5
    <3> QED
      BY <3>3, <3>6, <3>7, <3>8 DEF IsLowerBound
  <2>6. CASE ~ (times[first + half] < sentry)
    <3> DEFINE m == f[half][first]
    <3>1. IsLowerBound(times, sentry, first, half, m)
      <4>1. Q(half)
        BY <1>2, <2>2
      <4> QED
        BY <2>2, <4>1
    <3>2. f[k + 1][first] = m
      BY <2>3, <2>6
    <3> HIDE DEF m
    <3>3. /\ m \in first .. first + half
          /\ \A i \in first .. m - 1 : times[i] < sentry
          /\ m < first + half => ~ (times[m] < sentry)
      BY <3>1 DEF IsLowerBound
    <3>4. m \in first .. first + (k + 1)
      BY <2>2, <3>3
    <3>5. m < first + (k + 1) => ~ (times[m] < sentry)
      BY <2>2, <2>6, <3>3
    <3> QED
      BY <3>2, <3>3, <3>4, <3>5 DEF IsLowerBound
  <2> QED
    BY <2>5, <2>6
<1>3. Nat \subseteq T
  <2> HIDE DEF T
  <2> QED
    BY <1>1, <1>2, SetInduction
<1>4. n \in T
  BY <1>3
<1> QED
  BY <1>4

\* What std::lower_bound() finds among sorted times.
LEMMA LowerBound ==
  ASSUME NEW times, Len(times) \in Nat, DOMAIN times = 1 .. Len(times), Sorted(times),
         NEW sentry \in Int
  PROVE  IsLowerBound(times, sentry, 1, Len(times), lower_bound(times, sentry))
<1> DEFINE search == CHOOSE f : Searches(times, sentry, Len(times), f)
<1>1. Searches(times, sentry, Len(times), search)
  BY SearchExists
<1>2. lower_bound(times, sentry) = search[Len(times)][1]
  BY DEF lower_bound, Searches, Narrow
<1> HIDE DEF search
<1>3. IsLowerBound(times, sentry, 1, Len(times), search[Len(times)][1])
  BY <1>1, SearchFinds
<1> QED
  BY <1>2, <1>3
-----------------------------------------------------------------------------
(***************************************************************************)
(* findLocaltime().                                                        *)
(***************************************************************************)
\* The transitions of the zone, as the code keeps them.
LEMMA TransitionsAre ==
  ASSUME zone \in Zones
  PROVE  /\ Len(zone.trans) \in Nat /\ DOMAIN zone.trans = 1 .. Len(zone.trans)
         /\ Len(Transitions(zone)) = Len(zone.trans)
         /\ \A i \in 1 .. Len(zone.trans) :
              /\ zone.trans[i].at \in Int
              /\ zone.trans[i].localtimeIdx \in DOMAIN zone.localtimes
              /\ Transitions(zone)[i].gmttime = zone.trans[i].at
              /\ Transitions(zone)[i].localtimeIdx = zone.trans[i].localtimeIdx
         /\ \A i, j \in 1 .. Len(zone.trans) : i < j => zone.trans[i].at < zone.trans[j].at
<1> DEFINE R == [at : Int, localtimeIdx : DOMAIN zone.localtimes]
           n == Len(zone.trans)
           T == Transitions(zone)
<1>0. IsZone(zone)
  BY ZonesAssumption
<1>1. zone.trans \in Seq(R)
  BY <1>0 DEF IsZone
<1>2. \A i, j \in DOMAIN zone.trans : i < j => zone.trans[i].at < zone.trans[j].at
  BY <1>0 DEF IsZone
<1>3. n \in Nat /\ DOMAIN zone.trans = 1 .. n /\ \A i \in 1 .. n : zone.trans[i] \in R
  <2> HIDE DEF R
  <2>1. n \in Nat /\ DOMAIN zone.trans = 1 .. n
    BY <1>1, LenProperties
  <2>2. \A i \in 1 .. n : zone.trans[i] \in R
    BY <1>1, ElementOfSeq
  <2> QED
    BY <2>1, <2>2
<1>4. \A i \in 1 .. n : zone.trans[i].at \in Int /\ zone.trans[i].localtimeIdx \in DOMAIN zone.localtimes
  BY <1>3
<1>5. \A i \in 1 .. n : T[i].gmttime = zone.trans[i].at /\ T[i].localtimeIdx = zone.trans[i].localtimeIdx
  BY <1>3 DEF Transitions
<1>6. DOMAIN T = 1 .. n /\ T = [i \in 1 .. n |-> T[i]]
  BY <1>3 DEF Transitions
<1>7. Len(T) = n
  <2> DEFINE S == {T[i] : i \in 1 .. n}
  <2>1. T \in [1 .. n -> S]
    BY <1>6
  <2>2. T \in Seq(S)
    BY <1>3, <2>1, SeqDef
  <2> HIDE DEF T, S, n
  <2>3. DOMAIN T = 1 .. Len(T) /\ Len(T) \in Nat
    BY <2>2, LenProperties
  <2> QED
    BY <1>3, <1>6, <2>3
<1> HIDE DEF n, T
<1> QED
  BY <1>2, <1>3, <1>4, <1>5, <1>7 DEF n, T

\* The local time that the i-th transition begins; 0 stands for the time before the first.
Kind(i) == IF i = 0 THEN zone.localtimes[1] ELSE zone.localtimes[zone.trans[i].localtimeIdx]

\* The last of these times that is not after s.
IsLast(keys, n, s, i) ==
  i \in 0 .. n /\ (\A k \in 1 .. i : keys[k] <= s) /\ (\A k \in i + 1 .. n : keys[k] > s)

\* The transitions' times, of the one sort or the other.
Times(by) == [i \in 1 .. Len(zone.trans) |-> Transitions(zone)[i][by]]

LEMMA FindsLast ==
  ASSUME zone \in Zones, NEW by, Sorted(Times(by)), NEW s \in Int
  PROVE  \E i : IsLast(Times(by), Len(zone.trans), s, i) /\ findLocaltime(zone, by, s) = Kind(i)
<1> DEFINE T == Transitions(zone)
           n == Len(zone.trans)
           at == Times(by)
           m == lower_bound(at, s)
           found == IF m <= n /\ T[m][by] = s THEN m ELSE m - 1
<1>1. n \in Nat /\ Len(T) = n /\ \A i \in 1 .. n : T[i].localtimeIdx = zone.trans[i].localtimeIdx
  BY TransitionsAre
<1>2. at = [i \in 1 .. n |-> T[i][by]]
  BY DEF Times
<1>3. findLocaltime(zone, by, s) =
        IF n = 0 \/ s < T[1][by] THEN zone.localtimes[1]
        ELSE zone.localtimes[T[found].localtimeIdx]
  <2> HIDE DEF n, T, at
  <2> QED
    BY <1>1, <1>2 DEF findLocaltime, T
<1> HIDE DEF T
<1>4. /\ DOMAIN at = 1 .. n /\ \A i \in 1 .. n : at[i] \in Int /\ T[i][by] = at[i]
      /\ \A i, j \in 1 .. n : i < j => at[i] < at[j]
  <2>1. DOMAIN at = 1 .. n /\ \A i \in 1 .. n : T[i][by] = at[i]
    <3> HIDE DEF at, n
    <3> QED
      BY <1>2
  <2>2. Sorted(at)
    OBVIOUS
  <2> HIDE DEF at, n
  <2> QED
    BY <2>1, <2>2 DEF Sorted
<1>5. Len(at) = n
  <2>1. at \in [1 .. n -> Int]
    <3> HIDE DEF n
    <3> QED
      BY <1>2, <1>4
  <2>2. at \in Seq(Int)
    BY <1>1, <2>1, SeqDef
  <2> HIDE DEF at, n
  <2>3. DOMAIN at = 1 .. Len(at) /\ Len(at) \in Nat
    BY <2>2, LenProperties
  <2> QED
    BY <1>1, <1>4, <2>3
<1>6. Sorted(at)
  OBVIOUS
<1> HIDE DEF at, n
<1>7. IsLowerBound(at, s, 1, n, m)
  <2>1. DOMAIN at = 1 .. Len(at) /\ Len(at) \in Nat
    BY <1>1, <1>4, <1>5
  <2> QED
    BY <1>4, <1>5, <1>6, <2>1, LowerBound
<1> HIDE DEF m
<1>8. /\ m \in 1 .. n + 1
      /\ \A i \in 1 .. m - 1 : at[i] < s
      /\ m <= n => at[m] >= s
  BY <1>1, <1>4, <1>7 DEF IsLowerBound
<1>9. CASE n = 0 \/ s < T[1][by]
  <2>1. IsLast(at, n, s, 0)
    <3> SUFFICES ASSUME NEW i \in 1 .. n PROVE at[i] > s
      BY <1>1 DEF IsLast
    <3>1. 1 \in 1 .. n /\ s < at[1]
      BY <1>1, <1>4, <1>9
    <3>2. i = 1 \/ at[1] < at[i]
      BY <1>1, <1>4, <3>1
    <3> QED
      BY <1>4, <3>1, <3>2
  <2>2. findLocaltime(zone, by, s) = Kind(0)
    BY <1>3, <1>9 DEF Kind
  <2> QED
    BY <2>1, <2>2 DEF at, n
<1>10. CASE ~ (n = 0 \/ s < T[1][by])
  <2>1. 1 \in 1 .. n /\ at[1] <= s
    BY <1>1, <1>4, <1>10
  <2>2. found = IF m <= n /\ at[m] = s THEN m ELSE m - 1
    <3>1. m <= n => m \in 1 .. n
      BY <1>8
    <3> QED
      BY <1>4, <3>1
  <2> HIDE DEF found
  <2>3. /\ found \in 1 .. n /\ at[found] <= s
        /\ \A i \in 1 .. n : i > found => at[i] > s
    <3>1. CASE m <= n /\ at[m] = s
      BY <1>4, <1>8, <2>2, <3>1
    <3>2. CASE ~ (m <= n /\ at[m] = s)
      <4>1. m # 1
        <5> SUFFICES ASSUME m = 1 PROVE FALSE
          OBVIOUS
        <5>1. at[1] >= s
          BY <1>1, <1>8, <2>1
        <5> QED
          BY <1>4, <2>1, <3>2, <5>1
      <4>2. found = m - 1 /\ m - 1 \in 1 .. n
        BY <1>1, <1>8, <2>2, <3>2, <4>1
      <4>3. at[m - 1] < s
        BY <1>1, <1>8, <4>2
      <4>4. ASSUME NEW i \in 1 .. n, i > found PROVE at[i] > s
        <5>1. i >= m /\ m <= n /\ m \in 1 .. n
          BY <1>1, <1>8, <4>2, <4>4
        <5>2. at[m] > s
          BY <1>4, <1>8, <3>2, <5>1
        <5>3. i = m \/ at[m] < at[i]
          BY <1>4, <5>1
        <5> QED
          BY <1>4, <5>1, <5>2, <5>3
      <4> QED
        BY <1>4, <4>2, <4>3, <4>4
    <3> QED
      BY <3>1, <3>2
  <2>4. IsLast(at, n, s, found)
    <3>1. \A k \in 1 .. found : k \in 1 .. n /\ (k = found \/ at[k] < at[found])
      BY <1>1, <1>4, <2>3
    <3>2. \A k \in 1 .. found : at[k] <= s
      BY <1>4, <2>3, <3>1
    <3>3. \A k \in found + 1 .. n : at[k] > s
      BY <1>1, <2>3
    <3> QED
      BY <1>1, <2>3, <3>2, <3>3 DEF IsLast
  <2>5. findLocaltime(zone, by, s) = Kind(found)
    BY <1>1, <1>3, <1>10, <2>3 DEF Kind
  <2> QED
    BY <2>4, <2>5 DEF at, n
<1> QED
  BY <1>9, <1>10

\* The times of UTC at which the local time changes.
LEMMA GmtTimes ==
  ASSUME zone \in Zones
  PROVE  /\ Sorted(Times("gmttime"))
         /\ \A i \in 1 .. Len(zone.trans) : Times("gmttime")[i] = zone.trans[i].at
<1> DEFINE n == Len(zone.trans)
<1>1. \A i \in 1 .. n : Times("gmttime")[i] = zone.trans[i].at
  BY TransitionsAre DEF Times
<1>2. DOMAIN Times("gmttime") = 1 .. n
  BY DEF Times
<1>3. \A i, j \in 1 .. n : zone.trans[i].at \in Int /\ (i < j => zone.trans[i].at < zone.trans[j].at)
  BY TransitionsAre
<1> QED
  BY <1>1, <1>2, <1>3 DEF Sorted

\* The last transition up to a second is what InForce() looks for.
LEMMA KindInForce ==
  ASSUME zone \in Zones, NEW s \in Int, NEW i, IsLast(Times("gmttime"), Len(zone.trans), s, i)
  PROVE  InForce(s) = Kind(i)
<1> DEFINE n == Len(zone.trans)
           past == {k \in DOMAIN zone.trans : zone.trans[k].at <= s}
<1>1. n \in Nat /\ DOMAIN zone.trans = 1 .. n /\ \A k \in 1 .. n : zone.trans[k].at \in Int
  BY TransitionsAre
<1>2. /\ i \in 0 .. n
      /\ \A k \in 1 .. i : zone.trans[k].at <= s
      /\ \A k \in i + 1 .. n : zone.trans[k].at > s
  <2> HIDE DEF n
  <2> QED
    BY <1>1, GmtTimes, SMTT(30) DEF IsLast, n
<1>3. past = 1 .. i
  <2> HIDE DEF n
  <2>1. \A k \in 1 .. n : k \in 1 .. i \/ k \in i + 1 .. n
    BY <1>1, <1>2
  <2>2. \A k \in 1 .. i : k \in 1 .. n
    BY <1>1, <1>2
  <2> QED
    BY <1>1, <1>2, <2>1, <2>2
<1>4. InForce(s) = IF past = {} THEN zone.localtimes[1]
                   ELSE zone.localtimes[zone.trans[Max(past)].localtimeIdx]
  BY DEF InForce
<1> HIDE DEF past, n
<1>5. CASE i = 0
  <2>1. past = {}
    BY <1>3, <1>5
  <2> QED
    BY <1>4, <1>5, <2>1 DEF Kind
<1>6. CASE i # 0
  <2>1. i \in past /\ \A k \in past : i >= k
    BY <1>1, <1>2, <1>3, <1>6
  <2>2. \A x \in past : (\A y \in past : x >= y) => x = i
    BY <1>1, <1>2, <1>3, <2>1
  <2>3. Max(past) = i
    BY <2>1, <2>2 DEF Max
  <2> QED
    BY <1>4, <1>6, <2>1, <2>3 DEF Kind
<1> QED
  BY <1>5, <1>6

\* toLocalTime() finds the local time in force.
LEMMA FindsInForce ==
  ASSUME zone \in Zones, NEW s \in Int
  PROVE  /\ findLocaltime(zone, "gmttime", s) = InForce(s)
         /\ \E i : IsLast(Times("gmttime"), Len(zone.trans), s, i) /\ InForce(s) = Kind(i)
<1>1. PICK i : /\ IsLast(Times("gmttime"), Len(zone.trans), s, i)
               /\ findLocaltime(zone, "gmttime", s) = Kind(i)
  BY GmtTimes, FindsLast
<1>2. InForce(s) = Kind(i)
  BY <1>1, KindInForce
<1> QED
  BY <1>1, <1>2

\* What is in force is a kind of local time of the zone.
LEMMA InForceType ==
  ASSUME zone \in Zones, NEW s \in Int
  PROVE  /\ InForce(s).gmtOffset \in Int
         /\ -86400 < InForce(s).gmtOffset /\ InForce(s).gmtOffset < 86400
<1>1. IsZone(zone)
  BY ZonesAssumption
<1>2. PICK k \in DOMAIN zone.localtimes : InForce(s) = zone.localtimes[k]
  <2> DEFINE past == {i \in DOMAIN zone.trans : zone.trans[i].at <= s}
             n == Len(zone.trans)
  <2>1. /\ n \in Nat /\ DOMAIN zone.trans = 1 .. n
        /\ \A i \in 1 .. n : zone.trans[i].at \in Int
                             /\ zone.trans[i].localtimeIdx \in DOMAIN zone.localtimes
    BY TransitionsAre
  <2>2. 1 \in DOMAIN zone.localtimes
    <3>1. zone.localtimes \in Seq(Localtime) /\ Len(zone.localtimes) > 0
      BY <1>1 DEF IsZone
    <3>2. DOMAIN zone.localtimes = 1 .. Len(zone.localtimes) /\ Len(zone.localtimes) \in Nat
      BY <3>1, LenProperties
    <3> QED
      BY <3>1, <3>2
  <2>3. InForce(s) = IF past = {} THEN zone.localtimes[1]
                     ELSE zone.localtimes[zone.trans[Max(past)].localtimeIdx]
    BY DEF InForce
  <2>4. ASSUME past # {} PROVE Max(past) \in 1 .. n
    <3>1. past \subseteq 1 .. n
      BY <2>1
    <3> HIDE DEF past, n
    <3>2. \E x \in past : \A y \in past : x >= y
      BY <2>1, <2>4, <3>1, Greatest
    <3> QED
      BY <3>1, <3>2 DEF Max
  <2> HIDE DEF past
  <2> QED
    BY <2>1, <2>2, <2>3, <2>4
<1>3. zone.localtimes[k] \in Localtime
  <2>1. zone.localtimes \in Seq(Localtime)
    BY <1>1 DEF IsZone
  <2>2. DOMAIN zone.localtimes = 1 .. Len(zone.localtimes)
    BY <2>1, LenProperties
  <2> QED
    BY <1>2, <2>1, <2>2, ElementOfSeq
<1>4. -86400 < zone.localtimes[k].gmtOffset /\ zone.localtimes[k].gmtOffset < 86400
  BY <1>1, <1>2, SMT DEF IsZone
<1> QED
  BY <1>2, <1>3, <1>4, SMT DEF Localtime

\* The day and the time of day that an offset of less than a day leads to.
LEMMA DayAtOffset ==
  ASSUME NEW s, NEW d, NEW clock, IsSecond(s, d, clock),
         NEW off \in Int, -86400 < off, off < 86400
  PROVE  /\ clock + off \in Int /\ (clock + off) % 86400 \in Int
         /\ IsSecond(s + off,
                     IF clock + off < 0 THEN d - 1 ELSE IF clock + off >= 86400 THEN d + 1 ELSE d,
                     (clock + off) % 86400)
<1>1. PICK c : c = clock + off
  OBVIOUS
<1>2. /\ d \in Int /\ c \in Int /\ -86400 < c /\ c < 172800
      /\ s + off = 86400 * d + c
  BY <1>1, SMT DEF IsSecond
<1>3. c % 86400 = IF c < 0 THEN c + 86400 ELSE IF c >= 86400 THEN c - 86400 ELSE c
  <2>1. CASE c < 0
    <3>1. IsSecond(c, -1, c + 86400)
      BY <1>2, <2>1, SMT DEF IsSecond
    <3> QED
      BY <2>1, <3>1, DivisionByDay, SMT
  <2>2. CASE c >= 86400
    <3>1. IsSecond(c, 1, c - 86400)
      BY <1>2, <2>2, SMT DEF IsSecond
    <3> QED
      BY <1>2, <2>2, <3>1, DivisionByDay, SMT
  <2>3. CASE 0 <= c /\ c < 86400
    <3>1. IsSecond(c, 0, c)
      BY <1>2, <2>3, SMT DEF IsSecond
    <3> QED
      BY <1>2, <2>3, <3>1, DivisionByDay, SMT
  <2> QED
    BY <1>2, <2>1, <2>2, <2>3, SMT
<1>4. CASE c < 0
  <2>1. IsSecond(s + off, d - 1, c + 86400)
    BY <1>2, <1>4, SMT DEF IsSecond
  <2> QED
    BY <1>1, <1>2, <1>3, <1>4, <2>1, SMT
<1>5. CASE c >= 86400
  <2>1. IsSecond(s + off, d + 1, c - 86400)
    BY <1>2, <1>5, SMT DEF IsSecond
  <2> QED
    BY <1>1, <1>2, <1>3, <1>5, <2>1, SMT
<1>6. CASE 0 <= c /\ c < 86400
  <2>1. IsSecond(s + off, d, c)
    BY <1>2, <1>6, SMT DEF IsSecond
  <2> QED
    BY <1>1, <1>2, <1>3, <1>6, <2>1, SMT
<1> QED
  BY <1>2, <1>4, <1>5, <1>6, SMT

\* The leaves before and after that of a day belong to the days before and after.
LEMMA DaysAround ==
  ASSUME NEW ymd, NEW d, IsDay(ymd, d), d >= -2440587
  PROVE  IsDay(DayBefore(ymd), d - 1) /\ IsDay(DayAfter(ymd), d + 1)
<1>1. /\ OnCalendar(ymd) /\ d \in Int /\ Julian(ymd) = 2440588 + d
      /\ kJulianDayOf1970_01_01 = 2440588
  BY JulianOf1970, SMT DEF IsDay
<1>2. Julian(ymd) >= 1
  BY <1>1, SMT
<1>3. OnCalendar(DayBefore(ymd)) /\ DayAfter(DayBefore(ymd)) = ymd
  BY <1>1, <1>2, DayBeforeDayAfter, SMT
<1>4. Julian(ymd) = Julian(DayBefore(ymd)) + 1 /\ Julian(DayBefore(ymd)) \in Int
  BY <1>3, JulianOfDayAfter, JulianType, SMT
<1>5. OnCalendar(DayAfter(ymd)) /\ Julian(DayAfter(ymd)) = Julian(ymd) + 1
  BY <1>1, JulianOfDayAfter, SMT
<1> QED
  BY <1>1, <1>3, <1>4, <1>5, SMT DEF IsDay

\* The calendar of a zone is the calendar.
ZoneInv == CalendarInv /\ zone \in Zones

\* A zone stays one of those there are.
LEMMA ZoneInvHolds == ZoneSpec => []ZoneInv
<1>1. ZoneInit => ZoneInv
  BY CalendarInvInit DEF ZoneInit, ZoneInv
<1>2. ZoneInv /\ [ZoneNext]_<<vars, zone>> => ZoneInv'
  <2>1. [ZoneNext]_<<vars, zone>> => [Next]_vars /\ zone' = zone
    BY DEF ZoneNext, Turn, ZoneTerminated, Next
  <2> QED
    BY <2>1, CalendarInvStep DEF ZoneInv
<1> QED
  BY <1>1, <1>2, PTL DEF ZoneSpec

\* Where the calendar of a zone is, and what seconds are converted.
LEMMA ZoneDay ==
  ASSUME ZoneInv
  PROVE  IsDay(date, days) /\ days >= -2440587 /\ zone \in Zones
<1>1. FirstDay \in Int /\ LastDay \in Int /\ FirstDay >= -2440587
  BY DateAssumption, SMT
<1> QED
  BY <1>1, SMT DEF ZoneInv, CalendarInv, IsDay

LEMMA InstantIsSecond ==
  ASSUME ZoneInv, NEW s \in Instants
  PROVE  \E t : IsSecond(s, days, t)
<1>1. PICK t : /\ t \in (IF zone.trans = <<>> THEN Clocks ELSE ZoneClocks)
               /\ s = days * kSecondsPerDay + t
  BY SMT DEF Instants
<1>2. t \in Nat /\ t < 86400
  BY <1>1, DateAssumption, ZoneClocksAssumption, SMT
<1>3. days \in Int
  BY ZoneDay, SMT DEF IsDay
<1>4. IsSecond(s, days, t)
  BY <1>1, <1>2, <1>3, SecondsPerDay, SMT DEF IsSecond
<1> QED
  BY <1>4

\* toLocalTime() uses the local time in force in every zone, before the first and after
\* the last transition and at the very second of one, and turns the leaf if need be.
THEOREM LocalTimeCorrect == ZoneSpec => []LocalTimeIsInForce
<1>1. ZoneInv => LocalTimeIsInForce
  <2> SUFFICES ASSUME ZoneInv, NEW s \in Instants, NEW tm, tm = toLocalTime(zone, s),
                      NEW clock, clock = s - days * kSecondsPerDay + tm.gmtoff
               PROVE  /\ tm.gmtoff = InForce(s).gmtOffset /\ tm.isDst = InForce(s).isDst
                      /\ tm.utc.ymd = IF clock < 0 THEN DayBefore(date)
                                      ELSE IF clock >= kSecondsPerDay THEN DayAfter(date) ELSE date
                      /\ tm.utc.hms = HourMinuteSecond(clock % kSecondsPerDay)
    BY SMT DEF LocalTimeIsInForce
  <2>1. IsDay(date, days) /\ days >= -2440587 /\ zone \in Zones
    BY ZoneDay
  <2>2. PICK t : IsSecond(s, days, t)
    BY InstantIsSecond
  <2>3. PICK off : off = InForce(s).gmtOffset
    OBVIOUS
  <2>4. s \in Int /\ off \in Int /\ -86400 < off /\ off < 86400
    BY <2>1, <2>2, <2>3, InForceType, SMT DEF IsSecond
  <2>5. findLocaltime(zone, "gmttime", s) = InForce(s)
    BY <2>1, <2>4, FindsInForce, SMT
  <2>6. tm = [utc |-> toUtcTime(s + off), isDst |-> InForce(s).isDst, gmtoff |-> off]
    BY <2>3, <2>5, SMT DEF toLocalTime
  <2>7. tm.utc = toUtcTime(s + off) /\ tm.isDst = InForce(s).isDst /\ tm.gmtoff = off
    BY <2>6, SMT
  <2>8. clock = t + off
    BY <2>1, <2>2, <2>4, <2>7, SecondsPerDay, SMT DEF IsDay, IsSecond
  <2>9. PICK d, r : /\ d = IF clock < 0 THEN days - 1 ELSE IF clock >= 86400 THEN days + 1 ELSE days
                    /\ r = clock % 86400
    OBVIOUS
  <2>10. IsSecond(s + off, d, r) /\ clock \in Int
    <3>1. IsSecond(s + off, IF t + off < 0 THEN days - 1
                            ELSE IF t + off >= 86400 THEN days + 1 ELSE days,
                   (t + off) % 86400)
      BY <2>2, <2>4, DayAtOffset, SMT
    <3>2. t + off \in Int
      BY <2>2, <2>4, SMT DEF IsSecond
    <3> QED
      BY <2>8, <2>9, <3>1, <3>2, SMT
  <2>11. PICK ymd : ymd = IF clock < 0 THEN DayBefore(date)
                          ELSE IF clock >= kSecondsPerDay THEN DayAfter(date) ELSE date
    OBVIOUS
  <2>12. IsDay(ymd, d)
    BY <2>1, <2>9, <2>11, DaysAround, SecondsPerDay, SMT
  <2>13. PICK second : second = s + off
    OBVIOUS
  <2>14. toUtcTime(second) =
           [ymd |-> ymd, hms |-> HourMinuteSecond(r), wday |-> weekDay(Julian(ymd)),
            yday |-> YearDay(ymd)]
    BY <2>10, <2>12, <2>13, UtcOfDay, SMT
  <2>15. tm.utc.ymd = ymd /\ tm.utc.hms = HourMinuteSecond(r)
    BY <2>7, <2>13, <2>14, SMT
  <2> QED
    BY <2>3, <2>7, <2>9, <2>11, <2>15, SecondsPerDay, SMT
<1> QED
  BY <1>1, ZoneInvHolds, PTL
-----------------------------------------------------------------------------
(***************************************************************************)
(* fromLocalTime().                                                        *)
(***************************************************************************)
\* Summer time is an hour ahead of standard time, and the clocks are not changed twice
\* within an hour.
ChangesApart(z) ==
  \A i, j \in DOMAIN z.trans : i < j => z.trans[i].at + 3600 < z.trans[j].at

HasSummerTime(z) ==
  /\ \E o \in Int : \A k \in DOMAIN z.localtimes :
       z.localtimes[k].gmtOffset = IF z.localtimes[k].isDst THEN o + 3600 ELSE o
  /\ ChangesApart(z)

LEMMA ChangesAre ==
  ASSUME zone \in Zones, HasSummerTime(zone)
  PROVE  \A i, j \in 1 .. Len(zone.trans) : i < j => zone.trans[i].at + 3600 < zone.trans[j].at
<1>1. ChangesApart(zone)
  BY DEF HasSummerTime
<1>2. DOMAIN zone.trans = 1 .. Len(zone.trans)
  BY TransitionsAre
<1> SUFFICES ASSUME NEW i \in 1 .. Len(zone.trans), NEW j \in 1 .. Len(zone.trans), i < j
             PROVE  zone.trans[i].at + 3600 < zone.trans[j].at
  OBVIOUS
<1>3. i \in DOMAIN zone.trans /\ j \in DOMAIN zone.trans
  BY <1>2
<1> QED
  BY <1>1, <1>3 DEF ChangesApart

\* What begins with a transition is a kind of local time of the zone.
LEMMA KindType ==
  ASSUME zone \in Zones, NEW i \in 0 .. Len(zone.trans)
  PROVE  /\ \E k \in DOMAIN zone.localtimes : Kind(i) = zone.localtimes[k]
         /\ Kind(i) \in Localtime
<1>1. /\ Len(zone.trans) \in Nat
      /\ \A k \in 1 .. Len(zone.trans) : zone.trans[k].localtimeIdx \in DOMAIN zone.localtimes
  BY TransitionsAre
<1>2. zone.localtimes \in Seq(Localtime) /\ Len(zone.localtimes) > 0
  <2>1. IsZone(zone)
    BY ZonesAssumption
  <2> QED
    BY <2>1 DEF IsZone
<1>3. DOMAIN zone.localtimes = 1 .. Len(zone.localtimes) /\ Len(zone.localtimes) \in Nat
  BY <1>2, LenProperties
<1>4. \A k \in DOMAIN zone.localtimes : zone.localtimes[k] \in Localtime
  BY <1>2, <1>3, ElementOfSeq
<1>5. CASE i = 0
  BY <1>2, <1>3, <1>4, <1>5 DEF Kind
<1>6. CASE i # 0
  BY <1>1, <1>4, <1>6 DEF Kind
<1> QED
  BY <1>5, <1>6

\* With summer time, what is one kind of local time or the other.
LEMMA KindOffset ==
  ASSUME zone \in Zones, HasSummerTime(zone)
  PROVE  \E o \in Int : \A i \in 0 .. Len(zone.trans) :
           Kind(i).gmtOffset = IF Kind(i).isDst THEN o + 3600 ELSE o
<1>1. PICK o \in Int : \A k \in DOMAIN zone.localtimes :
        zone.localtimes[k].gmtOffset = IF zone.localtimes[k].isDst THEN o + 3600 ELSE o
  BY SMT DEF HasSummerTime
<1>2. ASSUME NEW i \in 0 .. Len(zone.trans)
      PROVE  Kind(i).gmtOffset = IF Kind(i).isDst THEN o + 3600 ELSE o
  <2>1. PICK k \in DOMAIN zone.localtimes : Kind(i) = zone.localtimes[k]
    BY KindType
  <2> QED
    BY <1>1, <2>1, SMT
<1> QED
  BY <1>2

\* The local times of the transitions are in order.
LEMMA LocalTimes ==
  ASSUME zone \in Zones, HasSummerTime(zone)
  PROVE  /\ Sorted(Times("localtime"))
         /\ \A i \in 1 .. Len(zone.trans) :
              Times("localtime")[i] = zone.trans[i].at + Kind(i).gmtOffset
<1> DEFINE n == Len(zone.trans)
           lt == Times("localtime")
<1>1. n \in Nat /\ DOMAIN zone.trans = 1 .. n /\ \A i \in 1 .. n : zone.trans[i].at \in Int
  BY TransitionsAre
<1>2. \A i \in 1 .. n : lt[i] = zone.trans[i].at + Kind(i).gmtOffset
  <2> SUFFICES ASSUME NEW i \in 1 .. n PROVE lt[i] = zone.trans[i].at + Kind(i).gmtOffset
    OBVIOUS
  <2>1. lt[i] = Transitions(zone)[i].localtime
    BY DEF Times
  <2>2. Transitions(zone)[i].localtime
          = zone.trans[i].at + zone.localtimes[zone.trans[i].localtimeIdx].gmtOffset
    BY <1>1 DEF Transitions
  <2>3. Kind(i) = zone.localtimes[zone.trans[i].localtimeIdx]
    BY <1>1 DEF Kind
  <2> QED
    BY <2>1, <2>2, <2>3
<1>3. DOMAIN lt = 1 .. n
  BY DEF Times
<1>4. PICK o \in Int : \A i \in 0 .. n : Kind(i).gmtOffset = IF Kind(i).isDst THEN o + 3600 ELSE o
  BY KindOffset
<1>5. \A i, j \in 1 .. n : i < j => zone.trans[i].at + 3600 < zone.trans[j].at
  BY ChangesAre
<1> HIDE DEF lt, n
<1>6. \A i \in 1 .. n : Kind(i).gmtOffset \in {o, o + 3600}
  BY <1>1, <1>4, SMT
<1>7. \A i \in 1 .. n : lt[i] \in Int
  BY <1>1, <1>2, <1>6, SMT
<1>8. ASSUME NEW i \in 1 .. n, NEW j \in 1 .. n, i < j PROVE lt[i] < lt[j]
  <2>1. PICK a, b, c, d : /\ a = zone.trans[i].at /\ b = zone.trans[j].at
                          /\ c = Kind(i).gmtOffset /\ d = Kind(j).gmtOffset
    OBVIOUS
  <2>2. a \in Int /\ b \in Int /\ c \in {o, o + 3600} /\ d \in {o, o + 3600}
    BY <1>1, <1>6, <2>1, SMT
  <2>3. a + 3600 < b
    BY <1>5, <1>8, <2>1, SMT
  <2>4. a + c < b + d
    BY <2>2, <2>3, SMT
  <2> QED
    BY <1>2, <2>1, <2>4, SMT
<1>9. Sorted(lt)
  BY <1>3, <1>7, <1>8 DEF Sorted
<1> QED
  BY <1>2, <1>9 DEF lt, n

\* The two transitions that the searches of toLocalTime() and of fromLocalTime() find:
\* the same one, or the end of summer time, which is within the hour.
LEMMA SameOrEndOfSummer ==
  ASSUME zone \in Zones, HasSummerTime(zone), NEW s \in Int,
         NEW j, IsLast(Times("gmttime"), Len(zone.trans), s, j),
         NEW l, l = s + Kind(j).gmtOffset,
         NEW i, IsLast(Times("localtime"), Len(zone.trans), l, i)
  PROVE  \/ i = j
         \/ /\ Kind(j).isDst /\ ~ Kind(i).isDst
            /\ Kind(j).gmtOffset = Kind(i).gmtOffset + 3600
            /\ IsLast(Times("gmttime"), Len(zone.trans), s + 3600, i)
<1> DEFINE n == Len(zone.trans)
           at == Times("gmttime")
           off(k) == Kind(k).gmtOffset
<1>1. n \in Nat /\ j \in 0 .. n /\ i \in 0 .. n
  BY TransitionsAre DEF IsLast
<1>2. /\ \A k \in 1 .. n : at[k] \in Int
      /\ \A k, m \in 1 .. n : k < m => at[k] + 3600 < at[m]
      /\ \A k \in 1 .. n : Times("localtime")[k] = at[k] + off(k)
  <2>1. \A k \in 1 .. n : zone.trans[k].at \in Int /\ at[k] = zone.trans[k].at
    BY TransitionsAre, GmtTimes
  <2>2. \A k, m \in 1 .. n : k < m => zone.trans[k].at + 3600 < zone.trans[m].at
    BY ChangesAre
  <2> HIDE DEF at, n
  <2>3. \A k \in 1 .. n : Times("localtime")[k] = zone.trans[k].at + off(k)
    BY LocalTimes DEF n
  <2> QED
    BY <2>1, <2>2, <2>3, SMT
<1>3. PICK o \in Int : \A k \in 0 .. n : off(k) = IF Kind(k).isDst THEN o + 3600 ELSE o
  BY KindOffset
<1>4. \A k \in 0 .. n : Kind(k).isDst \in BOOLEAN
  BY KindType DEF Localtime
<1>5. /\ \A k \in 1 .. j : at[k] <= s
      /\ \A k \in j + 1 .. n : at[k] > s
      /\ \A k \in 1 .. i : Times("localtime")[k] <= l
      /\ \A k \in i + 1 .. n : Times("localtime")[k] > l
  BY DEF IsLast
<1> HIDE DEF at, n
<1>6. \A k \in 0 .. n : off(k) \in Int /\ o <= off(k) /\ off(k) <= o + 3600
  BY <1>3, SMT
<1> HIDE DEF off
<1>7. l = s + off(j) /\ l \in Int
  BY <1>1, <1>6, SMT DEF off
<1>8. ~ (i < j)
  <2> SUFFICES ASSUME i < j PROVE FALSE
    OBVIOUS
  <2>1. j \in 1 .. n /\ j \in i + 1 .. n /\ j \in 1 .. j
    BY <1>1
  <2>2. at[j] <= s /\ at[j] + off(j) > l /\ at[j] \in Int
    BY <1>2, <1>5, <2>1
  <2> QED
    BY <1>1, <1>6, <1>7, <2>2
<1>9. CASE i > j
  <2>1. j + 1 \in 1 .. n /\ j + 1 \in j + 1 .. n /\ j + 1 \in 1 .. i
    BY <1>1, <1>9
  <2>2. PICK m, a, c, d : m = j + 1 /\ a = at[m] /\ c = off(j) /\ d = off(m)
    OBVIOUS
  <2>3. a > s /\ a + d <= l /\ a \in Int
    BY <1>2, <1>5, <2>1, <2>2
  <2>4. c \in Int /\ d \in Int /\ o <= c /\ c <= o + 3600 /\ o <= d /\ d <= o + 3600 /\ l = s + c
    BY <1>1, <1>6, <1>7, <2>1, <2>2
  <2>5. d < c /\ a <= s + 3600
    BY <2>3, <2>4, SMT
  <2>6. Kind(j).isDst /\ ~ Kind(m).isDst /\ c = o + 3600 /\ d = o
    <3>1. c = (IF Kind(j).isDst THEN o + 3600 ELSE o) /\ d = (IF Kind(m).isDst THEN o + 3600 ELSE o)
      BY <1>1, <1>3, <2>1, <2>2 DEF off
    <3> QED
      BY <2>5, <3>1, SMT
  <2>7. \A k \in m + 1 .. n : at[k] > s + 3600
    <3> SUFFICES ASSUME NEW k \in m + 1 .. n PROVE at[k] > s + 3600
      OBVIOUS
    <3>1. k \in 1 .. n /\ m \in 1 .. n /\ m < k
      BY <1>1, <2>1, <2>2
    <3>2. a + 3600 < at[k] /\ at[k] \in Int
      BY <1>2, <2>2, <3>1
    <3> QED
      BY <2>3, <3>2, SMT
  <2>8. i = m
    <3> SUFFICES ASSUME i > m PROVE FALSE
      BY <1>1, <1>9, <2>2
    <3>1. m + 1 \in m + 1 .. n /\ m + 1 \in 1 .. i /\ m + 1 \in 1 .. n /\ m + 1 \in 0 .. n
      BY <1>1, <2>1, <2>2
    <3>2. PICK b, e : b = at[m + 1] /\ e = off(m + 1)
      OBVIOUS
    <3>3. b > s + 3600 /\ b + e <= l /\ b \in Int /\ e \in Int /\ o <= e
      BY <1>2, <1>5, <1>6, <2>7, <3>1, <3>2
    <3> QED
      BY <2>4, <3>3, SMT
  <2>9. \A k \in 1 .. m : at[k] <= s + 3600
    <3> SUFFICES ASSUME NEW k \in 1 .. m PROVE at[k] <= s + 3600
      OBVIOUS
    <3>1. k = m \/ k \in 1 .. j
      BY <1>1, <2>2
    <3>2. k \in 1 .. n
      BY <1>1, <2>1, <2>2
    <3> QED
      BY <1>2, <1>5, <2>2, <2>3, <2>5, <3>1, <3>2, SMT
  <2>10. IsLast(at, n, s + 3600, i)
    BY <1>1, <2>7, <2>8, <2>9 DEF IsLast
  <2>11. off(j) = off(i) + 3600
    BY <2>2, <2>6, <2>8, SMT
  <2> QED
    BY <2>6, <2>8, <2>10, <2>11 DEF at, n, off
<1> QED
  BY <1>1, <1>8, <1>9

\* fromLocalTime() of what toLocalTime() gives, if that can be counted in seconds.
LEMMA LocalTimeComesBack ==
  ASSUME zone \in Zones, HasSummerTime(zone), NEW s \in Int,
         NEW tm, tm = toLocalTime(zone, s), NEW l, l = s + InForce(s).gmtOffset,
         SecondsOf(tm) = l
  PROVE  fromLocalTime(zone, tm) = s
<1>1. PICK j : IsLast(Times("gmttime"), Len(zone.trans), s, j) /\ InForce(s) = Kind(j)
  BY FindsInForce, SMT
<1>2. /\ tm = [utc |-> toUtcTime(l), isDst |-> Kind(j).isDst, gmtoff |-> Kind(j).gmtOffset]
  BY <1>1, FindsInForce, SMT DEF toLocalTime
<1>3. tm.utc = toUtcTime(l) /\ tm.isDst = Kind(j).isDst
  BY <1>2, SMT
<1>4. l = s + Kind(j).gmtOffset /\ Kind(j).gmtOffset \in Int /\ l \in Int
  <2>1. j \in 0 .. Len(zone.trans)
    BY <1>1 DEF IsLast
  <2>2. Kind(j).gmtOffset \in Int
    BY <2>1, KindType DEF Localtime
  <2> QED
    BY <1>1, <2>2, SMT
<1>5. PICK i : /\ IsLast(Times("localtime"), Len(zone.trans), l, i)
               /\ findLocaltime(zone, "localtime", l) = Kind(i)
  BY <1>4, LocalTimes, FindsLast, SMT
<1>6. PICK off, tryTm, again :
        /\ off = Kind(i).gmtOffset
        /\ tryTm = toLocalTime(zone, l - off)
        /\ again = (/\ tm.isDst /\ ~ tryTm.isDst
                    /\ tryTm.utc.hms.hour = tm.utc.hms.hour /\ tryTm.utc.hms.min = tm.utc.hms.min)
  OBVIOUS
<1>7. fromLocalTime(zone, tm) = l - off - (IF again THEN 3600 ELSE 0)
  BY <1>5, <1>6, SMT DEF fromLocalTime
<1>8. off \in Int
  <2>1. i \in 0 .. Len(zone.trans)
    BY <1>5 DEF IsLast
  <2> QED
    BY <1>6, <2>1, KindType DEF Localtime
<1>9. CASE i = j
  <2>1. l - off = s
    BY <1>4, <1>6, <1>9, SMT
  <2>2. tryTm = tm
    BY <1>6, <2>1, SMT
  <2>3. ~ again
    BY <1>6, <2>2, Zenon
  <2> QED
    BY <1>7, <1>8, <2>1, <2>3, SMT
<1>10. CASE /\ Kind(j).isDst /\ ~ Kind(i).isDst
            /\ Kind(j).gmtOffset = Kind(i).gmtOffset + 3600
            /\ IsLast(Times("gmttime"), Len(zone.trans), s + 3600, i)
  <2>1. PICK t : t = s + 3600
    OBVIOUS
  <2>2. l - off = t /\ t \in Int /\ t + off = l /\ l - off - 3600 = s
    <3>1. PICK c : c = Kind(j).gmtOffset
      OBVIOUS
    <3>2. c = off + 3600 /\ l = s + c
      BY <1>4, <1>6, <1>10, <3>1
    <3> QED
      BY <1>8, <2>1, <3>2, SMT
  <2>3. InForce(t) = Kind(i)
    BY <1>10, <2>1, <2>2, KindInForce, SMT
  <2>4. tryTm = [utc |-> toUtcTime(l), isDst |-> Kind(i).isDst, gmtoff |-> off]
    <3>1. findLocaltime(zone, "gmttime", t) = Kind(i)
      BY <2>2, <2>3, FindsInForce, SMT
    <3>2. tryTm = toLocalTime(zone, t)
      BY <1>6, <2>2, SMT
    <3> QED
      BY <1>6, <2>2, <3>1, <3>2, SMT DEF toLocalTime
  <2>5. tryTm.utc = toUtcTime(l) /\ tryTm.isDst = Kind(i).isDst
    BY <2>4, SMT
  <2>6. again
    <3>1. tm.isDst /\ ~ tryTm.isDst
      BY <1>3, <1>10, <2>5
    <3>2. tryTm.utc.hms.hour = tm.utc.hms.hour /\ tryTm.utc.hms.min = tm.utc.hms.min
      BY <1>3, <2>5
    <3> QED
      BY <1>6, <3>1, <3>2, Zenon
  <2> QED
    BY <1>7, <2>2, <2>6, SMT
<1> QED
  BY <1>1, <1>4, <1>5, <1>9, <1>10, SameOrEndOfSummer, SMT

\* A local time, put together by fromUtcTime(), is the second of UTC and the offset.
LEMMA SecondsOfLocalTime ==
  ASSUME ZoneInv, NEW s \in Instants
  PROVE  s \in Int /\ SecondsOf(toLocalTime(zone, s)) = s + InForce(s).gmtOffset
<1>1. IsDay(date, days) /\ days >= -2440587 /\ zone \in Zones
  BY ZoneDay
<1>2. PICK t : IsSecond(s, days, t)
  BY InstantIsSecond
<1>3. PICK off : off = InForce(s).gmtOffset
  OBVIOUS
<1>4. s \in Int /\ off \in Int /\ -86400 < off /\ off < 86400
  BY <1>1, <1>2, <1>3, InForceType, SMT DEF IsSecond
<1>5. PICK ymd, d, r, l : IsDay(ymd, d) /\ IsSecond(l, d, r) /\ l = s + off
  <2>1. PICK d : d = IF t + off < 0 THEN days - 1 ELSE IF t + off >= 86400 THEN days + 1 ELSE days
    OBVIOUS
  <2>2. IsSecond(s + off, d, (t + off) % 86400)
    BY <1>2, <1>4, <2>1, DayAtOffset, SMT
  <2>3. \E ymd : IsDay(ymd, d)
    BY <1>1, <2>1, DaysAround, SMT
  <2> QED
    BY <2>2, <2>3
<1>6. PICK tm : tm = toLocalTime(zone, s)
  OBVIOUS
<1>7. tm.utc = toUtcTime(l)
  <2>1. findLocaltime(zone, "gmttime", s) = InForce(s)
    BY <1>1, <1>4, FindsInForce, SMT
  <2>2. tm = [utc |-> toUtcTime(l), isDst |-> InForce(s).isDst, gmtoff |-> off]
    BY <1>3, <1>5, <1>6, <2>1, SMT DEF toLocalTime
  <2> QED
    BY <2>2, SMT
<1>8. toUtcTime(l) = [ymd |-> ymd, hms |-> HourMinuteSecond(r), wday |-> weekDay(Julian(ymd)),
                      yday |-> YearDay(ymd)]
  BY <1>5, UtcOfDay, SMT
<1>9. tm.utc.ymd = ymd /\ tm.utc.hms = HourMinuteSecond(r)
  BY <1>7, <1>8, SMT
<1>10. IsTime(HourMinuteSecond(r), r)
  <2>1. r \in Nat
    BY <1>5, SMT DEF IsSecond
  <2> QED
    BY <2>1, HourMinuteSecondIs
<1>11. fromUtcTime(tm.utc.ymd, tm.utc.hms) = l
  BY <1>5, <1>9, <1>10, SecondOfUtc, SMT
<1> QED
  BY <1>3, <1>4, <1>5, <1>6, <1>11, SMT DEF SecondsOf

\* In every zone with standard time and a summer time that is an hour ahead, changed at
\* times more than an hour apart, fromLocalTime() undoes toLocalTime(): in the hour that
\* comes twice at the end of summer time, too.
THEOREM LocalTimesAlwaysComeBack == ZoneSpec => [](HasSummerTime(zone) => LocalTimesComeBack)
<1>1. ZoneInv => (HasSummerTime(zone) => LocalTimesComeBack)
  <2> SUFFICES ASSUME ZoneInv, HasSummerTime(zone), NEW s \in Instants
               PROVE  fromLocalTime(zone, toLocalTime(zone, s)) = s
    BY DEF LocalTimesComeBack
  <2>1. s \in Int /\ SecondsOf(toLocalTime(zone, s)) = s + InForce(s).gmtOffset
    BY SecondsOfLocalTime
  <2>2. zone \in Zones
    BY DEF ZoneInv
  <2> QED
    BY <2>1, <2>2, LocalTimeComesBack, SMT
<1> QED
  BY <1>1, ZoneInvHolds, PTL
=============================================================================
