--------------------------------- MODULE Date ---------------------------------
(***************************************************************************)
(* Days and broken-down times: log/Date.{h,cc}, and the conversions        *)
(* between seconds and UTC of log/TimeZone.cc.                             *)
(*                                                                         *)
(* The functions of the code are operators here.  What they are compared   *)
(* with is a calendar that knows how long the months are and goes from one *)
(* day to the next, or back, starting from 1970-01-01: the variables are   *)
(* its leaf and the number of leaves turned.                               *)
(***************************************************************************)
EXTENDS CInteger

CONSTANTS
  FirstDay, LastDay,    \* bound: the days walked to, 0 being 1970-01-01
  FirstUtc, LastUtc,    \* bound: those of them whose seconds TLC can count
  Clocks                \* the times of day that are converted, in seconds

ASSUME DateAssumption ==
  /\ LastDay \in Nat
  /\ FirstDay \in Int /\ FirstDay <= 0
  /\ FirstDay >= -2440587    \* valid() wants a positive Julian day number
  /\ FirstUtc \in Int /\ LastUtc \in Int
  /\ \A clock \in Clocks : clock \in Nat /\ clock < 86400

VARIABLES
  date,    \* the leaf of the calendar
  days     \* how many days after 1970-01-01 it is

vars == <<date, days>>

-----------------------------------------------------------------------------
(***************************************************************************)
(* The calendar.                                                           *)
(***************************************************************************)
IsLeap(y) == y % 4 = 0 /\ (y % 100 # 0 \/ y % 400 = 0)

DaysOfMonth(y, m) ==
  IF m = 2 THEN (IF IsLeap(y) THEN 29 ELSE 28)
  ELSE IF m \in {4, 6, 9, 11} THEN 30 ELSE 31

YearMonthDay(y, m, d) == [year |-> y, month |-> m, day |-> d]

DayAfter(ymd) ==
  IF ymd.day < DaysOfMonth(ymd.year, ymd.month)
    THEN YearMonthDay(ymd.year, ymd.month, ymd.day + 1)
  ELSE IF ymd.month < 12 THEN YearMonthDay(ymd.year, ymd.month + 1, 1)
  ELSE YearMonthDay(ymd.year + 1, 1, 1)

DayBefore(ymd) ==
  IF ymd.day > 1 THEN YearMonthDay(ymd.year, ymd.month, ymd.day - 1)
  ELSE IF ymd.month > 1
    THEN YearMonthDay(ymd.year, ymd.month - 1, DaysOfMonth(ymd.year, ymd.month - 1))
  ELSE YearMonthDay(ymd.year - 1, 12, 31)

Init == date = YearMonthDay(1970, 1, 1) /\ days = 0

Forward ==
  /\ days \in 0 .. LastDay - 1
  /\ date' = DayAfter(date) /\ days' = days + 1

Backward ==
  /\ days \in FirstDay + 1 .. 0
  /\ date' = DayBefore(date) /\ days' = days - 1

\* The calendar has no more leaves.
Terminated == days \in {FirstDay, LastDay} /\ UNCHANGED vars

Next == Forward \/ Backward \/ Terminated

Spec == Init /\ [][Next]_vars

-----------------------------------------------------------------------------
(***************************************************************************)
(* The code.                                                               *)
(***************************************************************************)
JulianWithoutCenturies(year, month, day) ==    \* fault: every fourth year is leap
  LET a == Quotient(14 - month, 12)
      y == year + 4800 - a
      m == month + 12 * a - 3
  IN day + Quotient(153 * m + 2, 5) + y * 365 + Quotient(y, 4) - 32083

getJulianDayNumber(year, month, day) ==
  LET a == Quotient(14 - month, 12)
      y == year + 4800 - a
      m == month + 12 * a - 3
  IN day + Quotient(153 * m + 2, 5) + y * 365
       + Quotient(y, 4) - Quotient(y, 100) + Quotient(y, 400) - 32045

MonthsOfTheShiftedYear(julianDayNumber) ==    \* fault: January stays in the old year
  LET a == julianDayNumber + 32044
      b == Quotient(4 * a + 3, 146097)
      c == a - Quotient(b * 146097, 4)
      d == Quotient(4 * c + 3, 1461)
      e == c - Quotient(1461 * d, 4)
      m == Quotient(5 * e + 2, 153)
  IN YearMonthDay(b * 100 + d - 4800, m + 3 - 12 * Quotient(m, 10),
                  e - Quotient(153 * m + 2, 5) + 1)

getYearMonthDay(julianDayNumber) ==
  LET a == julianDayNumber + 32044
      b == Quotient(4 * a + 3, 146097)
      c == a - Quotient(b * 146097, 4)
      d == Quotient(4 * c + 3, 1461)
      e == c - Quotient(1461 * d, 4)
      m == Quotient(5 * e + 2, 153)
  IN YearMonthDay(b * 100 + d - 4800 + Quotient(m, 10), m + 3 - 12 * Quotient(m, 10),
                  e - Quotient(153 * m + 2, 5) + 1)

kJulianDayOf1970_01_01 == getJulianDayNumber(1970, 1, 1)

weekDay(julianDayNumber) == Remainder(julianDayNumber + 1, 7)

kSecondsPerDay == 24 * 60 * 60

TruncatedDay(secondsSinceEpoch) ==    \* fault: the day of a negative remainder
  [days |-> Quotient(secondsSinceEpoch, kSecondsPerDay),
   seconds |-> Remainder(secondsSinceEpoch, kSecondsPerDay) % kSecondsPerDay]

\* The day, and the seconds into it, that toUtcTime() computes.
DayAndSeconds(secondsSinceEpoch) ==
  LET seconds == Remainder(secondsSinceEpoch, kSecondsPerDay)
      day == Quotient(secondsSinceEpoch, kSecondsPerDay)
  IN IF seconds < 0 THEN [days |-> day - 1, seconds |-> seconds + kSecondsPerDay]
     ELSE [days |-> day, seconds |-> seconds]

\* fillHMS()
HourMinuteSecond(seconds) ==
  [hour |-> (seconds \div 60) \div 60, min |-> (seconds \div 60) % 60, sec |-> seconds % 60]

\* toUtcTime() with yday: the broken-down time, its year and month counted as
\* people do.
toUtcTime(secondsSinceEpoch) ==
  LET at == DayAndSeconds(secondsSinceEpoch)
      julian == at.days + kJulianDayOf1970_01_01
      ymd == getYearMonthDay(julian)
  IN [ymd |-> ymd, hms |-> HourMinuteSecond(at.seconds), wday |-> weekDay(julian),
      yday |-> julian - getJulianDayNumber(ymd.year, 1, 1)]

fromUtcTime(ymd, hms) ==
  (getJulianDayNumber(ymd.year, ymd.month, ymd.day) - kJulianDayOf1970_01_01) * kSecondsPerDay
    + hms.hour * 3600 + hms.min * 60 + hms.sec

-----------------------------------------------------------------------------
(***************************************************************************)
(* Safety.                                                                 *)
(***************************************************************************)
\* Julian day numbers follow the calendar through every month end and leap rule, and
\* so do the days of the week (1970-01-01 was a Thursday).
JulianDaysFollowTheCalendar ==
  LET julian == getJulianDayNumber(date.year, date.month, date.day) IN
  /\ julian = kJulianDayOf1970_01_01 + days
  /\ weekDay(julian) = (days + 4) % 7

\* getYearMonthDay() undoes getJulianDayNumber() on every day of the calendar.
DatesComeBack ==
  getYearMonthDay(getJulianDayNumber(date.year, date.month, date.day)) = date

\* Every second of UTC, before 1970 too, is broken down into the calendar's date, its
\* time of day and the right day of the year, and put together again by fromUtcTime().
UtcFollowsTheCalendar ==
  days \in FirstUtc .. LastUtc =>
    \A clock \in Clocks :
      LET seconds == days * kSecondsPerDay + clock
          utc == toUtcTime(seconds)
      IN /\ utc.ymd = date
         /\ utc.hms.hour * 3600 + utc.hms.min * 60 + utc.hms.sec = clock
         /\ utc.hms.min < 60 /\ utc.hms.sec < 60
         /\ utc.wday = (days + 4) % 7
         /\ (utc.yday = 0) <=> (date.month = 1 /\ date.day = 1)
         /\ fromUtcTime(utc.ymd, utc.hms) = seconds
=============================================================================
