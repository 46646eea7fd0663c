------------------------------ MODULE Calendar ------------------------------
(***************************************************************************)
(* muduo::Date, and TimeZone::toUtcTime and fromUtcTime: the conversions   *)
(* between days, counted from the Julian day 0 or from the epoch, and the  *)
(* Gregorian calendar.  The code's int division truncates, which matters   *)
(* before the epoch.  The time of day is not split into hours, minutes and *)
(* seconds, and a day has kSecondsPerDay of them.                          *)
(*                                                                         *)
(* The clock starts in any second of FirstYear to LastYear and ticks.      *)
(***************************************************************************)
EXTENDS Integers

CONSTANTS kSecondsPerDay, FirstYear, LastYear

(* From the first whole year after the Julian day 0 to a year before the   *)
(* one, about 1460000, in which 4 * a + 3 leaves the 32 bits of an int.    *)
ASSUME CalendarAssumption ==
  /\ kSecondsPerDay \in Nat \ {0} /\ FirstYear \in Int /\ LastYear \in Int
  /\ FirstYear >= -4712 /\ LastYear <= 1000000

(* Division and remainder of C. *)
Quot(a, b) == IF a >= 0 THEN a \div b ELSE -((-a) \div b)
Rem(a, b)  == a - Quot(a, b) * b

(* Leap days of years, of which every fourth is a leap year but for the    *)
(* centuries that are not divisible by 400.                                *)
EveryFourth(y) == Quot(y, 4)
LeapDays(y)    == Quot(y, 4) - Quot(y, 100) + Quot(y, 400)

getJulianDayNumber(year, month, day) ==
  LET a == Quot(14 - month, 12)
      y == year + 4800 - a
      m == month + 12 * a - 3
  IN  day + Quot(153 * m + 2, 5) + y * 365 + LeapDays(y) - 32045

(* The four-year cycles within a century, without the correction of 3. *)
YearOfCentury(c) == Quot(4 * c, 1461)
YearInCentury(c) == Quot(4 * c + 3, 1461)

getYearMonthDay(julianDayNumber) ==
  LET a == julianDayNumber + 32044
      b == Quot(4 * a + 3, 146097)
      c == a - Quot(b * 146097, 4)
      d == YearInCentury(c)
      e == c - Quot(1461 * d, 4)
      m == Quot(5 * e + 2, 153)
  IN  [day   |-> e - Quot(153 * m + 2, 5) + 1,
       month |-> m + 3 - 12 * Quot(m, 10),
       year  |-> b * 100 + d - 4800 + Quot(m, 10)]

weekDay(julianDayNumber) == Rem(julianDayNumber + 1, 7)

kJulianDayOf1970_01_01 == getJulianDayNumber(1970, 1, 1)

Split(t) ==
  LET seconds == Rem(t, kSecondsPerDay)
      days    == Quot(t, kSecondsPerDay)
  IN  IF seconds < 0 THEN [seconds |-> seconds + kSecondsPerDay, days |-> days - 1]
                     ELSE [seconds |-> seconds, days |-> days]

toUtcTime(t) ==
  LET julian == Split(t).days + kJulianDayOf1970_01_01
      ymd    == getYearMonthDay(julian)
  IN  [year |-> ymd.year - 1900, month |-> ymd.month - 1, day |-> ymd.day,
       wday |-> weekDay(julian), yday |-> julian - getJulianDayNumber(ymd.year, 1, 1),
       seconds |-> Split(t).seconds]

fromUtcTime(tm) ==
  (getJulianDayNumber(tm.year + 1900, tm.month + 1, tm.day) - kJulianDayOf1970_01_01)
    * kSecondsPerDay + tm.seconds

-----------------------------------------------------------------------------
VARIABLES clock,  (* seconds since the epoch, negative before 1970           *)
          utc     (* what toUtcTime makes of it                              *)

calendarVars == <<clock, utc>>

FirstSecond == fromUtcTime([year |-> FirstYear - 1900, month |-> 0, day |-> 1, seconds |-> 0])
LastSecond  == fromUtcTime([year |-> LastYear - 1900, month |-> 11, day |-> 31,
                            seconds |-> kSecondsPerDay - 1])

CalendarInit == clock \in FirstSecond .. LastSecond /\ utc = toUtcTime(clock)
CalendarTick == clock < LastSecond /\ clock' = clock + 1 /\ utc' = toUtcTime(clock')
CalendarSpec == CalendarInit /\ [][CalendarTick]_calendarVars

-----------------------------------------------------------------------------
(* Properties *)

LeapYear(y) == y % 4 = 0 /\ (y % 100 # 0 \/ y % 400 = 0)
DaysOf(month, year) ==
  <<31, IF LeapYear(year) THEN 29 ELSE 28, 31, 30, 31, 30, 31, 31, 30, 31, 30, 31>>[month + 1]

(* A tick moves toUtcTime to the next second of the calendar: the next of  *)
(* the day, or the first of the next day, month and year as the months and *)
(* leap years of the Gregorian calendar have it; the weekday goes round    *)
(* and the day of the year starts again in January.                        *)
NextSecond(tm) ==
  LET lastOfDay   == tm.seconds = kSecondsPerDay - 1
      lastOfMonth == lastOfDay /\ tm.day = DaysOf(tm.month, tm.year + 1900)
      lastOfYear  == lastOfMonth /\ tm.month = 11
  IN  [year    |-> tm.year + IF lastOfYear THEN 1 ELSE 0,
       month   |-> IF lastOfMonth THEN (tm.month + 1) % 12 ELSE tm.month,
       day     |-> IF lastOfMonth THEN 1 ELSE tm.day + IF lastOfDay THEN 1 ELSE 0,
       wday    |-> IF lastOfDay THEN (tm.wday + 1) % 7 ELSE tm.wday,
       yday    |-> IF lastOfYear THEN 0 ELSE tm.yday + IF lastOfDay THEN 1 ELSE 0,
       seconds |-> (tm.seconds + 1) % kSecondsPerDay]

CalendarTicks == [][utc' = NextSecond(utc)]_calendarVars

(* The two directions agree, and the epoch is a Thursday: fromUtcTime,     *)
(* like timegm, gives back the second toUtcTime was asked for.             *)
UtcRoundTrip ==
  fromUtcTime(utc) = clock /\ (clock = 0 => utc.wday = 4 /\ utc.year = 70 /\ utc.yday = 0)
=============================================================================
