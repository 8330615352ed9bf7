-------------------------------- MODULE Calendar --------------------------------
(***************************************************************************)
(* date_t and the conversions of time_zone between seconds and UTC: Julian *)
(* day numbers, days of the Gregorian calendar, hours, minutes, seconds.   *)
(* TimeZone.tla adds local time.                                           *)
(*                                                                         *)
(* The algorithms are operators.  The state machine is their reference: it *)
(* walks the calendar day by day, with the lengths of the months and the   *)
(* rule of the leap years, and knows nothing of Julian day numbers.        *)
(***************************************************************************)
EXTENDS IntegerDivision

CONSTANTS
  FirstYear,       \* the walk begins on January 1 of this year,
  FirstWeekDay,    \*   a day of the week counted from Sunday,
  LastYear,        \*   and ends on December 31 of this one
  SampleSeconds    \* the seconds of each day at which clocks are compared

SecondsPerDay == 86400

\* The years from 0 on that are leap years, before this one.
LeapYearsBefore(y) == (y + 3) \div 4 - (y + 99) \div 100 + (y + 399) \div 400

\* January 1 of the year 0 is a Saturday.
ASSUME CalendarAssumption ==
  /\ FirstYear \in Nat /\ LastYear \in Nat
  /\ FirstWeekDay = (6 + 365 * FirstYear + LeapYearsBefore(FirstYear)) % 7
  /\ SampleSeconds \subseteq 0..(SecondsPerDay - 1)

VARIABLES
  year, month, day,    \* the day of the walk
  yday,                \* how many days of the year have gone by
  days                 \* how many days the walk has gone

walkVars == <<year, month, day, yday, days>>

-------------------------------------------------------------------------------
(* The algorithms.                                                         *)

\* get_julian_day_number
JulianDayNumber(y4, m, d) ==
  LET a == Quot(14 - m, 12)
      y == y4 + 4800 - a
  IN d + (153 * (m + 12 * a - 3) + 2) \div 5 + y * 365 + y \div 4 - y \div 100
       + y \div 400 - 32045

\* get_year_month_day
YearMonthDay(jdn) ==
  LET a == jdn + 32044
      b == (4 * a + 3) \div 146097
      c == a - (b * 146097) \div 4
      d == (4 * c + 3) \div 1461
      e == c - (1461 * d) \div 4
      m == (5 * e + 2) \div 153
  IN [year |-> b * 100 + d - 4800 + m \div 10,
      month |-> m + 3 - 12 * (m \div 10),
      day |-> e - (153 * m + 2) \div 5 + 1]

\* week_day, from Sunday
WeekDay(jdn) == (jdn + 1) % 7

JulianDayOf1970 == JulianDayNumber(1970, 1, 1)

\* What to_utc_time makes of a day and a second of it; fillHMS.
Broken(dayNumber, second) ==
  LET date == dayNumber + JulianDayOf1970
      ymd == YearMonthDay(date)
  IN [tm_sec |-> second % 60,
      tm_min |-> (second \div 60) % 60,
      tm_hour |-> second \div 3600,
      tm_year |-> ymd.year - 1900,
      tm_mon |-> ymd.month - 1,
      tm_mday |-> ymd.day,
      tm_wday |-> WeekDay(date),
      tm_yday |-> date - JulianDayNumber(ymd.year, 1, 1)]

\* Faulty: seconds before 1970 are counted back from the wrong day.
ToUtcTimeUnfixed(seconds) ==
  LET s == Rem(seconds, SecondsPerDay) IN
    Broken(Quot(seconds, SecondsPerDay), IF s < 0 THEN s + SecondsPerDay ELSE s)

\* to_utc_time, with yday
ToUtcTime(seconds) ==
  LET s == Rem(seconds, SecondsPerDay)
      d == Quot(seconds, SecondsPerDay)
  IN IF s < 0 THEN Broken(d - 1, s + SecondsPerDay) ELSE Broken(d, s)

\* from_utc_time
FromUtcTime(utc) ==
  LET d == JulianDayNumber(utc.tm_year + 1900, utc.tm_mon + 1, utc.tm_mday)
             - JulianDayOf1970
  IN d * SecondsPerDay + utc.tm_hour * 3600 + utc.tm_min * 60 + utc.tm_sec

-------------------------------------------------------------------------------
(* The walk.                                                               *)

IsLeap(y) == y % 4 = 0 /\ (y % 100 # 0 \/ y % 400 = 0)

DaysOf(m, y) ==
  CASE m \in {4, 6, 9, 11} -> 30
    [] m = 2 -> IF IsLeap(y) THEN 29 ELSE 28
    [] OTHER -> 31

FirstDay ==
  /\ year = FirstYear /\ month = 1 /\ day = 1
  /\ yday = 0
  /\ days = 0

NextDay ==
  /\ day < DaysOf(month, year)
  /\ day' = day + 1
  /\ yday' = yday + 1
  /\ days' = days + 1
  /\ UNCHANGED <<year, month>>

NextMonth ==
  /\ day = DaysOf(month, year)
  /\ month < 12
  /\ month' = month + 1
  /\ day' = 1
  /\ yday' = yday + 1
  /\ days' = days + 1
  /\ UNCHANGED year

NextYear ==
  /\ day = 31 /\ month = 12
  /\ year < LastYear
  /\ year' = year + 1
  /\ month' = 1
  /\ day' = 1
  /\ yday' = 0
  /\ days' = days + 1

NextDate == NextDay \/ NextMonth \/ NextYear

Walk == FirstDay /\ [][NextDate]_walkVars

-------------------------------------------------------------------------------
(* get_julian_day_number numbers the days of the calendar without a gap,   *)
(* and the days of the week follow.                                        *)
Consecutive ==
  LET jdn == JulianDayNumber(year, month, day) IN
  /\ jdn = JulianDayNumber(FirstYear, 1, 1) + days
  /\ WeekDay(jdn) = (FirstWeekDay + days) % 7

\* get_year_month_day is the inverse of get_julian_day_number.
DateRoundTrip ==
  YearMonthDay(JulianDayNumber(year, month, day)) = [year |-> year, month |-> month, day |-> day]

(* Julian day numbers are those of the calendar, and lead back to it.      *)
DaysAgree == Consecutive /\ DateRoundTrip

\* The years whose seconds signed 32-bit integers reach.
YearsOf32Bits == 1902..2037

\* A second of the day of the walk.
Instant(second) ==
  (JulianDayNumber(year, month, day) - JulianDayOf1970) * SecondsPerDay + second

(* to_utc_time and from_utc_time are inverse, and agree with the calendar, *)
(* before 1970 as after (as far as integers of 32 bits reach).             *)
UtcRoundTrip ==
  year \in YearsOf32Bits => \A s \in SampleSeconds :
    LET seconds == Instant(s)
        utc == ToUtcTime(seconds)
    IN /\ FromUtcTime(utc) = seconds
       /\ utc.tm_hour * 3600 + utc.tm_min * 60 + utc.tm_sec = s
       /\ utc.tm_min < 60 /\ utc.tm_sec < 60
       /\ utc.tm_year = year - 1900 /\ utc.tm_mon = month - 1 /\ utc.tm_mday = day
       /\ utc.tm_yday = yday

(* The walk through the calendar and the conversions agree, in days and in *)
(* seconds.                                                                *)
CalendarAgrees == DaysAgree /\ UtcRoundTrip
===============================================================================
