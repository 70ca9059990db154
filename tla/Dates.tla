------------------------------- MODULE Dates -------------------------------
(***************************************************************************)
(* CDate (MSCDate.c): a date is a number of seconds from January 1 2001;   *)
(* here its day, n = _tmDay, and its time in that day, _tmTime.  The year, *)
(* month and day are computed from it with a variant of the Rata Die       *)
(* algorithm, in which years begin in March.  Dates are those from         *)
(* January 1 of year 1 on.  What is out of range is a fatal error of the   *)
(* program, and is not made here.                                          *)
(***************************************************************************)
EXTENDS Calendar

CONSTANTS
  Years,      \* bound: the years of the dates
  Times,      \* bound: the times of day
  Changes     \* bound: the years, months and days that are added

ASSUME DatesAssumption ==
  /\ \A y \in Years : y \in Nat /\ y > 0
  /\ \A time \in Times : time \in Nat /\ time < 86400
  /\ \A c \in Changes : c \in Int

VARIABLE date      \* [n, time]: the interval of a CDate

-----------------------------------------------------------------------------
DaysFrom00000229To20010101 == 730792
DaysFrom00010101To20010101 == 730485

daysInMonth == <<31, 28, 31, 30, 31, 30, 31, 31, 30, 31, 30, 31>>
daysInPreviousMonths == <<0, 0, 0, 31, 61, 92, 122, 153, 184, 214, 245, 275, 306, 337>>

LastDayOfMonth(y, m) == IF m = 2 /\ IsLeap(y) THEN 29 ELSE daysInMonth[m]

(* _tmFromYMD, in days. *)
\* Faulty form: the year is not counted from March.
TmFromYMDJanuary(year, month, day) ==
  LET m == IF month < 3 THEN month + 12 ELSE month
      y == year
  IN  day + daysInPreviousMonths[m] + 365 * y
      + y \div 4 - y \div 100 + y \div 400 - DaysFrom00000229To20010101

TmFromYMD(year, month, day) ==
  LET m == IF month < 3 THEN month + 12 ELSE month
      y == IF month < 3 THEN year - 1 ELSE year
  IN  day + daysInPreviousMonths[m] + 365 * y
      + y \div 4 - y \div 100 + y \div 400 - DaysFrom00000229To20010101

(* _dtmCast: its floors of quotients by 36524.25 and 365.25, of a day less *)
(* a quarter, are those of integers.                                       *)
DtmCast(n) ==
  LET Z == n + DaysFrom00000229To20010101
      CENTURY == (4 * Z - 1) \div 146097
      CENTURY_MQUART == CENTURY - CENTURY \div 4
      Y == (4 * (CENTURY_MQUART + Z) - 1) \div 1461
      DAYS_IN_Y == CENTURY_MQUART + Z - (1461 * Y) \div 4
      MONTH_IN_Y == (5 * DAYS_IN_Y + 456) \div 153
      late == MONTH_IN_Y > 12
  IN  [year |-> IF late THEN Y + 1 ELSE Y,
       month |-> IF late THEN MONTH_IN_Y - 12 ELSE MONTH_IN_Y,
       day |-> DAYS_IN_Y - (153 * MONTH_IN_Y - 457) \div 5]

DayOfWeek(n) == (n + DaysFrom00010101To20010101 + 7) % 7

DayOfYear(n) == n - TmFromYMD(DtmCast(n).year, 1, 1) + 1

(* _yearRef: the Monday of the first week of a year. *)
YearRef(y) ==
  LET first == TmFromYMD(y, 1, 1)
      d == DayOfWeek(first)
  IN  first + IF d <= 3 THEN 0 - d ELSE 7 - d

(* _tmWeekOfYear *)
WeekOfYear(n) ==
  LET y == DtmCast(n).year
      ref == YearRef(y)
      w == (n - ref) \div 7 + 1
  IN  IF n < ref THEN (n - YearRef(y - 1)) \div 7 + 1
      ELSE IF w = 53 /\ DtmCast(ref + 52 * 7).day >= 29 THEN 1
      ELSE w

Before(d, e) == d.n < e.n \/ (d.n = e.n /\ d.time < e.time)

(* CDateMonthsBetweenDates *)
MonthsBetween(d, e, usesTime) ==
  LET first == IF Before(d, e) THEN d ELSE e
      last == IF Before(d, e) THEN e ELSE d
      a == DtmCast(first.n)
      b == DtmCast(last.n)
      short == \/ b.day < a.day
               \/ usesTime /\ b.day = a.day /\ last.time < first.time
      months == (b.year - a.year) * 12 + b.month - a.month
                - IF short THEN 1 ELSE 0
  IN  IF Before(d, e) THEN months ELSE 0 - months

-----------------------------------------------------------------------------
(* C's division, which truncates, and its remainder.                       *)
Quotient(a, b) == IF a < 0 THEN 0 - ((0 - a) \div b) ELSE a \div b
Remainder(a, b) == IF a < 0 THEN 0 - ((0 - a) % b) ELSE a % b

(* _tmFromYMDAddingYearsAndMonths *)
\* Faulty form: the day is not cut to the length of the month.
AddingYearsAndMonthsUncut(n, years, months) ==
  LET dt == DtmCast(n)
      m == dt.month + Remainder(months, 12)
      y == dt.year + years + Quotient(months, 12)
      newYear == IF m > 12 THEN y + 1 ELSE IF m < 1 THEN y - 1 ELSE y
      newMonth == IF m > 12 THEN m - 12 ELSE IF m < 1 THEN m + 12 ELSE m
  IN  IF years = 0 /\ months = 0 THEN n
      ELSE TmFromYMD(newYear, newMonth, dt.day)

AddingYearsAndMonths(n, years, months) ==
  LET dt == DtmCast(n)
      m == dt.month + Remainder(months, 12)
      y == dt.year + years + Quotient(months, 12)
      newYear == IF m > 12 THEN y + 1 ELSE IF m < 1 THEN y - 1 ELSE y
      newMonth == IF m > 12 THEN m - 12 ELSE IF m < 1 THEN m + 12 ELSE m
      last == LastDayOfMonth(newYear, newMonth)
  IN  IF years = 0 /\ months = 0 THEN n
      ELSE TmFromYMD(newYear, newMonth, IF dt.day > last THEN last ELSE dt.day)

SetDay(n, day) == TmFromYMD(DtmCast(n).year, DtmCast(n).month, day)
SetYear(n, year) == AddingYearsAndMonths(n, year - DtmCast(n).year, 0)
SetMonth(n, month) == AddingYearsAndMonths(n, 0, month - DtmCast(n).month)
SetWeek(n, week) == n + (week - WeekOfYear(n)) * 7
SetDayOfYear(n, doy) == TmFromYMD(DtmCast(n).year, 1, 1) + doy - 1

(* The days of the year CDateSetDayOfYear accepts: not the last of a leap  *)
(* year, 366, but 367, which is the first day of the next year.            *)
DayOfYearAccepted(n, doy) ==
  doy > 0 /\ (doy < 366 \/ (doy = 367 /\ IsLeap(DtmCast(n).year)))

-----------------------------------------------------------------------------
InYears(n) == DtmCast(n).year \in Years

MoveTo(n) == InYears(n) /\ date' = [date EXCEPT !.n = n]

(* CCreateDateWithYMDHMS, which verifies its arguments. *)
Init ==
  \E y \in Years, m \in 1 .. 12, time \in Times :
    \E d \in 1 .. LastDayOfMonth(y, m) :
      date = [n |-> TmFromYMD(y, m, d), time |-> time]

(* CDateAddYMDHMS, CDateAddYMD: forward, or back by a negative time.       *)
AddYMDHMS ==
  \E years, months, days \in Changes, time \in Times \cup {0 - t : t \in Times} :
    LET n == AddingYearsAndMonths(date.n, years, months) + days
                + (date.time + time) \div 86400
    IN  /\ InEra(DtmCast(date.n), 12 * years + months)
        /\ InYears(n)
        /\ date' = [n |-> n, time |-> (date.time + time) % 86400]
        /\ date'.time \in Times

CDateSetYear == \E y \in Years : MoveTo(SetYear(date.n, y))
CDateSetMonth == \E m \in 1 .. 12 : MoveTo(SetMonth(date.n, m))

CDateSetDay ==
  \E d \in 1 .. LastDayOfMonth(DtmCast(date.n).year, DtmCast(date.n).month) :
    MoveTo(SetDay(date.n, d))

(* A week 53 the year does not have is a fatal error. *)
CDateSetWeek ==
  \E w \in 1 .. 53 :
    /\ WeekOfYear(SetWeek(date.n, w)) = w
    /\ MoveTo(SetWeek(date.n, w))

CDateSetDayOfYear ==
  \E doy \in 1 .. 367 :
    /\ DayOfYearAccepted(date.n, doy)
    /\ MoveTo(SetDayOfYear(date.n, doy))

Next ==
  \/ AddYMDHMS \/ CDateSetYear \/ CDateSetMonth \/ CDateSetDay
  \/ CDateSetWeek \/ CDateSetDayOfYear

Spec == Init /\ [][Next]_date

-----------------------------------------------------------------------------
Today == DtmCast(date.n)

(* The computed year, month and day are the calendar's: they are a date,   *)
(* the day number is computed from them again, and the next number is the  *)
(* next day, with the next day of the week.                                *)
CastAgrees ==
  /\ IsDate(Today)
  /\ TmFromYMD(Today.year, Today.month, Today.day) = date.n
  /\ DtmCast(date.n + 1) = NextDay(Today)
  /\ DayOfWeek(date.n + 1) = (DayOfWeek(date.n) + 1) % 7

(* The day is numbered in its year as in the calendar, and its week is     *)
(* that of ISO 8601, in the first and the last days of a year too.         *)
WeeksAgree ==
  /\ DayOfYear(date.n) = YearDay(Today)
  /\ WeekOfYear(date.n) = IsoWeek(Today, DayOfWeek(date.n))

(* A date and the date m months from it are m months apart, whatever the   *)
(* lengths of the months between; or m - 1, when the day was cut to the    *)
(* end of a shorter month.  A day less, and the last month is not over.    *)
MonthsApart ==
  \A m \in {m \in Changes \ {0} : InEra(Today, m)} :
    LET there == [date EXCEPT !.n = AddingYearsAndMonths(date.n, 0, m)]
        apart == MonthsBetween(date, there, TRUE)
    IN  /\ \/ apart = m
           \/ m > 0 /\ apart = m - 1 /\ DtmCast(there.n).day < Today.day
        /\ m > 0 => MonthsBetween(date, [there EXCEPT !.n = @ - 1], TRUE) = m - 1

(* Moving by months ends in the calendar's month, on the same day or the   *)
(* last of a shorter month; by years and by weeks, too: a week is set in   *)
(* the year the week belongs to, which is not always that of the day.      *)
MovesAgree ==
  /\ \A y, m \in Changes : InEra(Today, 12 * y + m) =>
       DtmCast(AddingYearsAndMonths(date.n, y, m)) = MonthsLater(Today, 12 * y + m)
  /\ \A m \in 1 .. 12 : DtmCast(SetMonth(date.n, m)) = Clipped(Today, Today.year, m)
  /\ \A w \in {1, 2, 52, 53} :
       LET n == SetWeek(date.n, w) IN
       WeekOfYear(n) = w =>
         IsoYear(DtmCast(n), DayOfWeek(n)) = IsoYear(Today, DayOfWeek(date.n))
  /\ MonthsApart

(* The year alone and the day of the month alone are set as in the         *)
(* calendar.  The days of the year that can be set are those of the year,  *)
(* and lead to them, with one exception (MSCDate.c:552): the last day of a *)
(* leap year is refused, and 367, accepted in its place, leaves the year.  *)
DaysAgree ==
  /\ \A y \in Years : DtmCast(SetYear(date.n, y)) = Clipped(Today, y, Today.month)
  /\ \A d \in 1 .. MonthLength(Today.year, Today.month) :
       DtmCast(SetDay(date.n, d)) = [Today EXCEPT !.day = d]
  /\ \A doy \in 1 .. YearLength(Today.year) :
       /\ DayOfYearAccepted(date.n, doy) <=> doy # 366
       /\ LET there == DtmCast(SetDayOfYear(date.n, doy)) IN
          there.year = Today.year /\ YearDay(there) = doy
  /\ DayOfYearAccepted(date.n, 367) =>
       /\ IsLeap(Today.year)
       /\ DtmCast(SetDayOfYear(date.n, 367)) = [year |-> Today.year + 1, month |-> 1, day |-> 1]

(* So the day of the year and the week that are asked of a date, and its   *)
(* moves by years, months and weeks, to a month, to a day of the month and *)
(* to a day of the year, are what the calendar says, but for day 366 of    *)
(* leap years, which cannot be set.                                        *)
CalendarAgrees == WeeksAgree /\ MovesAgree /\ DaysAgree
=============================================================================
