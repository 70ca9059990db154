------------------------------ MODULE Calendar ------------------------------
(***************************************************************************)
(* The Gregorian calendar, as everybody knows it: the reference MSCDate.c  *)
(* is compared with.                                                       *)
(***************************************************************************)
EXTENDS Integers

IsLeap(y) == y % 4 = 0 /\ (y % 100 # 0 \/ y % 400 = 0)

MonthLength(y, m) ==
  CASE m = 2 -> IF IsLeap(y) THEN 29 ELSE 28
    [] m \in {4, 6, 9, 11} -> 30
    [] OTHER -> 31

YearLength(y) == IF IsLeap(y) THEN 366 ELSE 365

IsDate(c) ==
  /\ c.year > 0 /\ c.month \in 1 .. 12
  /\ c.day \in 1 .. MonthLength(c.year, c.month)

NextDay(c) ==
  IF c.day < MonthLength(c.year, c.month)
  THEN [year |-> c.year, month |-> c.month, day |-> c.day + 1]
  ELSE IF c.month < 12
  THEN [year |-> c.year, month |-> c.month + 1, day |-> 1]
  ELSE [year |-> c.year + 1, month |-> 1, day |-> 1]

(* The number of a day in its year: 1 on January 1. *)
YearDay(c) ==
  LET before[m \in 0 .. 11] ==
        IF m = 0 THEN 0 ELSE before[m - 1] + MonthLength(c.year, m)
  IN  before[c.month - 1] + c.day

(* The year y and the month m of a date, or the last day of that month.    *)
Clipped(c, y, m) ==
  [year |-> y, month |-> m,
   day |-> IF c.day > MonthLength(y, m) THEN MonthLength(y, m) ELSE c.day]

(* n months later.  Year 1 is the first. *)
InEra(c, n) == 12 * c.year + c.month - 1 + n >= 12

MonthsLater(c, n) ==
  LET months == 12 * c.year + c.month - 1 + n
  IN  Clipped(c, months \div 12, (months % 12) + 1)

(* ISO 8601: a week is that of its Thursday, and belongs to the year in    *)
(* which that day is; weekday is 0 on Mondays.                             *)
IsoYear(c, weekday) ==
  LET thursday == YearDay(c) - weekday + 3 IN
  IF thursday < 1 THEN c.year - 1
  ELSE IF thursday > YearLength(c.year) THEN c.year + 1
  ELSE c.year

IsoWeek(c, weekday) ==
  LET thursday == YearDay(c) - weekday + 3 IN
  CASE IsoYear(c, weekday) < c.year -> (thursday + YearLength(c.year - 1) - 1) \div 7 + 1
    [] IsoYear(c, weekday) > c.year -> 1
    [] OTHER -> (thursday - 1) \div 7 + 1
=============================================================================
