-------------------------- MODULE Foundation_proofs -------------------------
(***************************************************************************)
(* Dates, then locks: two parts of the foundation that share no state.     *)
(*                                                                         *)
(* The computation of MSCDate.c agrees with the calendar, for every year.  *)
(* A day number is split twice: into the century c, the year y of the      *)
(* century and the day N of that year, years beginning in March; and N     *)
(* into the month, 3 to 14, and the day.  For either split one lemma goes  *)
(* from the parts to the number and another one back.                      *)
(* For weeks and months a day is counted from New Year: a week belongs to  *)
(* the year of its Thursday, and months are numbered 12 * year + month.    *)
(*                                                                         *)
(* Mutual exclusion and the conditions asked for hold for every number of  *)
(* threads, conditions and calls.  The inductive invariant also says that  *)
(* on Windows tryLockWhenCondition: tests the condition with the mutex,    *)
(* and that a critical section is only broken by a thread that was not in. *)
(***************************************************************************)
EXTENDS Dates, ConditionLock, FiniteSetTheorems, TLAPS

(***************************************************************************)
(* Quotients                                                               *)
(***************************************************************************)
LEMMA DivMod4 ==
  ASSUME NEW a \in Int
  PROVE  a \div 4 \in Int /\ a % 4 \in 0 .. 3 /\ a = 4 * (a \div 4) + (a % 4)
OBVIOUS

LEMMA CenturyDays ==
  ASSUME NEW a \in Int, NEW c \in Int, NEW K \in Int,
         0 <= K, K < 146097, a = 146097 * c + K
  PROVE  a \div 146097 = c
OBVIOUS

(* The quotients of a year by 4, 100 and 400, from its century. *)
LEMMA Centuries ==
  ASSUME NEW c \in Int, NEW y \in 0 .. 99
  PROVE  /\ (100 * c + y) \div 4 = 25 * c + (y \div 4)
         /\ (100 * c + y) \div 100 = c
         /\ (100 * c + y) \div 400 = c \div 4
<1>1. PICK q \in Int, r \in 0 .. 3 : q = c \div 4 /\ c = 4 * q + r
  BY DivMod4
<1>2. /\ 100 * c + y = 400 * q + (100 * r + y)
      /\ 0 <= 100 * r + y /\ 100 * r + y < 400
  BY <1>1
<1>3. (100 * c + y) \div 400 = q
  BY <1>1, <1>2
<1>4. (100 * c + y) \div 100 = c
  OBVIOUS
<1>5. (100 * c + y) \div 4 = 25 * c + (y \div 4)
  OBVIOUS
<1> QED BY <1>1, <1>3, <1>4, <1>5

LEMMA CenturyOf ==
  ASSUME NEW a \in Int
  PROVE  \E c \in Int, y \in 0 .. 99 : a = 100 * c + y
<1>1. PICK c \in Int : c = a \div 100
  OBVIOUS
<1>2. a - 100 * c \in 0 .. 99
  BY <1>1
<1>3. a = 100 * c + (a - 100 * c)
  OBVIOUS
<1> QED BY <1>2, <1>3

(* The February at the end of a March year is that of the next year. *)
LEMMA LeapFebruary ==
  ASSUME NEW c \in Int, NEW y \in 0 .. 99, NEW Y \in Int, Y = 100 * c + y + 1
  PROVE  IsLeap(Y) <=> (y % 4 = 3 /\ (y = 99 => c % 4 = 3))
<1>1. PICK q \in Int, r \in 0 .. 3 : r = c % 4 /\ c = 4 * q + r
  BY DivMod4
<1>2. PICK u \in Int, v \in 0 .. 3 : v = y % 4 /\ y = 4 * u + v
  <2>1. y \in Int
    OBVIOUS
  <2> QED BY DivMod4, <2>1
<1>3. Y % 4 = 0 <=> v = 3
  <2>1. /\ v + 1 \in 1 .. 4 /\ 25 * c + u \in Int
        /\ Y = 4 * (25 * c + u) + (v + 1)
    BY <1>2
  <2>2. CASE v = 3
    <3>1. Y = 4 * (25 * c + u + 1)
      BY <2>1, <2>2
    <3> QED BY <3>1, <2>1, <2>2
  <2>3. CASE v < 3
    BY <2>1, <2>3
  <2> QED BY <2>2, <2>3
<1>4. CASE y < 99
  <2>1. Y = 100 * c + (y + 1) /\ y + 1 \in 1 .. 99
    BY <1>4
  <2>2. Y % 100 # 0
    BY <2>1
  <2> QED BY <1>2, <1>3, <1>4, <2>2 DEF IsLeap
<1>5. CASE y = 99
  <2>1. Y = 100 * (c + 1) /\ c + 1 \in Int
    BY <1>5
  <2>2. Y % 100 = 0
    BY <2>1
  <2>3. v = 3
    BY <1>2, <1>5
  <2>4. Y % 400 = 0 <=> r = 3
    <3>1. Y = 400 * q + (100 * r + 100)
      BY <2>1, <1>1
    <3>2. CASE r = 3
      <4>1. Y = 400 * (q + 1)
        BY <3>1, <3>2
      <4> QED BY <4>1, <3>2
    <3>3. CASE r < 3
      BY <3>1, <3>3
    <3> QED BY <3>2, <3>3
  <2> QED BY <1>1, <1>2, <1>3, <1>5, <2>2, <2>3, <2>4 DEF IsLeap
<1> QED BY <1>4, <1>5

(***************************************************************************)
(* The month and the day in a March year                                   *)
(***************************************************************************)
MonthInYear(N) == (5 * N + 456) \div 153
DayInMonth(N) == N - (153 * MonthInYear(N) - 457) \div 5

(* A month from March, 3, to the next February, 14, and a day in it. *)
IsMonthDay(m, d) ==
  /\ m \in 3 .. 14 /\ d \in 1 .. 31
  /\ m \in {4, 6, 9, 11} => d <= 30
  /\ m = 14 => d <= 29

LEMMA Table ==
  /\ daysInPreviousMonths[3] = 0 /\ daysInPreviousMonths[4] = 31
  /\ daysInPreviousMonths[5] = 61 /\ daysInPreviousMonths[6] = 92
  /\ daysInPreviousMonths[7] = 122 /\ daysInPreviousMonths[8] = 153
  /\ daysInPreviousMonths[9] = 184 /\ daysInPreviousMonths[10] = 214
  /\ daysInPreviousMonths[11] = 245 /\ daysInPreviousMonths[12] = 275
  /\ daysInPreviousMonths[13] = 306 /\ daysInPreviousMonths[14] = 337
BY DEF daysInPreviousMonths

LEMMA MonthOfDays ==
  ASSUME NEW m, NEW d, IsMonthDay(m, d)
  PROVE  /\ MonthInYear(d + daysInPreviousMonths[m]) = m
         /\ DayInMonth(d + daysInPreviousMonths[m]) = d
         /\ d + daysInPreviousMonths[m] \in 1 .. 366
         /\ d + daysInPreviousMonths[m] = 366 <=> m = 14 /\ d = 29
<1> USE Table DEF MonthInYear, DayInMonth, IsMonthDay
<1>2. CASE m = 3 BY <1>2
<1>3. CASE m = 4 BY <1>3
<1>4. CASE m = 5 BY <1>4
<1>5. CASE m = 6 BY <1>5
<1>6. CASE m = 7 BY <1>6
<1>7. CASE m = 8 BY <1>7
<1>8. CASE m = 9 BY <1>8
<1>9. CASE m = 10 BY <1>9
<1>10. CASE m = 11 BY <1>10
<1>11. CASE m = 12 BY <1>11
<1>12. CASE m = 13 BY <1>12
<1>13. CASE m = 14 BY <1>13
<1> QED BY <1>2, <1>3, <1>4, <1>5, <1>6, <1>7, <1>8, <1>9, <1>10, <1>11, <1>12, <1>13

LEMMA DaysOfMonth ==
  ASSUME NEW N \in Int, 1 <= N, N <= 366
  PROVE  /\ IsMonthDay(MonthInYear(N), DayInMonth(N))
         /\ N = DayInMonth(N) + daysInPreviousMonths[MonthInYear(N)]
         /\ N = 366 <=> MonthInYear(N) = 14 /\ DayInMonth(N) = 29
<1>1. PICK m \in Int : m = MonthInYear(N)
  BY DEF MonthInYear
<1>2. 153 * m <= 5 * N + 456 /\ 5 * N + 456 < 153 * m + 153
  BY <1>1 DEF MonthInYear
<1>3. m \in 3 .. 14
  BY <1>2
<1>4. PICK d \in Int : d = DayInMonth(N)
  BY <1>1 DEF DayInMonth
<1>5. d = N - (153 * m - 457) \div 5
  BY <1>1, <1>4 DEF DayInMonth
<1>6. /\ IsMonthDay(m, d)
      /\ N = d + daysInPreviousMonths[m]
      /\ N = 366 <=> m = 14 /\ d = 29
  <2> USE Table, <1>2, <1>5 DEF IsMonthDay
  <2>2. CASE m = 3 BY <2>2
  <2>3. CASE m = 4 BY <2>3
  <2>4. CASE m = 5 BY <2>4
  <2>5. CASE m = 6 BY <2>5
  <2>6. CASE m = 7 BY <2>6
  <2>7. CASE m = 8 BY <2>7
  <2>8. CASE m = 9 BY <2>8
  <2>9. CASE m = 10 BY <2>9
  <2>10. CASE m = 11 BY <2>10
  <2>11. CASE m = 12 BY <2>11
  <2>12. CASE m = 13 BY <2>12
  <2>13. CASE m = 14 BY <2>13
  <2> QED BY <1>3, <2>2, <2>3, <2>4, <2>5, <2>6, <2>7, <2>8, <2>9, <2>10, <2>11, <2>12, <2>13
<1> QED BY <1>1, <1>4, <1>6

(***************************************************************************)
(* The March year and the day in it                                        *)
(***************************************************************************)
MarchDay(c, y, N) ==
  N + 365 * (100 * c + y) + 24 * c + (y \div 4) + (c \div 4)

(* Such a year has 366 days when the February at its end has 29. *)
IsMarchDay(c, y, N) ==
  /\ c \in Int /\ y \in 0 .. 99 /\ N \in 1 .. 366
  /\ N = 366 => y % 4 = 3 /\ (y = 99 => c % 4 = 3)

LEMMA YearOfDays ==
  ASSUME NEW c, NEW y, NEW N, IsMarchDay(c, y, N)
  PROVE  LET Z == MarchDay(c, y, N)
             C == (4 * Z - 1) \div 146097
             Q == C - C \div 4
             Y == (4 * (Q + Z) - 1) \div 1461
         IN  /\ Z \in Int
             /\ C = c
             /\ Y = 100 * c + y
             /\ Q + Z - (1461 * Y) \div 4 = N
<1> DEFINE Z == MarchDay(c, y, N)
           C == (4 * Z - 1) \div 146097
           Q == C - C \div 4
           Y == (4 * (Q + Z) - 1) \div 1461
<1> USE DEF IsMarchDay
<1>1. PICK q \in Int, r \in 0 .. 3 : q = c \div 4 /\ r = c % 4 /\ c = 4 * q + r
  BY DivMod4
<1>2. PICK u \in Int, v \in 0 .. 3 : u = y \div 4 /\ v = y % 4 /\ y = 4 * u + v
  <2>1. y \in Int
    OBVIOUS
  <2> QED BY DivMod4, <2>1
<1>3. Z = N + 36524 * c + 365 * y + u + q
  BY <1>1, <1>2 DEF MarchDay
<1>4. N = 366 => v = 3 /\ (y = 99 => r = 3)
  BY <1>1, <1>2
<1> HIDE DEF Z
<1>5. Z \in Int
  BY <1>1, <1>2, <1>3
<1>6. C = c
  <2> DEFINE K == 4 * N - r + 1461 * y - v - 1
  <2>1. 4 * Z - 1 = 146097 * c + K
    BY <1>1, <1>2, <1>3
  <2>2. K \in Int /\ 0 <= K /\ K < 146097
    <3>1. v <= y
      BY <1>2
    <3> QED BY <1>1, <1>2, <1>4, <3>1
  <2>3. 4 * Z - 1 \in Int
    BY <1>5
  <2> HIDE DEF K
  <2> QED BY <2>1, <2>2, <2>3, CenturyDays
<1> HIDE DEF C
<1>7. Q = c - q
  BY <1>1, <1>6
<1> HIDE DEF Q
<1>8. Y = 100 * c + y
  <2> DEFINE K == 4 * N - v - 1
  <2>1. 4 * (Q + Z) - 1 = 1461 * (100 * c + y) + K
    BY <1>1, <1>2, <1>3, <1>7
  <2>2. K \in Int /\ 0 <= K /\ K < 1461
    BY <1>2, <1>4
  <2> HIDE DEF K
  <2> QED BY <2>1, <2>2
<1> HIDE DEF Y
<1>9. (1461 * Y) \div 4 = 36525 * c + 365 * y + u
  <2>1. 1461 * Y = 4 * (36525 * c + 365 * y + u) + v
    BY <1>2, <1>8
  <2>2. 36525 * c + 365 * y + u \in Int
    BY <1>2
  <2> QED BY <1>2, <2>1, <2>2
<1>10. Q + Z - (1461 * Y) \div 4 = N
  BY <1>1, <1>2, <1>3, <1>7, <1>9
<1> QED BY <1>5, <1>6, <1>8, <1>10 DEF Z, C, Q, Y

LEMMA DaysOfYear ==
  ASSUME NEW Z \in Int
  PROVE  \E c, y, N : IsMarchDay(c, y, N) /\ Z = MarchDay(c, y, N)
<1>1. PICK c \in Int, K \in Int :
        4 * Z - 1 = 146097 * c + K /\ 0 <= K /\ K < 146097
  <2> DEFINE c == (4 * Z - 1) \div 146097
             K == (4 * Z - 1) - 146097 * c
  <2>1. c \in Int /\ K \in Int /\ 0 <= K /\ K < 146097
    OBVIOUS
  <2>2. 4 * Z - 1 = 146097 * c + K
    <3> HIDE DEF c
    <3> QED BY <2>1
  <2> HIDE DEF c, K
  <2> QED BY <2>1, <2>2
<1>2. PICK q \in Int, r \in 0 .. 3 : q = c \div 4 /\ r = c % 4 /\ c = 4 * q + r
  BY DivMod4
<1>3. PICK M \in Int : M = Z - 36524 * c - q
  OBVIOUS
<1>4. 4 * M = K + 1 + r /\ 1 <= M /\ M <= 36525
  BY <1>1, <1>2, <1>3
<1>5. PICK y \in Int, L \in Int : 4 * M - 1 = 1461 * y + L /\ 0 <= L /\ L < 1461
  <2> DEFINE y == (4 * M - 1) \div 1461
             L == (4 * M - 1) - 1461 * y
  <2>1. y \in Int /\ L \in Int /\ 0 <= L /\ L < 1461
    OBVIOUS
  <2>2. 4 * M - 1 = 1461 * y + L
    <3> HIDE DEF y
    <3> QED BY <2>1
  <2> HIDE DEF y, L
  <2> QED BY <2>1, <2>2
<1>6. y \in 0 .. 99
  BY <1>4, <1>5
<1>7. PICK u \in Int, v \in 0 .. 3 : u = y \div 4 /\ v = y % 4 /\ y = 4 * u + v
  BY DivMod4
<1>8. PICK N \in Int : N = M - 365 * y - u
  OBVIOUS
<1>9. 4 * N = L + 1 + v
  BY <1>5, <1>7, <1>8
<1>10. N \in 1 .. 366 /\ (N = 366 => v = 3)
  BY <1>5, <1>9
<1>11. N = 366 /\ y = 99 => r = 3
  BY <1>1, <1>4, <1>5, <1>9
<1>12. IsMarchDay(c, y, N)
  BY <1>2, <1>6, <1>7, <1>10, <1>11 DEF IsMarchDay
<1>13. Z = MarchDay(c, y, N)
  BY <1>2, <1>3, <1>7, <1>8 DEF MarchDay
<1> QED BY <1>12, <1>13

(***************************************************************************)
(* The two conversions                                                     *)
(***************************************************************************)
IsYMD(y, m, d) == y \in Int /\ m \in 1 .. 12 /\ d \in 1 .. MonthLength(y, m)

LEMMA Shift == DaysFrom00000229To20010101 \in Int
BY SMT DEF DaysFrom00000229To20010101

LEMMA CastOfMarchDay ==
  ASSUME NEW c, NEW y, NEW N, IsMarchDay(c, y, N)
  PROVE  LET m == MonthInYear(N)
         IN  DtmCast(MarchDay(c, y, N) - DaysFrom00000229To20010101) =
               [year |-> IF m > 12 THEN 100 * c + y + 1 ELSE 100 * c + y,
                month |-> IF m > 12 THEN m - 12 ELSE m,
                day |-> DayInMonth(N)]
<1>1. MarchDay(c, y, N) \in Int
  BY YearOfDays
<1>2. (MarchDay(c, y, N) - DaysFrom00000229To20010101) + DaysFrom00000229To20010101
        = MarchDay(c, y, N)
  BY <1>1, Shift
<1> QED BY <1>2, YearOfDays DEF DtmCast, MonthInYear, DayInMonth

LEMMA MarchDayOfDate ==
  ASSUME NEW year \in Int, NEW month \in 1 .. 12, NEW day \in 1 .. MonthLength(year, month)
  PROVE  \E c, y, N :
           /\ IsMarchDay(c, y, N)
           /\ TmFromYMD(year, month, day) = MarchDay(c, y, N) - DaysFrom00000229To20010101
           /\ [year |-> IF MonthInYear(N) > 12 THEN 100 * c + y + 1 ELSE 100 * c + y,
               month |-> IF MonthInYear(N) > 12 THEN MonthInYear(N) - 12 ELSE MonthInYear(N),
               day |-> DayInMonth(N)] = [year |-> year, month |-> month, day |-> day]
<1>1. PICK m \in 3 .. 14 : m = IF month < 3 THEN month + 12 ELSE month
  OBVIOUS
<1>2. PICK March \in Int : March = IF month < 3 THEN year - 1 ELSE year
  OBVIOUS
<1>3. PICK c \in Int, y \in 0 .. 99 : March = 100 * c + y
  BY CenturyOf
<1>4. /\ m > 12 <=> month < 3
      /\ month = IF m > 12 THEN m - 12 ELSE m
      /\ year = IF m > 12 THEN 100 * c + y + 1 ELSE 100 * c + y
  BY <1>1, <1>2, <1>3
<1>5. /\ day \in 1 .. 31
      /\ m \in {4, 6, 9, 11} => day <= 30
      /\ m = 14 => day <= 29
      /\ m = 14 /\ day = 29 => IsLeap(year)
  BY <1>1 DEF MonthLength
<1>6. PICK N : N = day + daysInPreviousMonths[m]
  OBVIOUS
<1>7. /\ MonthInYear(N) = m
      /\ DayInMonth(N) = day
      /\ N \in 1 .. 366
      /\ N = 366 <=> m = 14 /\ day = 29
  <2>1. IsMonthDay(m, day)
    BY <1>5 DEF IsMonthDay
  <2> QED BY <1>6, <2>1, MonthOfDays
<1>8. m = 14 => year = 100 * c + y + 1
  BY <1>4
<1>9. N = 366 => y % 4 = 3 /\ (y = 99 => c % 4 = 3)
  BY <1>5, <1>7, <1>8, LeapFebruary
<1>10. IsMarchDay(c, y, N)
  BY <1>7, <1>9 DEF IsMarchDay
<1>11. TmFromYMD(year, month, day) = MarchDay(c, y, N) - DaysFrom00000229To20010101
  <2>1. TmFromYMD(year, month, day) =
          N + 365 * March + March \div 4 - March \div 100 + March \div 400
            - DaysFrom00000229To20010101
    BY <1>1, <1>2, <1>6 DEF TmFromYMD
  <2>2. /\ March \div 4 = 25 * c + (y \div 4)
        /\ March \div 100 = c
        /\ March \div 400 = c \div 4
    BY <1>3, Centuries
  <2>3. PICK q \in Int, u \in Int : q = c \div 4 /\ u = y \div 4
    OBVIOUS
  <2>4. TmFromYMD(year, month, day) =
          N + 365 * (100 * c + y) + (25 * c + u) - c + q - DaysFrom00000229To20010101
    BY <1>3, <2>1, <2>2, <2>3
  <2>5. MarchDay(c, y, N) = N + 365 * (100 * c + y) + 24 * c + u + q
    BY <2>3 DEF MarchDay
  <2> QED BY <1>7, <2>3, <2>4, <2>5, Shift
<1> QED BY <1>4, <1>7, <1>10, <1>11

(* The day number of a date is read as that date again (_tmFromYMD and     *)
(* _dtmCast of MSCDate.c), in every year.                                  *)
THEOREM DateRoundTrip ==
  ASSUME NEW year \in Int, NEW month \in 1 .. 12, NEW day \in 1 .. MonthLength(year, month)
  PROVE  /\ DtmCast(TmFromYMD(year, month, day)) =
              [year |-> year, month |-> month, day |-> day]
         /\ TmFromYMD(year, month, day) \in Int
<1>1. PICK c, y, N :
        /\ IsMarchDay(c, y, N)
        /\ TmFromYMD(year, month, day) = MarchDay(c, y, N) - DaysFrom00000229To20010101
        /\ [year |-> IF MonthInYear(N) > 12 THEN 100 * c + y + 1 ELSE 100 * c + y,
            month |-> IF MonthInYear(N) > 12 THEN MonthInYear(N) - 12 ELSE MonthInYear(N),
            day |-> DayInMonth(N)] = [year |-> year, month |-> month, day |-> day]
  BY MarchDayOfDate
<1>2. MarchDay(c, y, N) \in Int
  BY <1>1, YearOfDays
<1>3. TmFromYMD(year, month, day) \in Int
  BY <1>1, <1>2, Shift
<1> QED BY <1>1, <1>3, CastOfMarchDay

(* Every day number is that of the date it is read as, and that is a date  *)
(* of the calendar.                                                        *)
THEOREM DayRoundTrip ==
  ASSUME NEW n \in Int
  PROVE  /\ IsYMD(DtmCast(n).year, DtmCast(n).month, DtmCast(n).day)
         /\ TmFromYMD(DtmCast(n).year, DtmCast(n).month, DtmCast(n).day) = n
<1>1. PICK c, y, N : IsMarchDay(c, y, N) /\ n + DaysFrom00000229To20010101 = MarchDay(c, y, N)
  BY DaysOfYear, Shift
<1>2. n = MarchDay(c, y, N) - DaysFrom00000229To20010101
  BY <1>1, Shift
<1>3. c \in Int /\ y \in 0 .. 99 /\ N \in 1 .. 366
  BY <1>1 DEF IsMarchDay
<1>4. PICK m, d : m = MonthInYear(N) /\ d = DayInMonth(N)
  OBVIOUS
<1>5. /\ m \in 3 .. 14 /\ d \in 1 .. 31
      /\ m \in {4, 6, 9, 11} => d <= 30
      /\ m = 14 => d <= 29
      /\ N = d + daysInPreviousMonths[m]
      /\ N = 366 <=> m = 14 /\ d = 29
  <2>1. /\ IsMonthDay(m, d)
        /\ N = d + daysInPreviousMonths[m]
        /\ N = 366 <=> m = 14 /\ d = 29
    BY <1>3, <1>4, DaysOfMonth
  <2> QED BY <2>1 DEF IsMonthDay
<1>6. PICK year \in Int, month \in 1 .. 12 :
        /\ year = IF m > 12 THEN 100 * c + y + 1 ELSE 100 * c + y
        /\ month = IF m > 12 THEN m - 12 ELSE m
  <2>1. CASE m > 12
    <3>1. 100 * c + y + 1 \in Int /\ m - 12 \in 1 .. 12
      BY <1>3, <1>5, <2>1
    <3> QED BY <2>1, <3>1
  <2>2. CASE ~(m > 12)
    <3>1. 100 * c + y \in Int /\ m \in 1 .. 12
      BY <1>3, <1>5, <2>2
    <3> QED BY <2>2, <3>1
  <2> QED BY <2>1, <2>2
<1>7. DtmCast(n) = [year |-> year, month |-> month, day |-> d]
  BY <1>1, <1>2, <1>4, <1>6, CastOfMarchDay
<1>8. d <= MonthLength(year, month)
  <2>1. CASE month = 2
    <3>1. m = 14 /\ year = 100 * c + y + 1
      BY <1>5, <1>6, <2>1
    <3>2. d = 29 => IsLeap(year)
      BY <1>1, <1>3, <1>5, <3>1, LeapFebruary DEF IsMarchDay
    <3> QED BY <1>5, <2>1, <3>1, <3>2 DEF MonthLength
  <2>2. CASE month \in {4, 6, 9, 11}
    <3>1. m = month
      BY <1>5, <1>6, <2>2
    <3> QED BY <1>5, <2>2, <3>1 DEF MonthLength
  <2>3. CASE month \notin {2, 4, 6, 9, 11}
    BY <1>5, <2>3 DEF MonthLength
  <2> QED BY <2>1, <2>2, <2>3
<1>9. d \in 1 .. MonthLength(year, month)
  <2>1. MonthLength(year, month) \in Int
    BY DEF MonthLength
  <2> QED BY <1>5, <1>8, <2>1
<1>10. PICK C, Y, M :
         /\ IsMarchDay(C, Y, M)
         /\ TmFromYMD(year, month, d) = MarchDay(C, Y, M) - DaysFrom00000229To20010101
         /\ [year |-> IF MonthInYear(M) > 12 THEN 100 * C + Y + 1 ELSE 100 * C + Y,
             month |-> IF MonthInYear(M) > 12 THEN MonthInYear(M) - 12 ELSE MonthInYear(M),
             day |-> DayInMonth(M)] = [year |-> year, month |-> month, day |-> d]
  BY <1>9, MarchDayOfDate
<1>11. C = c /\ Y = y /\ M = N
  <2>1. C \in Int /\ Y \in 0 .. 99 /\ M \in 1 .. 366
    BY <1>10 DEF IsMarchDay
  <2>2. PICK p, e : p = MonthInYear(M) /\ e = DayInMonth(M)
    OBVIOUS
  <2>3. p \in 3 .. 14 /\ M = e + daysInPreviousMonths[p]
    <3>1. IsMonthDay(p, e) /\ M = e + daysInPreviousMonths[p]
      BY <2>1, <2>2, DaysOfMonth
    <3> QED BY <3>1 DEF IsMonthDay
  <2>4. /\ e = d
        /\ month = IF p > 12 THEN p - 12 ELSE p
        /\ year = IF p > 12 THEN 100 * C + Y + 1 ELSE 100 * C + Y
    BY <1>10, <2>2
  <2>5. p = m
    BY <1>5, <1>6, <2>3, <2>4
  <2>6. 100 * C + Y = 100 * c + y
    BY <1>3, <1>5, <1>6, <2>1, <2>4, <2>5
  <2>7. C = c /\ Y = y
    BY <1>3, <2>1, <2>6
  <2> QED BY <1>5, <2>3, <2>4, <2>5, <2>7
<1>12. TmFromYMD(year, month, d) = n
  BY <1>2, <1>10, <1>11
<1> QED BY <1>7, <1>9, <1>12 DEF IsYMD

(***************************************************************************)
(* The next day                                                            *)
(***************************************************************************)
LEMMA LeapStep ==
  ASSUME NEW a \in Int
  PROVE  a \div 4 - a \div 100 + a \div 400 =
           (a - 1) \div 4 - (a - 1) \div 100 + (a - 1) \div 400
             + IF IsLeap(a) THEN 1 ELSE 0
<1>1. a \div 4 = ((a - 1) \div 4) + IF a % 4 = 0 THEN 1 ELSE 0
  OBVIOUS
<1>2. a \div 100 = ((a - 1) \div 100) + IF a % 100 = 0 THEN 1 ELSE 0
  OBVIOUS
<1>3. a \div 400 = ((a - 1) \div 400) + IF a % 400 = 0 THEN 1 ELSE 0
  OBVIOUS
<1>4. a % 400 = 0 => a % 100 = 0
  OBVIOUS
<1>5. a % 100 = 0 => a % 4 = 0
  OBVIOUS
<1>6. /\ a \div 4 \in Int /\ a \div 100 \in Int /\ a \div 400 \in Int
      /\ (a - 1) \div 4 \in Int /\ (a - 1) \div 100 \in Int /\ (a - 1) \div 400 \in Int
  OBVIOUS
<1>7. CASE a % 4 # 0
  BY <1>1, <1>2, <1>3, <1>4, <1>5, <1>6, <1>7 DEF IsLeap
<1>8. CASE a % 4 = 0 /\ a % 100 # 0
  BY <1>1, <1>2, <1>3, <1>4, <1>6, <1>8 DEF IsLeap
<1>9. CASE a % 100 = 0 /\ a % 400 # 0
  BY <1>1, <1>2, <1>3, <1>5, <1>6, <1>9 DEF IsLeap
<1>10. CASE a % 400 = 0
  BY <1>1, <1>2, <1>3, <1>4, <1>5, <1>6, <1>10 DEF IsLeap
<1> QED BY <1>5, <1>7, <1>8, <1>9, <1>10

(* The days before the March year y. *)
DaysBefore(y) ==
  365 * y + y \div 4 - y \div 100 + y \div 400 - DaysFrom00000229To20010101

LEMMA BeforeNext ==
  ASSUME NEW y \in Int
  PROVE  /\ DaysBefore(y) \in Int
         /\ DaysBefore(y) = DaysBefore(y - 1) + 365 + IF IsLeap(y) THEN 1 ELSE 0
<1>1. /\ y \div 4 \in Int /\ y \div 100 \in Int /\ y \div 400 \in Int
      /\ (y - 1) \div 4 \in Int /\ (y - 1) \div 100 \in Int /\ (y - 1) \div 400 \in Int
  OBVIOUS
<1> QED BY <1>1, Shift, LeapStep DEF DaysBefore

LEMMA YMDEarly ==
  ASSUME NEW y \in Int, NEW m \in {1, 2}, NEW d \in Int
  PROVE  TmFromYMD(y, m, d) = d + daysInPreviousMonths[m + 12] + DaysBefore(y - 1)
<1>1. /\ (y - 1) \div 4 \in Int /\ (y - 1) \div 100 \in Int /\ (y - 1) \div 400 \in Int
      /\ daysInPreviousMonths[m + 12] \in Int
  BY Table
<1>2. TmFromYMD(y, m, d) = d + daysInPreviousMonths[m + 12] + 365 * (y - 1)
        + (y - 1) \div 4 - (y - 1) \div 100 + (y - 1) \div 400
        - DaysFrom00000229To20010101
  BY DEF TmFromYMD
<1> QED BY <1>1, <1>2, Shift DEF DaysBefore

LEMMA YMDLate ==
  ASSUME NEW y \in Int, NEW m \in Int, 3 <= m, m <= 12, NEW d \in Int
  PROVE  TmFromYMD(y, m, d) = d + daysInPreviousMonths[m] + DaysBefore(y)
<1>1. /\ y \div 4 \in Int /\ y \div 100 \in Int /\ y \div 400 \in Int
      /\ daysInPreviousMonths[m] \in Int
  BY DEF daysInPreviousMonths
<1>2. TmFromYMD(y, m, d) = d + daysInPreviousMonths[m] + 365 * y
        + y \div 4 - y \div 100 + y \div 400 - DaysFrom00000229To20010101
  BY DEF TmFromYMD
<1> QED BY <1>1, <1>2, Shift DEF DaysBefore

LEMMA Tomorrow ==
  ASSUME NEW y \in Int, NEW m \in 1 .. 12, NEW d \in 1 .. MonthLength(y, m)
  PROVE  \E Y \in Int, M \in 1 .. 12 : \E D \in 1 .. MonthLength(Y, M) :
           /\ NextDay([year |-> y, month |-> m, day |-> d]) =
                [year |-> Y, month |-> M, day |-> D]
           /\ TmFromYMD(Y, M, D) = TmFromYMD(y, m, d) + 1
<1>1. MonthLength(y, m) \in 28 .. 31
  BY DEF MonthLength
<1>2. d \in Int /\ d + 1 \in Int
  BY <1>1
<1>3. DaysBefore(y) \in Int /\ DaysBefore(y - 1) \in Int
  BY BeforeNext
<1>4. CASE d < MonthLength(y, m)
  <2>1. d + 1 \in 1 .. MonthLength(y, m)
    BY <1>1, <1>4
  <2>2. NextDay([year |-> y, month |-> m, day |-> d]) =
          [year |-> y, month |-> m, day |-> d + 1]
    BY <1>4 DEF NextDay
  <2>3. TmFromYMD(y, m, d + 1) = TmFromYMD(y, m, d) + 1
    <3>1. CASE m < 3
      <4>1. daysInPreviousMonths[m + 12] \in Int
        BY <3>1 DEF daysInPreviousMonths
      <4>2. m \in {1, 2}
        BY <3>1
      <4>3. TmFromYMD(y, m, d) = d + daysInPreviousMonths[m + 12] + DaysBefore(y - 1)
        BY <1>2, <4>2, YMDEarly
      <4>4. TmFromYMD(y, m, d + 1) = (d + 1) + daysInPreviousMonths[m + 12] + DaysBefore(y - 1)
        BY <1>2, <4>2, YMDEarly
      <4> QED BY <1>2, <1>3, <4>1, <4>3, <4>4
    <3>2. CASE m >= 3
      <4>1. daysInPreviousMonths[m] \in Int
        BY <3>2 DEF daysInPreviousMonths
      <4>2. m \in Int /\ 3 <= m /\ m <= 12
        BY <3>2
      <4>3. TmFromYMD(y, m, d) = d + daysInPreviousMonths[m] + DaysBefore(y)
        BY <1>2, <4>2, YMDLate
      <4>4. TmFromYMD(y, m, d + 1) = (d + 1) + daysInPreviousMonths[m] + DaysBefore(y)
        BY <1>2, <4>2, YMDLate
      <4> QED BY <1>2, <1>3, <4>1, <4>3, <4>4
    <3> QED BY <3>1, <3>2
  <2> QED BY <2>1, <2>2, <2>3
<1>5. CASE d = MonthLength(y, m) /\ m < 12
  <2>1. m + 1 \in 1 .. 12 /\ 1 \in 1 .. MonthLength(y, m + 1)
    BY <1>5 DEF MonthLength
  <2>2. NextDay([year |-> y, month |-> m, day |-> d]) =
          [year |-> y, month |-> m + 1, day |-> 1]
    BY <1>1, <1>5 DEF NextDay
  <2>3. TmFromYMD(y, m + 1, 1) = TmFromYMD(y, m, d) + 1
    <3>1. CASE m = 1
      <4>1. /\ TmFromYMD(y, 1, d) = d + 306 + DaysBefore(y - 1)
            /\ TmFromYMD(y, 2, 1) = 1 + 337 + DaysBefore(y - 1)
        BY <1>2, Table, YMDEarly
      <4> QED BY <1>3, <1>5, <3>1, <4>1 DEF MonthLength
    <3>2. CASE m = 2
      <4>1. TmFromYMD(y, 2, d) = d + 337 + DaysBefore(y - 1)
        BY <1>2, Table, YMDEarly
      <4>2. TmFromYMD(y, 3, 1) = 1 + 0 + DaysBefore(y)
        <5>1. TmFromYMD(y, 3, 1) = 1 + daysInPreviousMonths[3] + DaysBefore(y)
          BY YMDLate
        <5> QED BY <5>1, Table
      <4>3. DaysBefore(y) = DaysBefore(y - 1) + 365 + IF IsLeap(y) THEN 1 ELSE 0
        BY BeforeNext
      <4> QED BY <1>3, <1>5, <3>2, <4>1, <4>2, <4>3 DEF MonthLength
    <3>3. CASE m >= 3
      <4>1. /\ TmFromYMD(y, m, d) = d + daysInPreviousMonths[m] + DaysBefore(y)
            /\ TmFromYMD(y, m + 1, 1) = 1 + daysInPreviousMonths[m + 1] + DaysBefore(y)
        BY <1>2, <1>5, <2>1, <3>3, YMDLate
      <4>2. daysInPreviousMonths[m + 1] = daysInPreviousMonths[m] + MonthLength(y, m)
        BY <1>5, <3>3, Table DEF MonthLength
      <4>3. daysInPreviousMonths[m] \in Int
        BY <3>3 DEF daysInPreviousMonths
      <4> QED BY <1>1, <1>2, <1>3, <1>5, <4>1, <4>2, <4>3
    <3> QED BY <3>1, <3>2, <3>3
  <2> QED BY <2>1, <2>2, <2>3
<1>6. CASE d = MonthLength(y, m) /\ m = 12
  <2>1. y + 1 \in Int /\ 1 \in 1 .. 12 /\ 1 \in 1 .. MonthLength(y + 1, 1)
    BY DEF MonthLength
  <2>2. NextDay([year |-> y, month |-> m, day |-> d]) =
          [year |-> y + 1, month |-> 1, day |-> 1]
    BY <1>1, <1>6 DEF NextDay
  <2>3. TmFromYMD(y + 1, 1, 1) = TmFromYMD(y, m, d) + 1
    <3>1. TmFromYMD(y, 12, d) = d + 275 + DaysBefore(y)
      BY <1>2, Table, YMDLate
    <3>2. TmFromYMD(y + 1, 1, 1) = 1 + 306 + DaysBefore((y + 1) - 1)
      BY <2>1, Table, YMDEarly
    <3>3. (y + 1) - 1 = y /\ d = 31
      BY <1>6 DEF MonthLength
    <3> QED BY <1>3, <1>6, <3>1, <3>2, <3>3
  <2> QED BY <2>1, <2>2, <2>3
<1>7. d < MonthLength(y, m) \/ (d = MonthLength(y, m) /\ (m < 12 \/ m = 12))
  BY <1>1
<1> QED BY <1>4, <1>5, <1>6, <1>7

(***************************************************************************)
(* The operations                                                          *)
(***************************************************************************)
LEMMA CastForm ==
  ASSUME NEW n \in Int
  PROVE  \E y \in Int, m \in 1 .. 12 : \E d \in 1 .. MonthLength(y, m) :
           /\ DtmCast(n) = [year |-> y, month |-> m, day |-> d]
           /\ TmFromYMD(y, m, d) = n
<1>1. PICK c, y, N : IsMarchDay(c, y, N) /\ n + DaysFrom00000229To20010101 = MarchDay(c, y, N)
  BY DaysOfYear, Shift
<1>2. n = MarchDay(c, y, N) - DaysFrom00000229To20010101
  BY <1>1, Shift
<1>3. PICK m, year, month, day :
        /\ m = MonthInYear(N) /\ day = DayInMonth(N)
        /\ year = IF m > 12 THEN 100 * c + y + 1 ELSE 100 * c + y
        /\ month = IF m > 12 THEN m - 12 ELSE m
  OBVIOUS
<1>4. DtmCast(n) = [year |-> year, month |-> month, day |-> day]
  BY <1>1, <1>2, <1>3, CastOfMarchDay
<1>5. year = DtmCast(n).year /\ month = DtmCast(n).month /\ day = DtmCast(n).day
  BY <1>4
<1>6. IsYMD(year, month, day) /\ TmFromYMD(year, month, day) = n
  BY <1>5, DayRoundTrip
<1> QED BY <1>4, <1>6 DEF IsYMD

LEMMA CastTypes ==
  ASSUME NEW n \in Int
  PROVE  /\ DtmCast(n).year \in Int /\ DtmCast(n).month \in Int
         /\ 1 <= DtmCast(n).month /\ DtmCast(n).month <= 12
         /\ DtmCast(n).day \in Int
<1>1. PICK y \in Int, m \in 1 .. 12 : \E d \in 1 .. MonthLength(y, m) :
        DtmCast(n) = [year |-> y, month |-> m, day |-> d]
  BY CastForm
<1>2. PICK d \in 1 .. MonthLength(y, m) : DtmCast(n) = [year |-> y, month |-> m, day |-> d]
  BY <1>1
<1>3. d \in Int
  BY DEF MonthLength
<1> QED BY <1>2, <1>3

LEMMA TmInt ==
  ASSUME NEW y \in Int, NEW m \in Int, 1 <= m, m <= 12, NEW d \in Int
  PROVE  TmFromYMD(y, m, d) \in Int
<1>1. DaysBefore(y) \in Int /\ DaysBefore(y - 1) \in Int
  BY BeforeNext
<1>2. CASE m < 3
  <2>1. m \in {1, 2} /\ daysInPreviousMonths[m + 12] \in Int
    BY <1>2 DEF daysInPreviousMonths
  <2>2. TmFromYMD(y, m, d) = d + daysInPreviousMonths[m + 12] + DaysBefore(y - 1)
    BY <2>1, YMDEarly
  <2> QED BY <1>1, <2>1, <2>2
<1>3. CASE m >= 3
  <2>1. daysInPreviousMonths[m] \in Int
    BY <1>3 DEF daysInPreviousMonths
  <2>2. TmFromYMD(y, m, d) = d + daysInPreviousMonths[m] + DaysBefore(y)
    BY <1>3, YMDLate
  <2> QED BY <1>1, <2>1, <2>2
<1> QED BY <1>2, <1>3

LEMMA LastDay ==
  ASSUME NEW y \in Int, NEW m \in Int, 1 <= m, m <= 12
  PROVE  LastDayOfMonth(y, m) = MonthLength(y, m) /\ LastDayOfMonth(y, m) \in Int
<1> USE DEF LastDayOfMonth, MonthLength, daysInMonth
<1>1. CASE m = 2 BY <1>1
<1>2. CASE m \in {4, 6, 9, 11} BY <1>2
<1>3. CASE m \in {1, 3, 5, 7, 8, 10, 12} BY <1>3
<1> QED BY <1>1, <1>2, <1>3

LEMMA AddInt ==
  ASSUME NEW n \in Int, NEW years \in Int, NEW months \in Int
  PROVE  AddingYearsAndMonths(n, years, months) \in Int
<1> DEFINE dt == DtmCast(n)
           m == dt.month + Remainder(months, 12)
           y == dt.year + years + Quotient(months, 12)
           newYear == IF m > 12 THEN y + 1 ELSE IF m < 1 THEN y - 1 ELSE y
           newMonth == IF m > 12 THEN m - 12 ELSE IF m < 1 THEN m + 12 ELSE m
           last == LastDayOfMonth(newYear, newMonth)
           newDay == IF dt.day > last THEN last ELSE dt.day
<1>1. /\ Remainder(months, 12) \in Int /\ Quotient(months, 12) \in Int
      /\ 0 - 12 < Remainder(months, 12) /\ Remainder(months, 12) < 12
  BY DEF Remainder, Quotient
<1>2. /\ dt.year \in Int /\ dt.month \in Int /\ dt.day \in Int
      /\ 1 <= dt.month /\ dt.month <= 12
  BY CastTypes
<1>3. AddingYearsAndMonths(n, years, months) =
        IF years = 0 /\ months = 0 THEN n ELSE TmFromYMD(newYear, newMonth, newDay)
  BY DEF AddingYearsAndMonths
<1> HIDE DEF dt
<1>4. newYear \in Int /\ newMonth \in Int /\ 1 <= newMonth /\ newMonth <= 12
  BY <1>1, <1>2
<1> HIDE DEF newYear, newMonth
<1>5. last \in Int
  BY <1>4, LastDay
<1> HIDE DEF last
<1>6. newDay \in Int
  BY <1>2, <1>5
<1> HIDE DEF newDay
<1>7. TmFromYMD(newYear, newMonth, newDay) \in Int
  BY <1>4, <1>6, TmInt
<1> QED BY <1>3, <1>7

LEMMA WeekInt ==
  ASSUME NEW n \in Int
  PROVE  WeekOfYear(n) \in Int
<1>1. \A y \in Int : YearRef(y) \in Int
  <2> SUFFICES ASSUME NEW y \in Int PROVE YearRef(y) \in Int
    OBVIOUS
  <2>1. PICK first \in Int : first = TmFromYMD(y, 1, 1)
    BY TmInt
  <2>2. DayOfWeek(first) \in Int
    BY <2>1, SMT DEF DayOfWeek, DaysFrom00010101To20010101
  <2> QED BY <2>1, <2>2 DEF YearRef
<1>2. PICK y \in Int : y = DtmCast(n).year
  BY CastTypes
<1>3. PICK ref \in Int, before \in Int : ref = YearRef(y) /\ before = YearRef(y - 1)
  BY <1>1
<1> QED BY <1>2, <1>3 DEF WeekOfYear

(***************************************************************************)
(* The invariant: a date has a day number, of one of the years.            *)
(***************************************************************************)
DateOK == date \in [n : Int, time : Times] /\ InYears(date.n)

LEMMA MoveKeeps ==
  ASSUME DateOK, NEW n \in Int, MoveTo(n)
  PROVE  DateOK'
BY DEF DateOK, MoveTo, InYears

LEMMA DateInvariant == Spec => []DateOK
<1>1. Init => DateOK
  <2> SUFFICES ASSUME NEW y \in Years, NEW m \in 1 .. 12, NEW time \in Times,
                      NEW d \in 1 .. LastDayOfMonth(y, m),
                      date = [n |-> TmFromYMD(y, m, d), time |-> time]
               PROVE  DateOK
    BY DEF Init
  <2>1. y \in Int
    BY DatesAssumption
  <2>2. d \in 1 .. MonthLength(y, m)
    BY <2>1, LastDay
  <2>3. /\ DtmCast(TmFromYMD(y, m, d)) = [year |-> y, month |-> m, day |-> d]
        /\ TmFromYMD(y, m, d) \in Int
    BY <2>1, <2>2, DateRoundTrip
  <2> QED BY <2>3 DEF DateOK, InYears
<1>2. DateOK /\ [Next]_date => DateOK'
  <2> SUFFICES ASSUME DateOK, [Next]_date PROVE DateOK'
    OBVIOUS
  <2>1. date \in [n : Int, time : Times]
    BY DEF DateOK
  <2>2. PICK n \in Int, t \in Times : date = [n |-> n, time |-> t]
    BY <2>1
  <2>3. PICK year \in Int, month \in Int :
          /\ year = DtmCast(n).year /\ month = DtmCast(n).month
          /\ 1 <= month /\ month <= 12
    BY CastTypes
  <2>4. CASE AddYMDHMS
    <3>1. PICK years \in Changes, months \in Changes, days \in Changes,
               time \in Times \cup {0 - u : u \in Times} :
            LET N == AddingYearsAndMonths(n, years, months) + days
                        + (t + time) \div 86400
            IN  /\ InYears(N)
                /\ date' = [n |-> N, time |-> (t + time) % 86400]
                /\ date'.time \in Times
      BY <2>2, <2>4 DEF AddYMDHMS
    <3>2. years \in Int /\ months \in Int /\ days \in Int /\ t + time \in Int
      BY DatesAssumption
    <3>3. AddingYearsAndMonths(n, years, months) \in Int
      BY <3>2, AddInt
    <3>4. (t + time) \div 86400 \in Int
      BY <3>2, SMT
    <3>5. PICK N \in Int : N = AddingYearsAndMonths(n, years, months) + days
                                 + (t + time) \div 86400
      BY <3>2, <3>3, <3>4
    <3>6. PICK time2 \in Times : date' = [n |-> N, time |-> time2] /\ InYears(N)
      BY <3>1, <3>5
    <3> QED BY <3>6 DEF DateOK, InYears
  <2>5. CASE CDateSetYear
    <3>1. PICK y \in Years : MoveTo(SetYear(n, y))
      BY <2>2, <2>5 DEF CDateSetYear
    <3>2. SetYear(n, y) \in Int
      <4>1. y - year \in Int /\ 0 \in Int
        BY DatesAssumption
      <4> QED BY <2>3, <4>1, AddInt DEF SetYear
    <3> QED BY <3>1, <3>2, MoveKeeps
  <2>6. CASE CDateSetMonth
    <3>1. PICK m \in Int : MoveTo(SetMonth(n, m))
      BY <2>2, <2>6 DEF CDateSetMonth
    <3>2. SetMonth(n, m) \in Int
      <4>1. m - month \in Int /\ 0 \in Int
        OBVIOUS
      <4> QED BY <2>3, <4>1, AddInt DEF SetMonth
    <3> QED BY <3>1, <3>2, MoveKeeps
  <2>7. CASE CDateSetDay
    <3>1. PICK d \in Int : MoveTo(SetDay(n, d))
      BY <2>2, <2>7 DEF CDateSetDay
    <3>2. SetDay(n, d) \in Int
      BY <2>3, TmInt DEF SetDay
    <3> QED BY <3>1, <3>2, MoveKeeps
  <2>8. CASE CDateSetWeek
    <3>1. PICK w \in Int : MoveTo(SetWeek(n, w))
      BY <2>2, <2>8 DEF CDateSetWeek
    <3>2. SetWeek(n, w) \in Int
      BY WeekInt DEF SetWeek
    <3> QED BY <3>1, <3>2, MoveKeeps
  <2>9. CASE CDateSetDayOfYear
    <3>1. PICK doy \in Int : MoveTo(SetDayOfYear(n, doy))
      BY <2>2, <2>9 DEF CDateSetDayOfYear
    <3>2. TmFromYMD(year, 1, 1) \in Int
      BY TmInt
    <3>3. SetDayOfYear(n, doy) \in Int
      BY <2>3, <3>2 DEF SetDayOfYear
    <3> QED BY <3>1, <3>3, MoveKeeps
  <2>10. CASE UNCHANGED date
    BY <2>10 DEF DateOK, InYears
  <2> QED BY <2>4, <2>5, <2>6, <2>7, <2>8, <2>9, <2>10 DEF Next
<1> QED BY <1>1, <1>2, PTL DEF Spec

(* Whatever is done with a date, its computed year, month and day are the  *)
(* calendar's, and the next day number is the next day (MSCDate.c), in     *)
(* every year from 1 on.                                                   *)
THEOREM CastAlwaysAgrees == Spec => []CastAgrees
<1>1. DateOK => CastAgrees
  <2> SUFFICES ASSUME DateOK PROVE CastAgrees
    OBVIOUS
  <2>1. date.n \in Int /\ DtmCast(date.n).year > 0
    <3>1. date \in [n : Int, time : Times] /\ DtmCast(date.n).year \in Years
      BY DEF DateOK, InYears
    <3> QED BY <3>1, DatesAssumption
  <2>2. PICK y \in Int, m \in 1 .. 12 : \E d \in 1 .. MonthLength(y, m) :
          /\ DtmCast(date.n) = [year |-> y, month |-> m, day |-> d]
          /\ TmFromYMD(y, m, d) = date.n
    BY <2>1, CastForm
  <2>3. PICK d \in 1 .. MonthLength(y, m) :
          /\ Today = [year |-> y, month |-> m, day |-> d]
          /\ TmFromYMD(y, m, d) = date.n
    BY <2>2 DEF Today
  <2>4. IsDate(Today)
    BY <2>1, <2>3 DEF IsDate, Today
  <2>5. TmFromYMD(Today.year, Today.month, Today.day) = date.n
    BY <2>3
  <2>6. DtmCast(date.n + 1) = NextDay(Today)
    <3>1. PICK Y \in Int, M \in 1 .. 12 : \E D \in 1 .. MonthLength(Y, M) :
            /\ NextDay([year |-> y, month |-> m, day |-> d]) =
                 [year |-> Y, month |-> M, day |-> D]
            /\ TmFromYMD(Y, M, D) = TmFromYMD(y, m, d) + 1
      BY Tomorrow
    <3>2. PICK D \in 1 .. MonthLength(Y, M) :
            /\ NextDay([year |-> y, month |-> m, day |-> d]) =
                 [year |-> Y, month |-> M, day |-> D]
            /\ TmFromYMD(Y, M, D) = TmFromYMD(y, m, d) + 1
      BY <3>1
    <3>3. /\ NextDay(Today) = [year |-> Y, month |-> M, day |-> D]
          /\ TmFromYMD(Y, M, D) = date.n + 1
      BY <2>3, <3>2
    <3> QED BY <3>3, DateRoundTrip
  <2>7. DayOfWeek(date.n + 1) = (DayOfWeek(date.n) + 1) % 7
    <3>1. PICK a \in Int : a = date.n + DaysFrom00010101To20010101 + 7
      BY <2>1, SMT DEF DaysFrom00010101To20010101
    <3>2. DayOfWeek(date.n) = a % 7
      BY <3>1 DEF DayOfWeek
    <3>3. DayOfWeek(date.n + 1) = (a + 1) % 7
      BY <2>1, <3>1, SMT DEF DayOfWeek, DaysFrom00010101To20010101
    <3>4. (a + 1) % 7 = ((a % 7) + 1) % 7
      OBVIOUS
    <3> QED BY <3>2, <3>3, <3>4
  <2> QED BY <2>4, <2>5, <2>6, <2>7 DEF CastAgrees
<1> QED BY <1>1, DateInvariant, PTL

(***************************************************************************)
(* The days of a year                                                      *)
(***************************************************************************)
NewYear(y) == TmFromYMD(y, 1, 1)

monthStarts == <<0, 31, 59, 90, 120, 151, 181, 212, 243, 273, 304, 334>>

(* The days of the year y before its month m. *)
DaysUntil(y, m) == monthStarts[m] + IF m > 2 /\ IsLeap(y) THEN 1 ELSE 0

LEMMA UntilInt ==
  ASSUME NEW y \in Int, NEW m \in 1 .. 12
  PROVE  /\ DaysUntil(y, m) \in Int /\ DaysUntil(y, m) \in 0 .. 335
         /\ MonthLength(y, m) \in Int /\ MonthLength(y, m) \in 28 .. 31
         /\ m = 1 => DaysUntil(y, m) = 0
         /\ m = 12 => DaysUntil(y, m) + MonthLength(y, m) = YearLength(y)
         /\ m < 12 => DaysUntil(y, m + 1) = DaysUntil(y, m) + MonthLength(y, m)
<1> USE DEF DaysUntil, MonthLength, YearLength, monthStarts
<1>1. CASE m \in {1, 2, 3} BY <1>1
<1>2. CASE m \in {4, 5, 6} BY <1>2
<1>3. CASE m \in {7, 8, 9} BY <1>3
<1>4. CASE m \in {10, 11, 12} BY <1>4
<1> QED BY <1>1, <1>2, <1>3, <1>4

LEMMA MonthDays ==
  ASSUME NEW y \in Int, NEW m \in 1 .. 12
  PROVE  MonthLength(y, m) \in Int /\ 28 <= MonthLength(y, m) /\ MonthLength(y, m) <= 31
<1>1. MonthLength(y, m) \in {28, 29, 30, 31}
  BY DEF MonthLength
<1> QED BY <1>1

LEMMA UntilLater ==
  ASSUME NEW y \in Int, NEW m \in 1 .. 12, NEW k \in 1 .. 12, m < k
  PROVE  DaysUntil(y, m) + MonthLength(y, m) <= DaysUntil(y, k)
<1> USE DEF DaysUntil, MonthLength, monthStarts
<1>1. CASE m \in {1, 2, 3} BY <1>1
<1>2. CASE m \in {4, 5, 6} BY <1>2
<1>3. CASE m \in {7, 8, 9} BY <1>3
<1>4. CASE m \in {10, 11, 12} BY <1>4
<1> QED BY <1>1, <1>2, <1>3, <1>4

LEMMA UntilEnds ==
  ASSUME NEW y \in Int, NEW m \in 1 .. 12
  PROVE  DaysUntil(y, m) + MonthLength(y, m) <= YearLength(y)
<1> USE DEF DaysUntil, MonthLength, monthStarts, YearLength
<1>1. CASE m \in {1, 2, 3} BY <1>1
<1>2. CASE m \in {4, 5, 6} BY <1>2
<1>3. CASE m \in {7, 8, 9} BY <1>3
<1>4. CASE m \in {10, 11, 12} BY <1>4
<1> QED BY <1>1, <1>2, <1>3, <1>4

LEMMA DecemberIs ==
  ASSUME NEW y \in Int
  PROVE  MonthLength(y, 12) = 31 /\ DaysUntil(y, 12) = YearLength(y) - 31
BY DEF DaysUntil, MonthLength, monthStarts, YearLength

LEMMA NewYears ==
  ASSUME NEW y \in Int
  PROVE  /\ NewYear(y) \in Int
         /\ NewYear(y) = 307 + DaysBefore(y - 1)
         /\ NewYear(y + 1) = NewYear(y) + YearLength(y)
         /\ YearLength(y) \in Int /\ YearLength(y) \in {365, 366}
<1>1. \A z \in Int : NewYear(z) = 1 + daysInPreviousMonths[13] + DaysBefore(z - 1)
  BY YMDEarly DEF NewYear
<1>2. daysInPreviousMonths[13] = 306
  BY DEF daysInPreviousMonths
<1>3. DaysBefore(y) \in Int /\ DaysBefore(y - 1) \in Int
  BY BeforeNext
<1>4. NewYear(y + 1) = 307 + DaysBefore(y)
  <2>1. y + 1 \in Int /\ (y + 1) - 1 = y
    OBVIOUS
  <2> QED BY <1>1, <1>2, <1>3, <2>1
<1> QED BY <1>1, <1>2, <1>3, <1>4, BeforeNext DEF YearLength

(* A day, counted from the beginning of its year. *)
LEMMA DayInYear ==
  ASSUME NEW y \in Int, NEW m \in 1 .. 12, NEW d \in Int
  PROVE  TmFromYMD(y, m, d) = NewYear(y) - 1 + DaysUntil(y, m) + d
<1>1. DaysBefore(y) \in Int /\ DaysBefore(y - 1) \in Int
  BY BeforeNext
<1>2. /\ NewYear(y) = 307 + DaysBefore(y - 1)
      /\ DaysBefore(y) = DaysBefore(y - 1) + 365 + IF IsLeap(y) THEN 1 ELSE 0
  BY NewYears, BeforeNext
<1>3. CASE m \in {1, 2}
  <2>1. daysInPreviousMonths[m + 12] = 306 + DaysUntil(y, m)
    BY <1>3 DEF daysInPreviousMonths, DaysUntil, monthStarts
  <2>2. DaysUntil(y, m) \in Int
    BY UntilInt
  <2> QED BY <1>1, <1>2, <1>3, <2>1, <2>2, YMDEarly
<1>4. CASE m \in 3 .. 12
  <2>1. 365 + daysInPreviousMonths[m] + (IF IsLeap(y) THEN 1 ELSE 0)
          = 306 + DaysUntil(y, m)
    <3> USE DEF daysInPreviousMonths, DaysUntil, monthStarts
    <3>1. CASE m \in {3, 4, 5, 6, 7} BY <3>1
    <3>2. CASE m \in {8, 9, 10, 11, 12} BY <3>2
    <3> QED BY <1>4, <3>1, <3>2
  <2>2. DaysUntil(y, m) \in Int /\ daysInPreviousMonths[m] \in Int
    <3>1. DaysUntil(y, m) \in Int
      BY UntilInt
    <3>2. daysInPreviousMonths[m] \in Int
      BY <1>4 DEF daysInPreviousMonths
    <3> QED BY <3>1, <3>2
  <2>3. TmFromYMD(y, m, d) = d + daysInPreviousMonths[m] + DaysBefore(y)
    BY <1>4, YMDLate
  <2> QED BY <1>1, <1>2, <2>1, <2>2, <2>3
<1> QED BY <1>3, <1>4

LEMMA YearDayIs ==
  ASSUME NEW y \in Int, NEW m \in 1 .. 12, NEW d \in Int
  PROVE  YearDay([year |-> y, month |-> m, day |-> d]) = DaysUntil(y, m) + d
<1> DEFINE Sums(g) == [k \in 0 .. 11 |->
                         IF k = 0 THEN 0 ELSE g[k - 1] + MonthLength(y, k)]
           before == CHOOSE g : g = Sums(g)
           table == [k \in 0 .. 11 |-> DaysUntil(y, k + 1)]
<1>1. table = Sums(table)
  <2>1. \A k \in 1 .. 11 : table[k] = table[k - 1] + MonthLength(y, k)
    <3> TAKE k \in 1 .. 11
    <3>1. table[k] = DaysUntil(y, k + 1) /\ table[k - 1] = DaysUntil(y, k)
      OBVIOUS
    <3>2. k \in 1 .. 12 /\ k < 12
      OBVIOUS
    <3>3. DaysUntil(y, k + 1) = DaysUntil(y, k) + MonthLength(y, k)
      BY <3>2, UntilInt
    <3> QED BY <3>1, <3>3
  <2>2. table[0] = 0
    BY UntilInt
  <2> QED BY <2>1, <2>2
<1>2. before = Sums(before)
  BY <1>1
<1>3. YearDay([year |-> y, month |-> m, day |-> d]) = before[m - 1] + d
  BY DEF YearDay
<1> HIDE DEF before
<1>4. before[0] = 0
  BY <1>2
<1>5. \A k \in 1 .. 11 : before[k] = before[k - 1] + MonthLength(y, k)
  BY <1>2
<1>6. \A k \in 1 .. 11 : DaysUntil(y, k + 1) = DaysUntil(y, k) + MonthLength(y, k)
  <2> TAKE k \in 1 .. 11
  <2>1. k \in 1 .. 12 /\ k < 12
    OBVIOUS
  <2> QED BY <2>1, UntilInt
<1>7. /\ DaysUntil(y, 1) = 0
      /\ \A k \in 1 .. 12 : DaysUntil(y, k) \in Int
  <2>1. DaysUntil(y, 1) = 0
    BY DEF DaysUntil, monthStarts
  <2>2. \A k \in 1 .. 12 : DaysUntil(y, k) \in Int
    <3> TAKE k \in 1 .. 12
    <3> QED BY UntilInt
  <2> QED BY <2>1, <2>2
<1>8. /\ before[1] = DaysUntil(y, 2) /\ before[2] = DaysUntil(y, 3)
      /\ before[3] = DaysUntil(y, 4) /\ before[4] = DaysUntil(y, 5)
  BY <1>4, <1>5, <1>6, <1>7
<1>9. /\ before[5] = DaysUntil(y, 6) /\ before[6] = DaysUntil(y, 7)
      /\ before[7] = DaysUntil(y, 8) /\ before[8] = DaysUntil(y, 9)
  BY <1>8, <1>5, <1>6, <1>7
<1>10. /\ before[9] = DaysUntil(y, 10) /\ before[10] = DaysUntil(y, 11)
       /\ before[11] = DaysUntil(y, 12)
  BY <1>9, <1>5, <1>6, <1>7
<1>11. before[m - 1] = DaysUntil(y, m)
  BY <1>4, <1>7, <1>8, <1>9, <1>10
<1> QED BY <1>3, <1>11

(* What is read of a day number, with the place of the day in its year. *)
LEMMA DayParts ==
  ASSUME NEW n \in Int
  PROVE  \E y \in Int, m \in 1 .. 12, d \in Int :
           /\ d \in 1 .. MonthLength(y, m)
           /\ DtmCast(n) = [year |-> y, month |-> m, day |-> d]
           /\ n = NewYear(y) - 1 + DaysUntil(y, m) + d
<1>1. PICK y \in Int, m \in 1 .. 12 : \E d \in 1 .. MonthLength(y, m) :
        /\ DtmCast(n) = [year |-> y, month |-> m, day |-> d]
        /\ TmFromYMD(y, m, d) = n
  BY CastForm
<1>2. PICK d \in 1 .. MonthLength(y, m) :
        /\ DtmCast(n) = [year |-> y, month |-> m, day |-> d]
        /\ TmFromYMD(y, m, d) = n
  BY <1>1
<1>3. d \in Int
  BY UntilInt
<1> QED BY <1>2, <1>3, DayInYear

LEMMA PartsDay ==
  ASSUME NEW y \in Int, NEW m \in 1 .. 12, NEW d \in Int, d \in 1 .. MonthLength(y, m)
  PROVE  DtmCast(NewYear(y) - 1 + DaysUntil(y, m) + d) =
           [year |-> y, month |-> m, day |-> d]
BY DayInYear, DateRoundTrip

(***************************************************************************)
(* Weeks: the day n is the day k of the week a, n = 7 * a + k.             *)
(***************************************************************************)
LEMMA Weekday ==
  ASSUME NEW n \in Int
  PROVE  /\ DayOfWeek(n) = n % 7
         /\ DayOfWeek(n) \in 0 .. 6
         /\ n \div 7 \in Int
         /\ n = 7 * (n \div 7) + DayOfWeek(n)
<1>1. DayOfWeek(n) = (n + 730492) % 7
  BY SMT DEF DayOfWeek, DaysFrom00010101To20010101
<1>2. n + 730492 = n + 7 * 104356
  OBVIOUS
<1>3. (n + 7 * 104356) % 7 = n % 7
  OBVIOUS
<1>4. n % 7 \in 0 .. 6 /\ n \div 7 \in Int /\ n = 7 * (n \div 7) + (n % 7)
  OBVIOUS
<1> QED BY <1>1, <1>2, <1>3, <1>4

LEMMA WeekDiv ==
  ASSUME NEW a \in Int, NEW e \in 0 .. 6
  PROVE  (7 * a + e) \div 7 = a
OBVIOUS

(* The week with the first Thursday of a year. *)
FirstWeek(y) == YearRef(y) \div 7

LEMMA Ref ==
  ASSUME NEW y \in Int
  PROVE  /\ FirstWeek(y) \in Int
         /\ YearRef(y) = 7 * FirstWeek(y)
         /\ NewYear(y) - 3 <= 7 * FirstWeek(y)
         /\ 7 * FirstWeek(y) <= NewYear(y) + 3
<1>1. PICK first \in Int : first = NewYear(y)
  BY NewYears
<1>2. PICK d \in 0 .. 6, a \in Int : d = DayOfWeek(first) /\ first = 7 * a + d
  BY Weekday
<1>3. YearRef(y) = first + IF d <= 3 THEN 0 - d ELSE 7 - d
  BY <1>1, <1>2 DEF YearRef, NewYear
<1>4. CASE d <= 3
  <2>1. YearRef(y) = first - d
    BY <1>3, <1>4
  <2>2. first - d = 7 * a
    BY <1>2
  <2>3. YearRef(y) = 7 * a
    BY <2>1, <2>2
  <2>4. (7 * a) \div 7 = a
    OBVIOUS
  <2> QED BY <1>1, <1>2, <1>4, <2>4, <2>3 DEF FirstWeek
<1>5. CASE d > 3
  <2>1. YearRef(y) = first + (7 - d)
    BY <1>3, <1>5
  <2>2. first + (7 - d) = 7 * (a + 1)
    BY <1>2
  <2>3. YearRef(y) = 7 * (a + 1)
    BY <2>1, <2>2
  <2>4. (7 * (a + 1)) \div 7 = a + 1
    OBVIOUS
  <2> QED BY <1>1, <1>2, <1>5, <2>4, <2>3 DEF FirstWeek
<1> QED BY <1>4, <1>5

(* A year of 365 or 366 days has 52 or 53 weeks. *)
LEMMA WeeksOfYear ==
  ASSUME NEW y \in Int
  PROVE  /\ FirstWeek(y + 1) \in {FirstWeek(y) + 52, FirstWeek(y) + 53}
         /\ FirstWeek(y - 1) < FirstWeek(y)
<1>1. \A z \in Int : /\ FirstWeek(z) \in Int /\ NewYear(z) \in Int
                     /\ NewYear(z) - 3 <= 7 * FirstWeek(z)
                     /\ 7 * FirstWeek(z) <= NewYear(z) + 3
                     /\ NewYear(z + 1) - NewYear(z) \in {365, 366}
  <2> TAKE z \in Int
  <2>1. /\ NewYear(z) \in Int /\ NewYear(z + 1) = NewYear(z) + YearLength(z)
        /\ YearLength(z) \in {365, 366}
    BY NewYears
  <2>2. NewYear(z + 1) - NewYear(z) \in {365, 366}
    BY <2>1
  <2> QED BY <2>1, <2>2, Ref
<1>2. y + 1 \in Int /\ y - 1 \in Int /\ (y - 1) + 1 = y
  OBVIOUS
<1>3. NewYear(y) - NewYear(y - 1) \in {365, 366}
  BY <1>1, <1>2
<1>4. NewYear(y + 1) - NewYear(y) \in {365, 366}
  BY <1>1
<1>5. PICK p \in Int, q \in Int, r \in Int :
        p = FirstWeek(y - 1) /\ q = FirstWeek(y) /\ r = FirstWeek(y + 1)
  BY <1>1, <1>2
<1>6. PICK s \in Int, t \in Int, u \in Int :
        s = NewYear(y - 1) /\ t = NewYear(y) /\ u = NewYear(y + 1)
  BY <1>1, <1>2
<1>7. /\ s - 3 <= 7 * p /\ 7 * p <= s + 3
      /\ t - 3 <= 7 * q /\ 7 * q <= t + 3
      /\ u - 3 <= 7 * r /\ 7 * r <= u + 3
  BY <1>1, <1>2, <1>5, <1>6
<1>8. t - s \in {365, 366} /\ u - t \in {365, 366}
  BY <1>3, <1>4, <1>6
<1>9. p < q
  BY <1>7, <1>8
<1>10. 7 * (r - q) >= 359 /\ 7 * (r - q) <= 372
  BY <1>7, <1>8
<1>11. r - q = 52 \/ r - q = 53
  BY <1>10
<1> QED BY <1>5, <1>9, <1>11

(* The year of a week: that in which its Thursday is. *)
YearOfWeek(y, a) ==
  IF a < FirstWeek(y) THEN y - 1 ELSE IF a >= FirstWeek(y + 1) THEN y + 1 ELSE y

(* The day d of the month is the day k of the week a. *)
Falls(y, m, d, a, k) == NewYear(y) - 1 + DaysUntil(y, m) + d = 7 * a + k

IsoAgrees(y, m, d, a, k) ==
  LET c == [year |-> y, month |-> m, day |-> d] IN
  /\ IsoYear(c, k) = YearOfWeek(y, a)
  /\ IsoWeek(c, k) = a - FirstWeek(YearOfWeek(y, a)) + 1

LEMMA IsoOfDay ==
  ASSUME NEW y \in Int, NEW m \in 1 .. 12, NEW d \in 1 .. MonthLength(y, m),
         NEW a \in Int, NEW k \in 0 .. 6, Falls(y, m, d, a, k)
  PROVE  IsoAgrees(y, m, d, a, k)
<1> DEFINE c == [year |-> y, month |-> m, day |-> d]
           t == YearDay(c) - k + 3
<1>1. d \in Int
  BY UntilInt
<1>2. PICK u \in Int : u = DaysUntil(y, m)
  BY UntilInt
<1>3. YearDay(c) = u + d
  BY <1>1, <1>2, YearDayIs
<1>4. PICK s \in Int, L \in Int : /\ s = NewYear(y) /\ L = YearLength(y)
                                  /\ NewYear(y + 1) = s + L
  <2>1. /\ NewYear(y) \in Int /\ YearLength(y) \in Int
        /\ NewYear(y + 1) = NewYear(y) + YearLength(y)
    BY NewYears
  <2> QED BY <2>1
<1>5. PICK p \in Int, pl \in Int : /\ p = NewYear(y - 1) /\ pl = YearLength(y - 1)
                                   /\ s = p + pl
  <2>1. y - 1 \in Int /\ (y - 1) + 1 = y
    OBVIOUS
  <2>2. /\ NewYear(y - 1) \in Int /\ YearLength(y - 1) \in Int
        /\ NewYear(y) = NewYear(y - 1) + YearLength(y - 1)
    BY <2>1, NewYears
  <2> QED BY <1>4, <2>2
<1>6. t = 7 * a + 3 - s + 1
  BY <1>1, <1>2, <1>3, <1>4 DEF Falls
<1>7. PICK q \in Int, r \in Int, o \in Int :
        /\ q = FirstWeek(y) /\ r = FirstWeek(y + 1) /\ o = FirstWeek(y - 1)
        /\ s - 3 <= 7 * q /\ 7 * q <= s + 3
        /\ s + L - 3 <= 7 * r /\ 7 * r <= s + L + 3
        /\ p - 3 <= 7 * o /\ 7 * o <= p + 3
  <2>1. y - 1 \in Int /\ y + 1 \in Int
    OBVIOUS
  <2>2. /\ FirstWeek(y) \in Int
        /\ s - 3 <= 7 * FirstWeek(y) /\ 7 * FirstWeek(y) <= s + 3
    BY <1>4, Ref
  <2>3. /\ FirstWeek(y + 1) \in Int
        /\ s + L - 3 <= 7 * FirstWeek(y + 1) /\ 7 * FirstWeek(y + 1) <= s + L + 3
    BY <1>4, <2>1, Ref
  <2>4. /\ FirstWeek(y - 1) \in Int
        /\ p - 3 <= 7 * FirstWeek(y - 1) /\ 7 * FirstWeek(y - 1) <= p + 3
    BY <1>5, <2>1, Ref
  <2> QED BY <2>2, <2>3, <2>4
<1> HIDE DEF t
<1>8. t < 1 <=> a < q
  BY <1>6, <1>7
<1>9. t > L <=> a >= r
  BY <1>6, <1>7
<1> USE DEF t
<1>10. /\ IsoYear(c, k) = IF t < 1 THEN y - 1 ELSE IF t > L THEN y + 1 ELSE y
      /\ IsoWeek(c, k) = CASE IsoYear(c, k) < y -> (t + pl - 1) \div 7 + 1
                           [] IsoYear(c, k) > y -> 1
                           [] OTHER -> (t - 1) \div 7 + 1
  BY <1>4, <1>5 DEF IsoYear, IsoWeek
<1> HIDE DEF t
<1>11. IsoYear(c, k) = YearOfWeek(y, a)
  <2> QED BY <1>7, <1>8, <1>9, <1>10 DEF YearOfWeek
<1>12. IsoWeek(c, k) = a - FirstWeek(YearOfWeek(y, a)) + 1
  <2>1. CASE a < q
    <3>1. IsoYear(c, k) = y - 1 /\ IsoYear(c, k) < y
      BY <1>8, <1>10, <2>1
    <3>2. IsoWeek(c, k) = (t + pl - 1) \div 7 + 1
      BY <1>10, <3>1
    <3>3. p - 3 <= 7 * o /\ 7 * o <= p + 3
      BY <1>7
    <3>4. 7 * o - p + 3 \in 0 .. 6
      BY <3>3
    <3>5. PICK e \in 0 .. 6 : e = 7 * o - p + 3
      BY <3>4
    <3>6. t + pl - 1 = 7 * (a - o) + e
      BY <1>5, <1>6, <3>5
    <3>7. (t + pl - 1) \div 7 = a - o
      BY <3>6, WeekDiv
    <3> QED BY <1>7, <1>11, <3>1, <3>2, <3>7
  <2>2. CASE a >= q /\ a < r
    <3>1. IsoYear(c, k) = y
      BY <1>8, <1>9, <1>10, <2>2
    <3>2. IsoWeek(c, k) = (t - 1) \div 7 + 1
      BY <1>10, <3>1
    <3>3. s - 3 <= 7 * q /\ 7 * q <= s + 3
      BY <1>7
    <3>4. 7 * q - s + 3 \in 0 .. 6
      BY <3>3
    <3>5. PICK e \in 0 .. 6 : e = 7 * q - s + 3
      BY <3>4
    <3>6. t - 1 = 7 * (a - q) + e
      BY <1>6, <3>5
    <3>7. (t - 1) \div 7 = a - q
      BY <3>6, WeekDiv
    <3> QED BY <1>7, <1>11, <3>1, <3>2, <3>7
  <2>3. CASE a >= q /\ a >= r
    <3>1. IsoYear(c, k) = y + 1 /\ IsoYear(c, k) > y /\ ~(IsoYear(c, k) < y)
      BY <1>8, <1>9, <1>10, <2>3
    <3>2. IsoWeek(c, k) = 1
      BY <1>10, <3>1
    <3>3. a = r
      <4>1. d <= MonthLength(y, m) /\ u + MonthLength(y, m) <= L /\ MonthLength(y, m) \in Int
        <5>1. MonthLength(y, m) \in Int
          BY UntilInt
        <5>2. DaysUntil(y, m) + MonthLength(y, m) <= YearLength(y)
          BY UntilEnds
        <5> QED BY <1>2, <1>4, <5>1, <5>2
      <4>2. 7 * a + k <= s + L - 1
        BY <1>1, <1>2, <1>4, <4>1 DEF Falls
      <4>3. 7 * a <= 7 * r + 2
        BY <1>7, <4>2
      <4> QED BY <2>3, <4>3
    <3> QED BY <1>7, <1>11, <3>1, <3>2, <3>3
  <2> QED BY <1>7, <2>1, <2>2, <2>3
<1> QED BY <1>11, <1>12 DEF IsoAgrees

(* A Monday at the end of a year, 52 weeks after its first week. *)
LEMMA LastMonday ==
  ASSUME NEW y \in Int, NEW w \in Int, w = FirstWeek(y) + 52,
         7 * w < NewYear(y + 1)
  PROVE  DtmCast(7 * w).day >= 29 <=> w >= FirstWeek(y + 1)
<1>1. PICK s \in Int, L \in Int : /\ s = NewYear(y) /\ L = YearLength(y)
                                  /\ NewYear(y + 1) = s + L
                                  /\ L \in {365, 366}
  <2>1. /\ NewYear(y) \in Int /\ YearLength(y) \in Int
        /\ NewYear(y + 1) = NewYear(y) + YearLength(y)
        /\ YearLength(y) \in {365, 366}
    BY NewYears
  <2> QED BY <2>1
<1>2. PICK q \in Int, r \in Int :
        /\ q = FirstWeek(y) /\ r = FirstWeek(y + 1)
        /\ s - 3 <= 7 * q /\ 7 * q <= s + 3
        /\ s + L - 3 <= 7 * r /\ 7 * r <= s + L + 3
  <2>1. /\ FirstWeek(y) \in Int
        /\ s - 3 <= 7 * FirstWeek(y) /\ 7 * FirstWeek(y) <= s + 3
    BY <1>1, Ref
  <2>2. /\ FirstWeek(y + 1) \in Int
        /\ s + L - 3 <= 7 * FirstWeek(y + 1) /\ 7 * FirstWeek(y + 1) <= s + L + 3
    BY <1>1, Ref
  <2> QED BY <2>1, <2>2
<1>3. PICK d \in Int : d = 7 * w - (s + L - 31) + 1
  OBVIOUS
<1>4. d \in 1 .. 31
  BY <1>1, <1>2, <1>3
<1>5. 12 \in 1 .. 12 /\ MonthLength(y, 12) = 31 /\ DaysUntil(y, 12) = L - 31
  BY <1>1, DecemberIs
<1>6. DtmCast(NewYear(y) - 1 + DaysUntil(y, 12) + d) =
        [year |-> y, month |-> 12, day |-> d]
  BY <1>4, <1>5, PartsDay
<1>7. NewYear(y) - 1 + DaysUntil(y, 12) + d = 7 * w
  <2>1. s - 1 + (L - 31) + d = 7 * w
    BY <1>3
  <2> QED BY <1>1, <1>5, <2>1
<1>8. DtmCast(7 * w).day = d
  BY <1>6, <1>7
<1>9. d >= 29 <=> 7 * w >= s + L - 3
  BY <1>3
<1>10. 7 * w >= s + L - 3 <=> w >= r
  BY <1>2
<1> QED BY <1>2, <1>8, <1>9, <1>10

LEMMA WeekIs ==
  ASSUME NEW n \in Int, NEW y \in Int, NEW m \in 1 .. 12, NEW d \in Int,
         d \in 1 .. MonthLength(y, m),
         DtmCast(n) = [year |-> y, month |-> m, day |-> d],
         n = NewYear(y) - 1 + DaysUntil(y, m) + d
  PROVE  WeekOfYear(n) = n \div 7 - FirstWeek(YearOfWeek(y, n \div 7)) + 1
<1>1. PICK a \in Int, k \in 0 .. 6 : a = n \div 7 /\ n = 7 * a + k
  BY Weekday
<1>2. PICK q \in Int, r \in Int, o \in Int :
        /\ q = FirstWeek(y) /\ r = FirstWeek(y + 1) /\ o = FirstWeek(y - 1)
        /\ YearRef(y) = 7 * q /\ YearRef(y - 1) = 7 * o
  <2>1. y + 1 \in Int /\ y - 1 \in Int
    OBVIOUS
  <2> QED BY <2>1, Ref
<1>3. r \in {q + 52, q + 53}
  BY <1>2, WeeksOfYear
<1>4. DtmCast(n).year = y
  OBVIOUS
<1>5. n < NewYear(y + 1)
  <2>1. /\ NewYear(y) \in Int /\ YearLength(y) \in Int
        /\ NewYear(y + 1) = NewYear(y) + YearLength(y)
    BY NewYears
  <2>2. /\ DaysUntil(y, m) \in Int /\ MonthLength(y, m) \in Int
        /\ DaysUntil(y, m) + MonthLength(y, m) <= YearLength(y)
    BY UntilInt, UntilEnds
  <2> QED BY <2>1, <2>2
<1>6. NewYear(y + 1) - 3 <= 7 * r /\ 7 * r <= NewYear(y + 1) + 3 /\ NewYear(y + 1) \in Int
  <2>1. y + 1 \in Int
    OBVIOUS
  <2> QED BY <1>2, <2>1, Ref, NewYears
<1>7. a <= r /\ a < q + 53
  <2>1. 7 * a <= 7 * r + 2
    BY <1>1, <1>5, <1>6
  <2>2. a <= r
    BY <2>1
  <2>3. CASE r = q + 52
    BY <2>2, <2>3
  <2>4. CASE r = q + 53
    <3>1. PICK s \in Int, L \in Int : /\ s = NewYear(y)
                                      /\ NewYear(y + 1) = s + L /\ L <= 366
      <4>1. /\ NewYear(y) \in Int /\ YearLength(y) \in Int /\ YearLength(y) <= 366
            /\ NewYear(y + 1) = NewYear(y) + YearLength(y)
        <5>1. /\ NewYear(y) \in Int /\ YearLength(y) \in {365, 366}
              /\ NewYear(y + 1) = NewYear(y) + YearLength(y)
          BY NewYears
        <5> QED BY <5>1
      <4> QED BY <4>1
    <3>2. s <= 7 * q + 3
      BY <1>2, <3>1, Ref
    <3>3. NewYear(y + 1) <= 7 * (q + 53)
      BY <3>1, <3>2
    <3>4. 7 * a < 7 * (q + 53)
      BY <1>1, <1>5, <1>6, <3>3
    <3> QED BY <2>2, <3>4
  <2> QED BY <1>3, <2>3, <2>4
<1>8. n < YearRef(y) <=> a < q
  BY <1>1, <1>2
<1> DEFINE ref == YearRef(y)
           w == (n - ref) \div 7 + 1
           turned == w = 53 /\ DtmCast(ref + 52 * 7).day >= 29
<1>9. WeekOfYear(n) = IF n < ref THEN (n - YearRef(y - 1)) \div 7 + 1
                      ELSE IF turned THEN 1 ELSE w
  BY <1>4 DEF WeekOfYear
<1>10. w = a - q + 1 /\ (n - YearRef(y - 1)) \div 7 + 1 = a - o + 1
  <2>1. n - ref = 7 * (a - q) + k /\ n - YearRef(y - 1) = 7 * (a - o) + k
    <3>1. n - 7 * q = 7 * (a - q) + k /\ n - 7 * o = 7 * (a - o) + k
      BY <1>1
    <3> QED BY <1>2, <3>1
  <2>2. (7 * (a - q) + k) \div 7 = a - q /\ (7 * (a - o) + k) \div 7 = a - o
    <3>1. a - q \in Int /\ a - o \in Int
      OBVIOUS
    <3> QED BY <3>1, WeekDiv
  <2> QED BY <2>1, <2>2
<1>11. ASSUME a >= q
       PROVE  turned <=> a >= r
  <2>1. w = 53 <=> a = q + 52
    BY <1>10
  <2>2. ASSUME a = q + 52
        PROVE  DtmCast(ref + 52 * 7).day >= 29 <=> a >= r
    <3>1. ref + 52 * 7 = 7 * a
      <4>1. 7 * q + 52 * 7 = 7 * a
        BY <2>2
      <4> QED BY <1>2, <4>1
    <3>2. 7 * a < NewYear(y + 1)
      BY <1>1, <1>5, <1>6
    <3>3. DtmCast(7 * a).day >= 29 <=> a >= FirstWeek(y + 1)
      BY <1>2, <2>2, <3>2, LastMonday
    <3> QED BY <1>2, <3>1, <3>3
  <2>3. a >= r => a = q + 52
    BY <1>3, <1>7
  <2> QED BY <2>1, <2>2, <2>3
<1> HIDE DEF ref, w, turned
<1>12. CASE a < q
  <2>1. YearOfWeek(y, a) = y - 1
    BY <1>2, <1>12 DEF YearOfWeek
  <2> QED BY <1>1, <1>2, <1>8, <1>9, <1>10, <1>12, <2>1 DEF ref
<1>13. CASE a >= q /\ a < r
  <2>1. YearOfWeek(y, a) = y
    BY <1>2, <1>13 DEF YearOfWeek
  <2>2. ~(n < ref) /\ ~turned
    BY <1>8, <1>11, <1>13 DEF ref
  <2> QED BY <1>1, <1>2, <1>9, <1>10, <2>1, <2>2
<1>14. CASE a >= q /\ a >= r
  <2>1. YearOfWeek(y, a) = y + 1
    BY <1>2, <1>14 DEF YearOfWeek
  <2>2. ~(n < ref) /\ turned
    BY <1>8, <1>11, <1>14 DEF ref
  <2>3. a = r
    BY <1>7, <1>14
  <2> QED BY <1>1, <1>2, <1>9, <2>1, <2>2, <2>3
<1> QED BY <1>12, <1>13, <1>14

LEMMA WeeksRight ==
  ASSUME NEW n \in Int
  PROVE  /\ DayOfYear(n) = YearDay(DtmCast(n))
         /\ WeekOfYear(n) = IsoWeek(DtmCast(n), DayOfWeek(n))
<1>1. PICK y \in Int, m \in 1 .. 12, d \in Int :
        /\ d \in 1 .. MonthLength(y, m)
        /\ DtmCast(n) = [year |-> y, month |-> m, day |-> d]
        /\ n = NewYear(y) - 1 + DaysUntil(y, m) + d
  BY DayParts
<1>2. DayOfYear(n) = n - NewYear(y) + 1
  BY <1>1 DEF DayOfYear, NewYear
<1>3. NewYear(y) \in Int /\ DaysUntil(y, m) \in Int
  BY NewYears, UntilInt
<1>4. YearDay(DtmCast(n)) = DaysUntil(y, m) + d
  BY <1>1, YearDayIs
<1>5. PICK a \in Int, k \in 0 .. 6 : a = n \div 7 /\ n = 7 * a + k /\ k = DayOfWeek(n)
  BY Weekday
<1>6. Falls(y, m, d, a, k)
  BY <1>1, <1>5 DEF Falls
<1>7. IsoWeek([year |-> y, month |-> m, day |-> d], k) =
        a - FirstWeek(YearOfWeek(y, a)) + 1
  BY <1>1, <1>6, IsoOfDay DEF IsoAgrees
<1>8. WeekOfYear(n) = a - FirstWeek(YearOfWeek(y, a)) + 1
  BY <1>1, <1>5, WeekIs
<1>9. DayOfYear(n) = YearDay(DtmCast(n))
  BY <1>1, <1>2, <1>3, <1>4
<1>10. WeekOfYear(n) = IsoWeek(DtmCast(n), DayOfWeek(n))
  BY <1>1, <1>5, <1>7, <1>8
<1> QED BY <1>9, <1>10

(* A week is set in the year the week belongs to. *)
LEMMA FirstWeekYear ==
  ASSUME NEW y \in Int
  PROVE  DtmCast(7 * FirstWeek(y) + 3).year = y
<1>1. PICK s \in Int, q \in Int : /\ s = NewYear(y) /\ q = FirstWeek(y)
                                  /\ s - 3 <= 7 * q /\ 7 * q <= s + 3
  <2>1. NewYear(y) \in Int
    BY NewYears
  <2> QED BY <2>1, Ref
<1>2. PICK d \in Int : d = 7 * q + 3 - s + 1
  OBVIOUS
<1>3. d \in 1 .. 7
  BY <1>1, <1>2
<1>4. MonthLength(y, 1) = 31 /\ DaysUntil(y, 1) = 0
  BY DEF MonthLength, DaysUntil, monthStarts
<1>5. d \in 1 .. MonthLength(y, 1)
  BY <1>3, <1>4
<1>6. DtmCast(NewYear(y) - 1 + DaysUntil(y, 1) + d) = [year |-> y, month |-> 1, day |-> d]
  BY <1>5, PartsDay
<1>7. NewYear(y) - 1 + DaysUntil(y, 1) + d = 7 * FirstWeek(y) + 3
  BY <1>1, <1>2, <1>4
<1> QED BY <1>6, <1>7

LEMMA WeekSet ==
  ASSUME NEW n \in Int, NEW w \in Int, WeekOfYear(SetWeek(n, w)) = w
  PROVE  IsoYear(DtmCast(SetWeek(n, w)), DayOfWeek(SetWeek(n, w))) =
           IsoYear(DtmCast(n), DayOfWeek(n))
<1>1. \A x \in Int : \E a \in Int, k \in 0 .. 6, y \in Int :
        /\ x = 7 * a + k
        /\ IsoYear(DtmCast(x), DayOfWeek(x)) = y
        /\ WeekOfYear(x) = a - FirstWeek(y) + 1
  <2> TAKE x \in Int
  <2>1. PICK y \in Int, m \in 1 .. 12, d \in Int :
          /\ d \in 1 .. MonthLength(y, m)
          /\ DtmCast(x) = [year |-> y, month |-> m, day |-> d]
          /\ x = NewYear(y) - 1 + DaysUntil(y, m) + d
    BY DayParts
  <2>2. PICK a \in Int, k \in 0 .. 6 : a = x \div 7 /\ x = 7 * a + k /\ k = DayOfWeek(x)
    BY Weekday
  <2>3. Falls(y, m, d, a, k)
    BY <2>1, <2>2 DEF Falls
  <2>4. IsoYear(DtmCast(x), DayOfWeek(x)) = YearOfWeek(y, a)
    <3>1. IsoAgrees(y, m, d, a, k)
      BY <2>1, <2>3, IsoOfDay
    <3>2. IsoYear([year |-> y, month |-> m, day |-> d], k) = YearOfWeek(y, a)
      BY <3>1 DEF IsoAgrees
    <3> QED BY <2>1, <2>2, <3>2
  <2>5. WeekOfYear(x) = a - FirstWeek(YearOfWeek(y, a)) + 1
    BY <2>1, <2>2, WeekIs
  <2>6. YearOfWeek(y, a) \in Int
    BY DEF YearOfWeek
  <2> QED BY <2>2, <2>4, <2>5, <2>6
<1>2. PICK a \in Int, k \in 0 .. 6, y \in Int :
        /\ n = 7 * a + k
        /\ IsoYear(DtmCast(n), DayOfWeek(n)) = y
        /\ WeekOfYear(n) = a - FirstWeek(y) + 1
  BY <1>1
<1>3. PICK p \in Int : p = FirstWeek(y)
  BY Ref
<1>4. SetWeek(n, w) = 7 * (p + w - 1) + k
  <2>1. SetWeek(n, w) = n + (w - (a - p + 1)) * 7
    BY <1>2, <1>3 DEF SetWeek
  <2> QED BY <1>2, <2>1
<1>5. SetWeek(n, w) \in Int
  BY <1>4
<1>6. PICK b \in Int, j \in 0 .. 6, z \in Int :
        /\ SetWeek(n, w) = 7 * b + j
        /\ IsoYear(DtmCast(SetWeek(n, w)), DayOfWeek(SetWeek(n, w))) = z
        /\ WeekOfYear(SetWeek(n, w)) = b - FirstWeek(z) + 1
  BY <1>1, <1>5
<1>7. PICK q \in Int : q = FirstWeek(z)
  BY Ref
<1>8. b = p + w - 1
  BY <1>4, <1>6
<1>9. p = q
  BY <1>6, <1>7, <1>8
<1>10. y = z
  BY <1>3, <1>7, <1>9, FirstWeekYear
<1> QED BY <1>2, <1>6, <1>10

(***************************************************************************)
(* Months                                                                  *)
(***************************************************************************)
(* The year and the month of a number of months. *)
LEMMA MonthDiv ==
  ASSUME NEW y \in Int, NEW m \in 1 .. 12
  PROVE  (12 * y + m - 1) \div 12 = y /\ ((12 * y + m - 1) % 12) + 1 = m
OBVIOUS

LEMMA ClippedIs ==
  ASSUME NEW y \in Int, NEW m \in 1 .. 12, NEW c,
         c.day \in Int, c.day >= 1
  PROVE  \E d \in 1 .. MonthLength(y, m) :
           /\ Clipped(c, y, m) = [year |-> y, month |-> m, day |-> d]
           /\ d <= c.day
           /\ d = IF c.day > MonthLength(y, m) THEN MonthLength(y, m) ELSE c.day
<1>1. MonthLength(y, m) \in Int /\ MonthLength(y, m) >= 28
  BY MonthDays
<1> DEFINE d == IF c.day > MonthLength(y, m) THEN MonthLength(y, m) ELSE c.day
<1>2. d \in 1 .. MonthLength(y, m) /\ d <= c.day
  BY <1>1
<1> QED BY <1>2 DEF Clipped

(* C's quotient and remainder put a number together again. *)
LEMMA QuotientRemainder ==
  ASSUME NEW a \in Int
  PROVE  /\ Quotient(a, 12) \in Int /\ Remainder(a, 12) \in Int
         /\ a = 12 * Quotient(a, 12) + Remainder(a, 12)
         /\ 0 - 12 < Remainder(a, 12) /\ Remainder(a, 12) < 12
BY DEF Quotient, Remainder

LEMMA MonthsAdded ==
  ASSUME NEW n \in Int, NEW years \in Int, NEW months \in Int
  PROVE  /\ DtmCast(AddingYearsAndMonths(n, years, months)) =
              MonthsLater(DtmCast(n), 12 * years + months)
         /\ AddingYearsAndMonths(n, years, months) \in Int
<1>1. PICK y \in Int, m \in 1 .. 12, d \in Int :
        /\ d \in 1 .. MonthLength(y, m)
        /\ DtmCast(n) = [year |-> y, month |-> m, day |-> d]
        /\ n = NewYear(y) - 1 + DaysUntil(y, m) + d
  BY DayParts
<1>2. PICK q \in Int, r \in Int :
        /\ q = Quotient(months, 12) /\ r = Remainder(months, 12)
        /\ months = 12 * q + r /\ 0 - 12 < r /\ r < 12
  BY QuotientRemainder
<1> DEFINE M == m + r
           Y == y + years + q
           newYear == IF M > 12 THEN Y + 1 ELSE IF M < 1 THEN Y - 1 ELSE Y
           newMonth == IF M > 12 THEN M - 12 ELSE IF M < 1 THEN M + 12 ELSE M
           last == LastDayOfMonth(newYear, newMonth)
           newDay == IF d > last THEN last ELSE d
<1>3. AddingYearsAndMonths(n, years, months) =
        IF years = 0 /\ months = 0 THEN n ELSE TmFromYMD(newYear, newMonth, newDay)
  BY <1>1, <1>2 DEF AddingYearsAndMonths
<1>4. /\ newYear \in Int /\ newMonth \in 1 .. 12
      /\ 12 * newYear + newMonth - 1 = 12 * y + m - 1 + (12 * years + months)
  <2>1. CASE M > 12
    BY <1>2, <2>1
  <2>2. CASE M < 1
    BY <1>2, <2>2
  <2>3. CASE M >= 1 /\ M <= 12
    BY <1>2, <2>3
  <2> QED BY <1>2, <2>1, <2>2, <2>3
<1>5. MonthsLater(DtmCast(n), 12 * years + months) = Clipped(DtmCast(n), newYear, newMonth)
  <2>1. 12 * DtmCast(n).year + DtmCast(n).month - 1 + (12 * years + months)
          = 12 * newYear + newMonth - 1
    BY <1>1, <1>4
  <2> HIDE DEF newYear, newMonth
  <2>2. /\ (12 * newYear + newMonth - 1) \div 12 = newYear
        /\ ((12 * newYear + newMonth - 1) % 12) + 1 = newMonth
    BY <1>4, MonthDiv
  <2> QED BY <2>1, <2>2 DEF MonthsLater
<1> HIDE DEF newYear, newMonth
<1>6. last = MonthLength(newYear, newMonth)
  BY <1>4, LastDay
<1>7. Clipped(DtmCast(n), newYear, newMonth) =
        [year |-> newYear, month |-> newMonth, day |-> newDay]
  BY <1>1, <1>6 DEF Clipped
<1>8. newDay \in Int /\ newDay \in 1 .. MonthLength(newYear, newMonth)
  <2>1. /\ MonthLength(newYear, newMonth) \in Int
        /\ 28 <= MonthLength(newYear, newMonth)
    BY <1>4, MonthDays
  <2>2. d >= 1
    BY <1>1
  <2> QED BY <1>6, <2>1, <2>2
<1> HIDE DEF newDay
<1>9. /\ DtmCast(TmFromYMD(newYear, newMonth, newDay)) =
            [year |-> newYear, month |-> newMonth, day |-> newDay]
      /\ TmFromYMD(newYear, newMonth, newDay) \in Int
  BY <1>4, <1>8, DateRoundTrip
<1>10. CASE years = 0 /\ months = 0
  <2>1. 12 * newYear + newMonth - 1 = 12 * y + m - 1
    BY <1>4, <1>10
  <2>2. newYear = y /\ newMonth = m
    BY <1>4, <2>1
  <2>3. newDay = d
    <3>1. last = MonthLength(y, m) /\ MonthLength(y, m) \in Int
      BY <1>6, <2>2, MonthDays
    <3>2. ~(d > last)
      BY <1>1, <3>1
    <3> QED BY <3>2 DEF newDay
  <2> QED BY <1>1, <1>3, <1>5, <1>7, <1>10, <2>2, <2>3
<1>11. CASE ~(years = 0 /\ months = 0)
  BY <1>3, <1>5, <1>7, <1>9, <1>11
<1> QED BY <1>10, <1>11

LEMMA MonthSet ==
  ASSUME NEW n \in Int, NEW k \in 1 .. 12
  PROVE  DtmCast(SetMonth(n, k)) = Clipped(DtmCast(n), DtmCast(n).year, k)
<1>1. PICK y \in Int, m \in 1 .. 12 : DtmCast(n).year = y /\ DtmCast(n).month = m
  BY DayParts
<1>2. DtmCast(SetMonth(n, k)) = MonthsLater(DtmCast(n), 12 * 0 + (k - m))
  <2>1. k - m \in Int
    OBVIOUS
  <2> QED BY <1>1, <2>1, MonthsAdded DEF SetMonth
<1>3. 12 * DtmCast(n).year + DtmCast(n).month - 1 + (12 * 0 + (k - m)) = 12 * y + k - 1
  BY <1>1
<1>4. (12 * y + k - 1) \div 12 = y /\ ((12 * y + k - 1) % 12) + 1 = k
  BY MonthDiv
<1> QED BY <1>1, <1>2, <1>3, <1>4 DEF MonthsLater

LEMMA YearsLater ==
  ASSUME NEW y \in Int, NEW z \in Int, y <= z
  PROVE  NewYear(y) <= NewYear(z)
<1>1. PICK a \in Int, b \in Int : a = y - 1 /\ b = z - 1 /\ a <= b
  OBVIOUS
<1>2. PICK c \in Int, d \in Int : c = a \div 4 /\ d = b \div 4 /\ c <= d
  BY <1>1
<1>3. PICK e \in Int, f \in Int : e = a \div 100 /\ f = b \div 100 /\ f - e <= b - a
  BY <1>1
<1>4. PICK g \in Int, h \in Int : g = a \div 400 /\ h = b \div 400 /\ g <= h
  BY <1>1
<1>5. DaysBefore(a) <= DaysBefore(b)
  <2>1. 365 * a + c - e + g <= 365 * b + d - f + h
    BY <1>1, <1>2, <1>3, <1>4
  <2> QED BY <1>2, <1>3, <1>4, <2>1, Shift DEF DaysBefore
<1>6. DaysBefore(a) \in Int /\ DaysBefore(b) \in Int
  BY BeforeNext
<1>7. NewYear(y) = 307 + DaysBefore(a) /\ NewYear(z) = 307 + DaysBefore(b)
  BY <1>1, NewYears
<1> QED BY <1>5, <1>6, <1>7

(* The day before a month begins. *)
MonthStart(y, m) == NewYear(y) - 1 + DaysUntil(y, m)

LEMMA StartInt ==
  ASSUME NEW y \in Int, NEW m \in 1 .. 12
  PROVE  MonthStart(y, m) \in Int
<1>1. NewYear(y) \in Int /\ DaysUntil(y, m) \in Int
  BY NewYears, UntilInt
<1> QED BY <1>1 DEF MonthStart

LEMMA StartsLater ==
  ASSUME NEW y \in Int, NEW m \in 1 .. 12, NEW z \in Int, NEW k \in 1 .. 12,
         12 * y + m < 12 * z + k
  PROVE  MonthStart(y, m) + MonthLength(y, m) <= MonthStart(z, k)
<1>1. PICK s \in Int, u \in Int, l \in Int, r \in Int, v \in Int :
        /\ s = NewYear(y) /\ u = DaysUntil(y, m) /\ l = MonthLength(y, m)
        /\ r = NewYear(z) /\ v = DaysUntil(z, k)
  <2>1. NewYear(y) \in Int /\ NewYear(z) \in Int
    BY NewYears
  <2>2. DaysUntil(y, m) \in Int /\ DaysUntil(z, k) \in Int
    BY UntilInt
  <2> QED BY <2>1, <2>2, MonthDays
<1>2. CASE y = z
  <2>1. u + l <= v
    BY <1>1, <1>2, UntilLater
  <2> QED BY <1>1, <1>2, <2>1 DEF MonthStart
<1>3. CASE y < z
  <2>1. y + 1 \in Int /\ y + 1 <= z
    BY <1>3
  <2>2. NewYear(y + 1) <= r
    BY <1>1, <2>1, YearsLater
  <2>3. PICK L \in Int : L = YearLength(y) /\ NewYear(y + 1) = s + L
    BY <1>1, NewYears
  <2>4. u + l <= L
    BY <1>1, <2>3, UntilEnds
  <2>5. v >= 0
    <3>1. DaysUntil(z, k) \in 0 .. 335
      BY UntilInt
    <3> QED BY <1>1, <3>1
  <2>6. s - 1 + u + l <= r - 1 + v
    BY <2>2, <2>3, <2>4, <2>5
  <2> QED BY <1>1, <2>6 DEF MonthStart
<1> QED BY <1>2, <1>3

(* The month before. *)
LEMMA StartBefore ==
  ASSUME NEW y \in Int, NEW m \in 1 .. 12
  PROVE  \E z \in Int, k \in 1 .. 12 :
           /\ 12 * z + k = 12 * y + m - 1
           /\ MonthStart(z, k) + MonthLength(z, k) = MonthStart(y, m)
<1>1. CASE m > 1
  <2>1. PICK k \in 1 .. 12 : k = m - 1 /\ k < 12 /\ k + 1 = m
    BY <1>1
  <2>2. DaysUntil(y, m) = DaysUntil(y, k) + MonthLength(y, k)
    <3>1. DaysUntil(y, k + 1) = DaysUntil(y, k) + MonthLength(y, k)
      BY <2>1, UntilInt
    <3> QED BY <2>1, <3>1
  <2>3. DaysUntil(y, k) \in Int /\ MonthLength(y, k) \in Int /\ NewYear(y) \in Int
    BY UntilInt, MonthDays, NewYears
  <2>4. MonthStart(y, k) + MonthLength(y, k) = MonthStart(y, m)
    BY <2>2, <2>3 DEF MonthStart
  <2>5. 12 * y + k = 12 * y + m - 1
    BY <2>1
  <2> QED BY <2>4, <2>5
<1>2. CASE m = 1
  <2>1. PICK z \in Int : z = y - 1 /\ z + 1 = y
    OBVIOUS
  <2>2. /\ NewYear(z) \in Int /\ YearLength(z) \in Int
        /\ NewYear(y) = NewYear(z) + YearLength(z)
    BY <2>1, NewYears
  <2>3. MonthLength(z, 12) = 31 /\ DaysUntil(z, 12) = YearLength(z) - 31
    BY DecemberIs
  <2>4. DaysUntil(y, m) = 0
    BY <1>2 DEF DaysUntil, monthStarts
  <2>5. MonthStart(z, 12) + MonthLength(z, 12) = MonthStart(y, m)
    BY <2>2, <2>3, <2>4 DEF MonthStart
  <2>6. 12 * z + 12 = 12 * y + m - 1
    BY <1>2, <2>1
  <2> QED BY <2>5, <2>6
<1> QED BY <1>1, <1>2

LEMMA StartParts ==
  ASSUME NEW n \in Int
  PROVE  \E y \in Int, m \in 1 .. 12, d \in Int :
           /\ d \in 1 .. MonthLength(y, m)
           /\ DtmCast(n) = [year |-> y, month |-> m, day |-> d]
           /\ n = MonthStart(y, m) + d
<1>1. PICK y \in Int, m \in 1 .. 12, d \in Int :
        /\ d \in 1 .. MonthLength(y, m)
        /\ DtmCast(n) = [year |-> y, month |-> m, day |-> d]
        /\ n = NewYear(y) - 1 + DaysUntil(y, m) + d
  BY DayParts
<1> QED BY <1>1 DEF MonthStart

LEMMA PartsStart ==
  ASSUME NEW y \in Int, NEW m \in 1 .. 12, NEW d \in Int, d \in 1 .. MonthLength(y, m)
  PROVE  DtmCast(MonthStart(y, m) + d) = [year |-> y, month |-> m, day |-> d]
BY PartsDay DEF MonthStart

(* The parts of the date n, and of the date k months from it. *)
MonthsOff(n, k, y, m, d, Y, M, D) ==
  /\ d \in 1 .. MonthLength(y, m)
  /\ DtmCast(n) = [year |-> y, month |-> m, day |-> d]
  /\ n = MonthStart(y, m) + d
  /\ D \in 1 .. MonthLength(Y, M)
  /\ DtmCast(AddingYearsAndMonths(n, 0, k)) = [year |-> Y, month |-> M, day |-> D]
  /\ AddingYearsAndMonths(n, 0, k) = MonthStart(Y, M) + D
  /\ 12 * Y + M = 12 * y + m + k
  /\ D <= d
  /\ D < d => D = MonthLength(Y, M)

LEMMA MonthsFrom ==
  ASSUME NEW n \in Int, NEW k \in Int
  PROVE  \E y \in Int, m \in 1 .. 12, d \in Int, Y \in Int, M \in 1 .. 12, D \in Int :
           MonthsOff(n, k, y, m, d, Y, M, D)
<1>1. PICK y \in Int, m \in 1 .. 12, d \in Int :
        /\ d \in 1 .. MonthLength(y, m)
        /\ DtmCast(n) = [year |-> y, month |-> m, day |-> d]
        /\ n = MonthStart(y, m) + d
  BY StartParts
<1>2. PICK N \in Int : /\ N = AddingYearsAndMonths(n, 0, k)
                       /\ DtmCast(N) = MonthsLater(DtmCast(n), 12 * 0 + k)
  <2>1. /\ AddingYearsAndMonths(n, 0, k) \in Int
        /\ DtmCast(AddingYearsAndMonths(n, 0, k)) = MonthsLater(DtmCast(n), 12 * 0 + k)
    BY MonthsAdded
  <2> QED BY <2>1
<1>3. PICK Y \in Int, M \in 1 .. 12, D \in Int :
        /\ D \in 1 .. MonthLength(Y, M)
        /\ DtmCast(N) = [year |-> Y, month |-> M, day |-> D]
        /\ N = MonthStart(Y, M) + D
  BY StartParts
<1>4. PICK T \in Int : T = 12 * y + m - 1 + k
  OBVIOUS
<1>5. MonthsLater(DtmCast(n), 12 * 0 + k) = Clipped(DtmCast(n), T \div 12, (T % 12) + 1)
  <2>1. 12 * DtmCast(n).year + DtmCast(n).month - 1 + (12 * 0 + k) = T
    BY <1>1, <1>4
  <2> QED BY <2>1 DEF MonthsLater
<1>6. Y = T \div 12 /\ M = (T % 12) + 1
  BY <1>2, <1>3, <1>5 DEF Clipped
<1>7. 12 * Y + M = 12 * y + m + k
  BY <1>4, <1>6
<1>8. D = IF d > MonthLength(Y, M) THEN MonthLength(Y, M) ELSE d
  BY <1>1, <1>2, <1>3, <1>5, <1>6 DEF Clipped
<1>9. D <= d /\ (D < d => D = MonthLength(Y, M))
  <2>1. MonthLength(Y, M) \in Int
    BY MonthDays
  <2> QED BY <1>8, <2>1
<1> QED BY <1>1, <1>2, <1>3, <1>7, <1>9 DEF MonthsOff

(* A date, a later one and the months between them. *)
Reads(n, y, m, d) == DtmCast(n) = [year |-> y, month |-> m, day |-> d]

Span(y, m, z, k) == (z - y) * 12 + k - m

At(n, t) == [n |-> n, time |-> t]

MonthsFromTo(f, l) == MonthsBetween(f, l, TRUE)

Apartness(f, l, span, d, e) ==
  /\ e < d => MonthsFromTo(f, l) = span - 1 /\ MonthsFromTo(l, f) = 0 - (span - 1)
  /\ ~(e < d) => MonthsFromTo(f, l) = span /\ MonthsFromTo(l, f) = 0 - span

LEMMA Between ==
  ASSUME NEW n \in Int, NEW p \in Int, NEW t \in Int, n < p,
         NEW y \in Int, NEW m \in 1 .. 12, NEW d \in Int, Reads(n, y, m, d),
         NEW z \in Int, NEW k \in 1 .. 12, NEW e \in Int, Reads(p, z, k, e)
  PROVE  Apartness(At(n, t), At(p, t), Span(y, m, z, k), d, e)
<1> DEFINE f == At(n, t)
           l == At(p, t)
<1>1. Before(f, l) /\ ~Before(l, f)
  BY DEF Before, At
<1>2. f.time = t /\ l.time = t
  BY DEF At
<1>3. DtmCast(f.n) = [year |-> y, month |-> m, day |-> d]
  BY DEF At, Reads
<1>4. DtmCast(l.n) = [year |-> z, month |-> k, day |-> e]
  BY DEF At, Reads
<1>5. PICK span \in Int : span = Span(y, m, z, k)
  BY DEF Span
<1> HIDE DEF f, l
<1>6. CASE e < d
  <2>1. MonthsFromTo(f, l) = (z - y) * 12 + k - m - 1
    BY <1>1, <1>3, <1>4, <1>6 DEF MonthsFromTo, MonthsBetween
  <2>2. MonthsFromTo(l, f) = 0 - ((z - y) * 12 + k - m - 1)
    BY <1>1, <1>3, <1>4, <1>6 DEF MonthsFromTo, MonthsBetween
  <2> QED BY <1>6, <2>1, <2>2 DEF f, l, Span, Apartness
<1>7. CASE ~(e < d)
  <2>1. ~(e < d \/ (TRUE /\ e = d /\ l.time < f.time))
    BY <1>2, <1>7
  <2>2. MonthsFromTo(f, l) = (z - y) * 12 + k - m - 0
    BY <1>1, <1>3, <1>4, <2>1 DEF MonthsFromTo, MonthsBetween
  <2>3. MonthsFromTo(l, f) = 0 - ((z - y) * 12 + k - m - 0)
    BY <1>1, <1>3, <1>4, <2>1 DEF MonthsFromTo, MonthsBetween
  <2> QED BY <1>7, <2>2, <2>3 DEF f, l, Span, Apartness
<1> QED BY <1>6, <1>7

LEMMA Apart ==
  ASSUME NEW n \in Int, NEW t \in Int, NEW k \in Int, k # 0,
         NEW p, p = AddingYearsAndMonths(n, 0, k)
  PROVE  /\ \/ MonthsFromTo(At(n, t), At(p, t)) = k
            \/ /\ k > 0 /\ MonthsFromTo(At(n, t), At(p, t)) = k - 1
               /\ DtmCast(p).day < DtmCast(n).day
         /\ k > 0 => MonthsFromTo(At(n, t), At(p - 1, t)) = k - 1
<1>1. PICK y \in Int, m \in 1 .. 12, d \in Int, Y \in Int, M \in 1 .. 12, D \in Int :
        MonthsOff(n, k, y, m, d, Y, M, D)
  BY MonthsFrom
<1>2. p \in Int
  <2>1. AddingYearsAndMonths(n, 0, k) \in Int
    BY MonthsAdded
  <2> QED BY <2>1
<1>3. PICK s \in Int, S \in Int, l \in Int, L \in Int :
        /\ s = MonthStart(y, m) /\ S = MonthStart(Y, M)
        /\ l = MonthLength(y, m) /\ L = MonthLength(Y, M)
        /\ 28 <= l /\ 28 <= L
  <2>1. MonthStart(y, m) \in Int /\ MonthStart(Y, M) \in Int
    BY StartInt
  <2> QED BY <2>1, MonthDays
<1>4. /\ n = s + d /\ p = S + D
      /\ 1 <= d /\ d <= l /\ 1 <= D /\ D <= L
      /\ D <= d /\ (D < d => D = L)
  BY <1>1, <1>3 DEF MonthsOff
<1>5. 12 * Y + M = 12 * y + m + k
  BY <1>1 DEF MonthsOff
<1>6. Reads(n, y, m, d) /\ Reads(p, Y, M, D)
  BY <1>1 DEF MonthsOff, Reads
<1>7. DtmCast(n).day = d /\ DtmCast(p).day = D
  BY <1>6 DEF Reads
<1>8. Span(y, m, Y, M) = k /\ Span(Y, M, y, m) = 0 - k
  BY <1>5 DEF Span
<1> DEFINE here == At(n, t)
           there == At(p, t)
           eve == At(p - 1, t)
<1>9. CASE k > 0
  <2>1. s + l <= S
    <3>1. 12 * y + m < 12 * Y + M
      BY <1>5, <1>9
    <3>2. MonthStart(y, m) + MonthLength(y, m) <= MonthStart(Y, M)
      BY <3>1, StartsLater
    <3> QED BY <1>3, <3>2
  <2>2. n < p /\ n < p - 1 /\ p - 1 \in Int
    <3>1. D >= 2 \/ d = 1
      BY <1>3, <1>4
    <3> QED BY <1>3, <1>4, <2>1, <3>1
  <2>3. /\ D < d => MonthsFromTo(here, there) = k - 1
        /\ ~(D < d) => MonthsFromTo(here, there) = k
    <3>1. Apartness(here, there, Span(y, m, Y, M), d, D)
      BY <1>2, <1>6, <2>2, Between
    <3> QED BY <1>8, <3>1 DEF Apartness
  <2>4. MonthsFromTo(here, eve) = k - 1
    <3>1. CASE D > 1
      <4>1. PICK e \in Int : e = D - 1 /\ e \in 1 .. MonthLength(Y, M) /\ e < d
        <5>1. D - 1 \in Int /\ D - 1 \in 1 .. L /\ D - 1 < d
          BY <1>4, <3>1
        <5> QED BY <1>3, <5>1
      <4>2. p - 1 = MonthStart(Y, M) + e
        BY <1>3, <1>4, <4>1
      <4>3. Reads(p - 1, Y, M, e)
        BY <4>1, <4>2, PartsStart DEF Reads
      <4>4. Apartness(here, eve, Span(y, m, Y, M), d, e)
        BY <1>6, <2>2, <4>3, Between
      <4> QED BY <1>8, <4>1, <4>4 DEF Apartness
    <3>2. CASE D = 1
      <4>1. d = 1
        BY <1>3, <1>4, <3>2
      <4>2. PICK z \in Int, j \in 1 .. 12 :
              /\ 12 * z + j = 12 * Y + M - 1
              /\ MonthStart(z, j) + MonthLength(z, j) = MonthStart(Y, M)
        BY StartBefore
      <4>3. PICK e \in Int, r \in Int : /\ e = MonthLength(z, j) /\ e >= 28
                                        /\ r = MonthStart(z, j)
        BY StartInt, MonthDays
      <4>4. p - 1 = MonthStart(z, j) + e
        <5>1. r + e = S
          BY <1>3, <4>2, <4>3
        <5> QED BY <1>4, <3>2, <4>3, <5>1
      <4>5. e \in 1 .. MonthLength(z, j)
        BY <4>3
      <4>6. Reads(p - 1, z, j, e)
        BY <4>4, <4>5, PartsStart DEF Reads
      <4>7. Span(y, m, z, j) = k - 1 /\ ~(e < d)
        BY <1>5, <4>1, <4>2, <4>3 DEF Span
      <4>8. Apartness(here, eve, Span(y, m, z, j), d, e)
        BY <1>6, <2>2, <4>6, Between
      <4> QED BY <4>7, <4>8 DEF Apartness
    <3> QED BY <1>4, <3>1, <3>2
  <2> QED BY <1>7, <1>9, <2>3, <2>4
<1>10. CASE k < 0
  <2>1. S + L <= s
    <3>1. 12 * Y + M < 12 * y + m
      BY <1>5, <1>10
    <3>2. MonthStart(Y, M) + MonthLength(Y, M) <= MonthStart(y, m)
      BY <3>1, StartsLater
    <3> QED BY <1>3, <3>2
  <2>2. p < n
    BY <1>3, <1>4, <2>1
  <2>3. ~(d < D)
    BY <1>4
  <2>4. MonthsFromTo(here, there) = 0 - (0 - k)
    <3>1. Apartness(there, here, Span(Y, M, y, m), D, d)
      BY <1>2, <1>6, <2>2, Between
    <3> QED BY <1>8, <2>3, <3>1 DEF Apartness
  <2> QED BY <1>10, <2>4
<1> QED BY <1>9, <1>10

LEMMA YearSet ==
  ASSUME NEW n \in Int, NEW z \in Int
  PROVE  DtmCast(SetYear(n, z)) = Clipped(DtmCast(n), z, DtmCast(n).month)
<1>1. PICK y \in Int, m \in 1 .. 12 : DtmCast(n).year = y /\ DtmCast(n).month = m
  BY DayParts
<1>2. DtmCast(SetYear(n, z)) = MonthsLater(DtmCast(n), 12 * (z - y) + 0)
  <2>1. z - y \in Int /\ 0 \in Int
    OBVIOUS
  <2> QED BY <1>1, <2>1, MonthsAdded DEF SetYear
<1>3. 12 * DtmCast(n).year + DtmCast(n).month - 1 + (12 * (z - y) + 0) = 12 * z + m - 1
  BY <1>1
<1>4. (12 * z + m - 1) \div 12 = z /\ ((12 * z + m - 1) % 12) + 1 = m
  BY MonthDiv
<1> QED BY <1>1, <1>2, <1>3, <1>4 DEF MonthsLater

LEMMA DaySet ==
  ASSUME NEW n \in Int, NEW k \in 1 .. MonthLength(DtmCast(n).year, DtmCast(n).month)
  PROVE  DtmCast(SetDay(n, k)) = [DtmCast(n) EXCEPT !.day = k]
<1>1. PICK y \in Int, m \in 1 .. 12, d \in Int :
        DtmCast(n) = [year |-> y, month |-> m, day |-> d]
  BY DayParts
<1>2. DtmCast(TmFromYMD(y, m, k)) = [year |-> y, month |-> m, day |-> k]
  BY <1>1, DateRoundTrip
<1>3. SetDay(n, k) = TmFromYMD(y, m, k)
  BY <1>1 DEF SetDay
<1>4. [DtmCast(n) EXCEPT !.day = k] = [year |-> y, month |-> m, day |-> k]
  BY <1>1
<1> QED BY <1>2, <1>3, <1>4

(* The day doy of the year y. *)
LEMMA DayOfYearIs ==
  ASSUME NEW y \in Int, NEW doy \in Int, 1 <= doy, doy <= YearLength(y)
  PROVE  /\ DtmCast(NewYear(y) + doy - 1).year = y
         /\ YearDay(DtmCast(NewYear(y) + doy - 1)) = doy
<1>1. PICK s \in Int, L \in Int : /\ s = NewYear(y) /\ L = YearLength(y)
                                  /\ NewYear(y + 1) = s + L
  BY NewYears
<1>2. PICK x \in Int : x = s + doy - 1
  OBVIOUS
<1>3. PICK z \in Int, m \in 1 .. 12, d \in Int :
        /\ d \in 1 .. MonthLength(z, m)
        /\ DtmCast(x) = [year |-> z, month |-> m, day |-> d]
        /\ x = NewYear(z) - 1 + DaysUntil(z, m) + d
  BY DayParts
<1>4. PICK t \in Int, M \in Int : /\ t = NewYear(z) /\ M = YearLength(z)
                                  /\ NewYear(z + 1) = t + M
  <2>1. /\ NewYear(z) \in Int /\ YearLength(z) \in Int
        /\ NewYear(z + 1) = NewYear(z) + YearLength(z)
    BY ONLY z \in Int, NewYears
  <2> QED BY ONLY <2>1
<1>5. PICK u \in Int : u = DaysUntil(z, m) /\ 1 <= u + d /\ u + d <= M
  <2>1. /\ DaysUntil(z, m) \in Int /\ DaysUntil(z, m) \in 0 .. 335
        /\ MonthLength(z, m) \in Int
        /\ DaysUntil(z, m) + MonthLength(z, m) <= YearLength(z)
    BY UntilInt, UntilEnds
  <2>2. PICK u \in Int, l \in Int : u = DaysUntil(z, m) /\ l = MonthLength(z, m)
    BY <2>1
  <2>3. u >= 0 /\ u + l <= M /\ 1 <= d /\ d <= l
    BY <1>3, <1>4, <2>1, <2>2
  <2>4. 1 <= u + d /\ u + d <= M
    BY ONLY d \in Int, M \in Int, u \in Int, l \in Int, <2>3
  <2> QED BY ONLY u \in Int, <2>2, <2>4
<1>6. t <= x /\ x < t + M /\ s <= x /\ x < s + L
  BY <1>1, <1>2, <1>3, <1>4, <1>5
<1>7. z = y
  <2>1. CASE z < y
    <3>1. z + 1 \in Int /\ z + 1 <= y
      BY <2>1
    <3>2. t + M <= s
      BY <1>1, <1>4, <3>1, YearsLater
    <3> QED BY <1>6, <3>2
  <2>2. CASE y < z
    <3>1. y + 1 \in Int /\ y + 1 <= z
      BY <2>2
    <3>2. s + L <= t
      BY <1>1, <1>4, <3>1, YearsLater
    <3> QED BY <1>6, <3>2
  <2> QED BY <2>1, <2>2
<1>8. u + d = doy
  BY <1>1, <1>2, <1>3, <1>4, <1>5, <1>7
<1>9. YearDay(DtmCast(x)) = doy
  BY <1>3, <1>5, <1>8, YearDayIs
<1>10. NewYear(y) + doy - 1 = x
  BY <1>1, <1>2
<1> QED BY <1>3, <1>7, <1>9, <1>10

(* A day number n, of the year y: the days of the year, and the one that   *)
(* can be set behind a leap year.                                          *)
DaysSettable(n, y) ==
  /\ \A doy \in 1 .. YearLength(y) :
       /\ DayOfYearAccepted(n, doy) <=> doy # 366
       /\ DtmCast(SetDayOfYear(n, doy)).year = y
       /\ YearDay(DtmCast(SetDayOfYear(n, doy))) = doy
  /\ DayOfYearAccepted(n, 367) =>
       /\ IsLeap(y)
       /\ DtmCast(SetDayOfYear(n, 367)) = [year |-> y + 1, month |-> 1, day |-> 1]

LEMMA DayOfYearSet ==
  ASSUME NEW n \in Int, NEW y \in Int, y = DtmCast(n).year
  PROVE  DaysSettable(n, y)
<1>1. \A doy \in Int : SetDayOfYear(n, doy) = NewYear(y) + doy - 1
  BY DEF SetDayOfYear, NewYear
<1>2. YearLength(y) \in Int /\ YearLength(y) \in {365, 366}
  BY NewYears
<1>3. ASSUME NEW doy \in 1 .. YearLength(y)
      PROVE  /\ DayOfYearAccepted(n, doy) <=> doy # 366
             /\ DtmCast(SetDayOfYear(n, doy)).year = y
             /\ YearDay(DtmCast(SetDayOfYear(n, doy))) = doy
  <2>1. doy \in Int /\ 1 <= doy /\ doy <= YearLength(y) /\ doy <= 366
    BY <1>2
  <2>2. DayOfYearAccepted(n, doy) <=> doy # 366
    BY <2>1 DEF DayOfYearAccepted
  <2>3. SetDayOfYear(n, doy) = NewYear(y) + doy - 1
    BY <1>1, <2>1
  <2>4. /\ DtmCast(NewYear(y) + doy - 1).year = y
        /\ YearDay(DtmCast(NewYear(y) + doy - 1)) = doy
    BY ONLY <2>1, y \in Int, DayOfYearIs
  <2> QED BY ONLY <2>2, <2>3, <2>4
<1>4. ASSUME DayOfYearAccepted(n, 367)
      PROVE  /\ IsLeap(y)
             /\ DtmCast(SetDayOfYear(n, 367)) = [year |-> y + 1, month |-> 1, day |-> 1]
  <2>1. IsLeap(y)
    BY <1>4 DEF DayOfYearAccepted
  <2>2. SetDayOfYear(n, 367) = NewYear(y + 1)
    <3>1. NewYear(y) \in Int /\ NewYear(y + 1) = NewYear(y) + 366
      BY <2>1, NewYears DEF YearLength
    <3>2. SetDayOfYear(n, 367) = NewYear(y) + 367 - 1
      BY <1>1
    <3> QED BY <3>1, <3>2
  <2>3. y + 1 \in Int /\ 1 \in 1 .. 12 /\ 1 \in 1 .. MonthLength(y + 1, 1)
    BY DEF MonthLength
  <2>4. DtmCast(TmFromYMD(y + 1, 1, 1)) = [year |-> y + 1, month |-> 1, day |-> 1]
    BY ONLY <2>3, DateRoundTrip
  <2> QED BY <2>1, <2>2, <2>4 DEF NewYear
<1> QED BY ONLY <1>3, <1>4 DEF DaysSettable

(* Whatever is done with a date, what MSCDate.c computes of it and what    *)
(* it makes of it are the calendar's: the day of the year, the week and    *)
(* its year, the months added and set, the months between two dates, the   *)
(* years and days that are set; but the last day of a leap year cannot be  *)
(* set by its number.                                                      *)
THEOREM CalendarAlwaysAgrees == Spec => []CalendarAgrees
<1>1. DateOK => CalendarAgrees
  <2> SUFFICES ASSUME DateOK PROVE CalendarAgrees
    OBVIOUS
  <2>1. PICK n \in Int, t \in Int : date = [n |-> n, time |-> t]
    <3>1. date \in [n : Int, time : Times]
      BY DEF DateOK
    <3>2. date.n \in Int /\ date.time \in Int /\ date = [n |-> date.n, time |-> date.time]
      BY <3>1, DatesAssumption
    <3> QED BY <3>2
  <2>2. WeeksAgree
    BY <2>1, WeeksRight DEF WeeksAgree, Today
  <2>3. \A y, m \in Changes :
          DtmCast(AddingYearsAndMonths(date.n, y, m)) = MonthsLater(Today, 12 * y + m)
    <3> TAKE y, m \in Changes
    <3>1. y \in Int /\ m \in Int
      BY DatesAssumption
    <3> QED BY <2>1, <3>1, MonthsAdded DEF Today
  <2>4. \A m \in 1 .. 12 : DtmCast(SetMonth(date.n, m)) = Clipped(Today, Today.year, m)
    BY <2>1, MonthSet DEF Today
  <2>5. \A w \in {1, 2, 52, 53} :
          WeekOfYear(SetWeek(date.n, w)) = w =>
            IsoYear(DtmCast(SetWeek(date.n, w)), DayOfWeek(SetWeek(date.n, w)))
              = IsoYear(Today, DayOfWeek(date.n))
    <3> TAKE w \in {1, 2, 52, 53}
    <3>1. w \in Int
      OBVIOUS
    <3> QED BY <2>1, <3>1, WeekSet DEF Today
  <2>6. MonthsApart
    <3> SUFFICES ASSUME NEW k \in Changes \ {0}
                 PROVE  LET there == [date EXCEPT !.n = AddingYearsAndMonths(date.n, 0, k)]
                            apart == MonthsBetween(date, there, TRUE)
                        IN  /\ \/ apart = k
                               \/ k > 0 /\ apart = k - 1 /\ DtmCast(there.n).day < Today.day
                            /\ k > 0 =>
                                 MonthsBetween(date, [there EXCEPT !.n = @ - 1], TRUE) = k - 1
      BY DEF MonthsApart
    <3>1. k \in Int /\ k # 0
      BY DatesAssumption
    <3>2. PICK p : p = AddingYearsAndMonths(n, 0, k)
      OBVIOUS
    <3>3. /\ \/ MonthsFromTo(At(n, t), At(p, t)) = k
             \/ /\ k > 0 /\ MonthsFromTo(At(n, t), At(p, t)) = k - 1
                /\ DtmCast(p).day < DtmCast(n).day
          /\ k > 0 => MonthsFromTo(At(n, t), At(p - 1, t)) = k - 1
      BY <3>1, <3>2, Apart
    <3>4. /\ date = At(n, t)
          /\ [date EXCEPT !.n = AddingYearsAndMonths(date.n, 0, k)] = At(p, t)
          /\ [At(p, t) EXCEPT !.n = @ - 1] = At(p - 1, t)
          /\ At(p, t).n = p
          /\ Today.day = DtmCast(n).day
      BY <2>1, <3>2 DEF Today, At
    <3> QED BY <3>3, <3>4 DEF MonthsFromTo
  <2>7. MovesAgree
    BY <2>3, <2>4, <2>5, <2>6 DEF MovesAgree
  <2>8. DaysAgree
    <3>1. \A y \in Years : DtmCast(SetYear(date.n, y)) = Clipped(Today, y, Today.month)
      <4> TAKE y \in Years
      <4>1. y \in Int
        BY DatesAssumption
      <4> QED BY <2>1, <4>1, YearSet DEF Today
    <3>2. \A d \in 1 .. MonthLength(Today.year, Today.month) :
            DtmCast(SetDay(date.n, d)) = [Today EXCEPT !.day = d]
      BY <2>1, DaySet DEF Today
    <3>3. PICK y \in Int : y = DtmCast(n).year /\ y = Today.year
      BY <2>1, CastTypes DEF Today
    <3>4. DaysSettable(n, y)
      BY <3>3, DayOfYearSet
    <3>5. date.n = n /\ Today.year = y
      BY <2>1, <3>3
    <3> QED BY ONLY <3>1, <3>2, <3>4, <3>5 DEF DaysAgree, DaysSettable
  <2> QED BY <2>2, <2>7, <2>8 DEF CalendarAgrees
<1> QED BY <1>1, DateInvariant, PTL

(***************************************************************************)
(* Locks                                                                   *)
(***************************************************************************)
Places ==
  {"out", "in", "locking", "trying", "timed", "timedWhen", "testing", "asleep",
   "relocking", "resetting", "broadcasting", "unlocking", "checking", "again", "givesUp"}

TypeOK ==
  /\ platform \in {"posix", "vista", "xp"}
  /\ pc \in [Threads -> Places] /\ want \in [Threads -> Conditions \cup {Any}]
  /\ condition \in Conditions
  /\ wronged \in BOOLEAN /\ stolen \in BOOLEAN /\ corrupt \in BOOLEAN

(* What holds of a thread as long as everything is right. *)
Holds(t) ==
  /\ pc[t] \in Has => owner = t
  /\ pc[t] = "checking" /\ Windows => owner = t
  /\ pc[t] = "in" => Met(t)

Inv ==
  /\ TypeOK
  /\ corrupt => stolen
  /\ wronged => platform = "posix" \/ stolen
  /\ \A t \in Threads : pc[t] = "timed" => want[t] = Any
  /\ Right => \A t \in Threads : Holds(t)

LEMMA InitInv == LockInit => Inv
BY ThreadsAssumption, ConditionsAssumption
   DEF LockInit, InitStd, Inv, TypeOK, Places, Right, Holds, Has, Met

(* What the caller of a form is told. *)
LEMMA Answers ==
  ASSUME NEW t \in Threads, TypeOK
  PROVE  /\ Answer(t, TRUE) =>
              /\ pc' = [pc EXCEPT ![t] = "in"] /\ want' = want /\ stolen' = stolen
              /\ wronged' \in BOOLEAN
              /\ wronged' <=> wronged \/ owner' # t
         /\ Answer(t, FALSE) =>
              /\ pc' = [pc EXCEPT ![t] = "out"] /\ want' = [want EXCEPT ![t] = Any]
              /\ stolen' = stolen
              /\ wronged' \in BOOLEAN
              /\ wronged' <=> wronged \/ owner' = t
BY DEF Answer, GoTo, TypeOK

USE DEF Windows
LEMMA NextInv == Inv /\ [LockNext]_lockVars => Inv'
<1> SUFFICES ASSUME Inv, [LockNext]_lockVars PROVE Inv'
  OBVIOUS
<1> USE ThreadsAssumption DEF Inv, TypeOK, Places, Right, Holds, Has, Met
<1>1. CASE UNCHANGED lockVars
  BY <1>1 DEF lockVars
<1>2. ASSUME NEW t \in Threads, Call(t) PROVE Inv'
  BY <1>2 DEF Call, mutexVars, eventVars
<1>3. ASSUME NEW t \in Threads, WakesUp(t) PROVE Inv'
  BY <1>3 DEF WakesUp, GoTo, mutexVars, eventVars
<1>4. ASSUME NEW t \in Threads, Locking(t) PROVE Inv'
  BY <1>4 DEF Locking, Lock, Take, GoTo, mutexVars, eventVars
<1>5. ASSUME NEW t \in Threads, Testing(t) PROVE Inv'
  BY <1>5 DEF Testing, Answer, GoTo, mutexVars, eventVars
<1>6. ASSUME NEW t \in Threads, Waiting(t) PROVE Inv'
  BY <1>6 DEF Waiting, Unlocks, Unlock, GoTo, mutexVars, eventVars
<1>7. ASSUME NEW t \in Threads, EventWakes(t) PROVE Inv'
  BY <1>7 DEF EventWakes, GoTo, mutexVars, eventVars
<1>8. ASSUME NEW t \in Threads, ResetsEvent(t) PROVE Inv'
  BY <1>8 DEF ResetsEvent, GoTo, mutexVars, eventVars
<1>9. ASSUME NEW t \in Threads, Broadcasts(t) PROVE Inv'
  BY <1>9 DEF Broadcasts, SetEvents, GoTo, mutexVars, eventVars
<1>10. ASSUME NEW t \in Threads, UnlocksWithCondition(t) PROVE Inv'
  BY <1>10 DEF UnlocksWithCondition, Unlocks, Unlock, GoTo, mutexVars, eventVars
<1>11. ASSUME NEW t \in Threads, Trying(t) PROVE Inv'
  <2> USE <1>11 DEF Trying, mutexVars, eventVars
  <2>1. CASE TryBusy(t) /\ Answer(t, FALSE)
    BY <2>1, Answers DEF TryBusy, Take
  <2>2. CASE TrySucceeds(t) /\ want[t] = Any /\ Answer(t, TRUE)
    BY <2>2, Answers DEF TrySucceeds, Lock, Take
  <2>3. CASE TrySucceeds(t) /\ want[t] # Any /\ GoTo(t, "checking") /\ UNCHANGED <<wronged, stolen>>
    BY <2>3 DEF TrySucceeds, Lock, Take, GoTo
  <2> QED BY <2>1, <2>2, <2>3
<1>12. ASSUME NEW t \in Threads, TryChecks(t) PROVE Inv'
  <2> USE <1>12 DEF TryChecks, mutexVars, eventVars
  <2>1. CASE Met(t) /\ UNCHANGED mutexVars /\ Answer(t, TRUE)
    BY <2>1, Answers
  <2>2. CASE ~Met(t) /\ Unlocks(t) /\ GoTo(t, "out")
    BY <2>2 DEF Unlocks, Unlock, GoTo
  <2> QED BY <2>1, <2>2
<1>13. ASSUME NEW t \in Threads, Timed(t) PROVE Inv'
  <2> USE <1>13 DEF Timed, TimedRound, mutexVars, eventVars
  <2>1. CASE TrySucceeds(t) /\ Answer(t, TRUE)
    BY <2>1, Answers DEF TrySucceeds, Lock, Take
  <2>2. CASE TryBusy(t) /\ Answer(t, FALSE)
    BY <2>2, Answers DEF TryBusy, Take
  <2>3. CASE TryBusy(t) /\ UNCHANGED <<pc, want, wronged, stolen>>
    BY <2>3 DEF TryBusy, Take
  <2> QED BY <2>1, <2>2, <2>3
<1>14. ASSUME NEW t \in Threads, TimedWhen(t) PROVE Inv'
  <2> USE <1>14 DEF TimedWhen, TimedRound, mutexVars, eventVars
  <2>1. CASE TrySucceeds(t) /\ Met(t) /\ Answer(t, TRUE)
    <3>1. /\ pc' = [pc EXCEPT ![t] = "in"] /\ want' = want /\ stolen' = stolen
          /\ wronged' \in BOOLEAN /\ (wronged' <=> wronged \/ owner' # t)
      BY <2>1, Answers
    <3>2. CASE Windows
      <4>1. owner' = t /\ corrupt' = corrupt /\ ~corrupt /\ (Right => owner \in {None, t})
        BY <2>1, <3>2 DEF TrySucceeds, Lock, Take
      <4> QED BY <2>1, <3>1, <3>2, <4>1
    <3>3. CASE ~Windows
      BY <2>1, <3>1, <3>3 DEF TrySucceeds
    <3> QED BY <3>2, <3>3
  <2>2. CASE TrySucceeds(t) /\ GoTo(t, "again") /\ UNCHANGED <<wronged, stolen>>
    BY <2>2 DEF TrySucceeds, Lock, Take, GoTo
  <2>3. CASE TryBusy(t) /\ GoTo(t, "givesUp") /\ UNCHANGED <<wronged, stolen>>
    BY <2>3 DEF TryBusy, Take, GoTo
  <2>4. CASE TryBusy(t) /\ UNCHANGED <<pc, want, wronged, stolen>>
    BY <2>4 DEF TryBusy, Take
  <2> QED BY <2>1, <2>2, <2>3, <2>4
<1>15. ASSUME NEW t \in Threads, GivesUp(t) PROVE Inv'
  BY <1>15 DEF GivesUp, Unlocks, Unlock, GoTo, mutexVars, eventVars
<1>16. ASSUME NEW t \in Threads, UnlockPlain(t) PROVE Inv'
  BY <1>16 DEF UnlockPlain, Unlocks, Unlock, GoTo, mutexVars, eventVars
<1>17. ASSUME NEW t \in Threads, SetsCondition(t) PROVE Inv'
  BY <1>17 DEF SetsCondition, GoTo, mutexVars, eventVars
<1> QED
  BY <1>1, <1>2, <1>3, <1>4, <1>5, <1>6, <1>7, <1>8, <1>9, <1>10, <1>11, <1>12,
     <1>13, <1>14, <1>15, <1>16, <1>17 DEF LockNext, Step, Unlocking

LEMMA Invariant == LockSpec => []Inv
BY InitInv, NextInv, PTL DEF LockSpec

(* Threads with the lock exclude each other until an answer is false or    *)
(* the mutex is unlocked by a thread that does not hold it (NSLock.m).     *)
THEOREM MutualExclusion == LockSpec => []OneHolder
<1>1. Inv => OneHolder
  BY DEF Inv, OneHolder, Right, Holds
<1> QED BY <1>1, Invariant, PTL

(* A thread that has locked for a condition finds it, whoever else was     *)
(* woken by the broadcast.                                                 *)
THEOREM ConditionFound == LockSpec => []ConditionMet
<1>1. Inv => ConditionMet
  BY DEF Inv, ConditionMet, Right, Holds
<1> QED BY <1>1, Invariant, PTL

-----------------------------------------------------------------------------
(* The waiters of xp's condition variable are those that sleep, so that a  *)
(* broadcast sets the event whenever one does; and a sleeper whose         *)
(* condition is there will be woken.  This needs no mutual exclusion.      *)
Asleep == {t \in Threads : pc[t] = "asleep"}

Wake ==
  /\ event \in BOOLEAN /\ late \in BOOLEAN
  /\ platform = "xp" => IsFiniteSet(Asleep) /\ waiters = Cardinality(Asleep)
  /\ ~late =>
       \A t \in Threads : pc[t] = "asleep" /\ Met(t) =>
         \/ platform = "xp" /\ event
         \/ \E u \in Threads : pc[u] = "broadcasting"

(* A thread does something that concerns no sleeper.                       *)
LEMMA Unconcerned ==
  ASSUME TypeOK, Wake, NEW t \in Threads, pc[t] \notin {"asleep", "broadcasting"},
         pc'[t] # "asleep",
         \A u \in Threads : u # t => pc'[u] = pc[u] /\ want'[u] = want[u],
         UNCHANGED <<platform, waiters, event, condition, late>>
  PROVE  Wake'
<1>1. Asleep' = Asleep
  BY DEF Asleep
<1>2. platform' = "xp" => IsFiniteSet(Asleep') /\ waiters' = Cardinality(Asleep')
  BY <1>1 DEF Wake
<1>3. ~late' =>
        \A u \in Threads : pc'[u] = "asleep" /\ Met(u)' =>
          \/ platform' = "xp" /\ event'
          \/ \E v \in Threads : pc'[v] = "broadcasting"
  BY DEF Wake, Met
<1> QED BY <1>2, <1>3 DEF Wake

LEMMA Moved ==
  ASSUME TypeOK, NEW t \in Threads, NEW where, GoTo(t, where)
  PROVE  /\ pc'[t] = where
         /\ \A u \in Threads : u # t => pc'[u] = pc[u] /\ want'[u] = want[u]
         /\ where \notin {"out", "broadcasting"} => want' = want
BY DEF GoTo, TypeOK

(* cnd_wait counts the waiter that goes to sleep, for another condition.   *)
LEMMA WaitingWake == ASSUME TypeOK, Wake, NEW t \in Threads, Waiting(t) PROVE Wake'
<1>1. /\ pc[t] = "testing" /\ ~Met(t) /\ GoTo(t, "asleep")
      /\ waiters' = IF platform = "xp" THEN waiters + 1 ELSE waiters
      /\ UNCHANGED <<platform, event, condition, late>>
  BY DEF Waiting
<1>2. /\ pc'[t] = "asleep" /\ want' = want
      /\ \A u \in Threads : u # t => pc'[u] = pc[u]
  BY <1>1, Moved
<1>3. ASSUME platform = "xp"
      PROVE  IsFiniteSet(Asleep') /\ waiters' = Cardinality(Asleep')
  <2>1. Asleep' = Asleep \cup {t} /\ t \notin Asleep
    BY <1>1, <1>2 DEF Asleep
  <2>2. IsFiniteSet(Asleep) /\ waiters = Cardinality(Asleep)
    BY <1>3 DEF Wake
  <2>3. IsFiniteSet(Asleep \cup {t}) /\ Cardinality(Asleep \cup {t}) = Cardinality(Asleep) + 1
    BY <2>1, <2>2, FS_AddElement
  <2> QED BY <1>1, <1>3, <2>1, <2>2, <2>3
<1>4. ~late' =>
        \A u \in Threads : pc'[u] = "asleep" /\ Met(u)' =>
          \/ platform' = "xp" /\ event'
          \/ \E v \in Threads : pc'[v] = "broadcasting"
  BY <1>1, <1>2 DEF Wake, Met
<1> QED BY <1>1, <1>3, <1>4 DEF Wake

(* A sleeper wakes up for no reason. *)
LEMMA WakesUpWake == ASSUME TypeOK, Wake, NEW t \in Threads, WakesUp(t) PROVE Wake'
<1>1. /\ pc[t] = "asleep" /\ platform # "xp" /\ GoTo(t, "relocking")
      /\ UNCHANGED <<platform, waiters, event, condition, late>>
  BY DEF WakesUp, eventVars
<1>2. /\ pc'[t] = "relocking" /\ want' = want
      /\ \A u \in Threads : u # t => pc'[u] = pc[u]
  BY <1>1, Moved
<1> QED BY <1>1, <1>2 DEF Wake, Met

(* The event wakes a sleeper, which is counted off. *)
LEMMA EventWakesWake == ASSUME TypeOK, Wake, NEW t \in Threads, EventWakes(t) PROVE Wake'
<1>1. /\ pc[t] = "asleep" /\ platform = "xp" /\ event
      /\ waiters' = waiters - 1
      /\ GoTo(t, IF waiters' = 0 THEN "resetting" ELSE "relocking")
      /\ UNCHANGED <<platform, event, condition, late>>
  BY DEF EventWakes
<1>2. /\ pc'[t] \in {"resetting", "relocking"} /\ want' = want
      /\ \A u \in Threads : u # t => pc'[u] = pc[u]
  BY <1>1, Moved
<1>3. IsFiniteSet(Asleep') /\ waiters' = Cardinality(Asleep')
  <2>1. Asleep' = Asleep \ {t} /\ t \in Asleep
    BY <1>1, <1>2 DEF Asleep
  <2>2. IsFiniteSet(Asleep) /\ waiters = Cardinality(Asleep)
    BY <1>1 DEF Wake
  <2>3. IsFiniteSet(Asleep \ {t}) /\ Cardinality(Asleep \ {t}) = Cardinality(Asleep) - 1
    BY <2>1, <2>2, FS_RemoveElement
  <2> QED BY <1>1, <2>1, <2>2, <2>3
<1> QED BY <1>1, <1>2, <1>3 DEF Wake, Met

(* A reset that finds a waiter is late; otherwise nobody sleeps. *)
LEMMA ResetsEventWake == ASSUME TypeOK, Wake, NEW t \in Threads, ResetsEvent(t) PROVE Wake'
<1>1. /\ pc[t] = "resetting" /\ GoTo(t, "relocking") /\ event' = FALSE
      /\ late' = (late \/ waiters > 0)
      /\ UNCHANGED <<platform, waiters, condition>>
  BY DEF ResetsEvent
<1>2. /\ pc'[t] = "relocking" /\ want' = want
      /\ \A u \in Threads : u # t => pc'[u] = pc[u]
  BY <1>1, Moved
<1>3. Asleep' = Asleep
  BY <1>1, <1>2 DEF Asleep
<1>4. platform' = "xp" => IsFiniteSet(Asleep') /\ waiters' = Cardinality(Asleep')
  BY <1>1, <1>3 DEF Wake
<1>5. platform = "xp" /\ ~late' => Asleep = {}
  <2> SUFFICES ASSUME platform = "xp", ~(waiters > 0) PROVE Asleep = {}
    BY <1>1
  <2>1. IsFiniteSet(Asleep) /\ waiters = Cardinality(Asleep)
    BY DEF Wake
  <2>2. Cardinality(Asleep) \in Nat
    BY <2>1, FS_CardinalityType
  <2>3. Cardinality(Asleep) = 0
    BY <2>1, <2>2
  <2> QED BY <2>1, <2>3, FS_EmptySet
<1>6. ~late' =>
        \A u \in Threads : pc'[u] = "asleep" /\ Met(u)' =>
          \/ platform' = "xp" /\ event'
          \/ \E v \in Threads : pc'[v] = "broadcasting"
  <2>1. \A u \in Threads : pc'[u] = "asleep" => u \in Asleep /\ pc[u] = "asleep"
    BY <1>2 DEF Asleep
  <2>2. \A v \in Threads : pc[v] = "broadcasting" => pc'[v] = "broadcasting"
    BY <1>1, <1>2
  <2>3. ~late' => ~late
    BY <1>1 DEF Wake
  <2> QED BY <1>1, <1>2, <1>5, <2>1, <2>2, <2>3 DEF Wake, Met
<1>7. event' \in BOOLEAN /\ late' \in BOOLEAN
  BY <1>1 DEF Wake
<1> QED BY <1>4, <1>6, <1>7 DEF Wake

(* A broadcast wakes whoever sleeps, or sets the event. *)
LEMMA BroadcastsWake == ASSUME TypeOK, Wake, NEW t \in Threads, Broadcasts(t) PROVE Wake'
<1>1. /\ pc[t] = "broadcasting"
      /\ event' = (event \/ (platform = "xp" /\ waiters > 0))
      /\ UNCHANGED <<platform, waiters, condition, want, late>>
      /\ \A u \in Threads :
           pc'[u] = IF u = t THEN "unlocking"
                    ELSE IF pc[u] = "asleep" /\ platform # "xp" THEN "relocking"
                    ELSE pc[u]
  BY DEF Broadcasts, SetEvents
<1>2. CASE platform = "xp"
  <2>1. Asleep' = Asleep
    BY <1>1, <1>2 DEF Asleep
  <2>2. IsFiniteSet(Asleep) /\ waiters = Cardinality(Asleep)
    BY <1>2 DEF Wake
  <2>3. Asleep # {} => waiters > 0
    BY <2>2, FS_CardinalityType, FS_EmptySet
  <2>4. \A u \in Threads : pc'[u] = "asleep" => event'
    BY <1>1, <1>2, <2>1, <2>3 DEF Asleep
  <2>5. event' \in BOOLEAN
    BY <1>1 DEF Wake
  <2> QED BY <1>1, <1>2, <2>1, <2>2, <2>4, <2>5 DEF Wake
<1>3. CASE platform # "xp"
  <2>1. \A u \in Threads : pc'[u] # "asleep"
    BY <1>1, <1>3
  <2>2. event' \in BOOLEAN
    BY <1>1 DEF Wake
  <2> QED BY <1>1, <1>3, <2>1, <2>2 DEF Wake
<1> QED BY <1>2, <1>3

(* The condition changes; its broadcast is still to come. *)
LEMMA SetsConditionWake == ASSUME TypeOK, Wake, NEW t \in Threads, SetsCondition(t) PROVE Wake'
<1>1. /\ pc[t] = "in" /\ GoTo(t, "broadcasting")
      /\ UNCHANGED <<platform, waiters, event, late>>
  BY DEF SetsCondition, eventVars
<1>2. pc'[t] = "broadcasting" /\ \A u \in Threads : u # t => pc'[u] = pc[u]
  BY <1>1, Moved
<1>3. Asleep' = Asleep
  BY <1>1, <1>2 DEF Asleep
<1> QED BY <1>1, <1>2, <1>3 DEF Wake

LEMMA NextWake == Inv /\ Wake /\ [LockNext]_lockVars => Wake'
<1> SUFFICES ASSUME Inv, Wake, [LockNext]_lockVars PROVE Wake'
  OBVIOUS
<1>0. TypeOK
  BY DEF Inv
<1>1. CASE UNCHANGED lockVars
  <2>1. Asleep' = Asleep
    BY <1>1 DEF lockVars, Asleep
  <2> QED BY <1>1, <2>1 DEF lockVars, Wake, Met
<1>2. ASSUME NEW t \in Threads,
             UNCHANGED <<platform, waiters, event, condition, late>>,
             pc[t] \notin {"asleep", "broadcasting"},
             \/ \E where : where # "asleep" /\ GoTo(t, where)
             \/ UNCHANGED <<pc, want>>
      PROVE  Wake'
  <2>1. CASE UNCHANGED <<pc, want>>
    BY <1>0, <1>2, <2>1, Unconcerned
  <2>2. CASE \E where : where # "asleep" /\ GoTo(t, where)
    <3>1. PICK where : where # "asleep" /\ GoTo(t, where)
      BY <2>2
    <3>2. /\ pc'[t] # "asleep"
          /\ \A u \in Threads : u # t => pc'[u] = pc[u] /\ want'[u] = want[u]
      BY <1>0, <3>1, Moved
    <3> QED BY <1>0, <1>2, <3>2, Unconcerned
  <2> QED BY <1>2, <2>1, <2>2
<1>3. ASSUME NEW t \in Threads, Call(t) PROVE Wake'
  <2>1. /\ pc[t] = "out" /\ UNCHANGED <<platform, waiters, event, condition, late>>
        /\ pc'[t] # "asleep"
        /\ \A u \in Threads : u # t => pc'[u] = pc[u] /\ want'[u] = want[u]
    BY <1>0, <1>3 DEF Call, TypeOK, eventVars
  <2> QED BY <1>0, <2>1, Unconcerned
<1>4. ASSUME NEW t \in Threads, Answer(t, TRUE) \/ Answer(t, FALSE)
      PROVE  \E where : where # "asleep" /\ GoTo(t, where)
  BY <1>4 DEF Answer
<1>5. ASSUME NEW t \in Threads, Locking(t) \/ UnlockPlain(t) \/ UnlocksWithCondition(t) \/ GivesUp(t)
      PROVE  Wake'
  BY <1>2, <1>5 DEF Locking, UnlockPlain, UnlocksWithCondition, GivesUp, eventVars
<1>6. ASSUME NEW t \in Threads, Testing(t) PROVE Wake'
  BY <1>2, <1>4, <1>6 DEF Testing, eventVars
<1>7. ASSUME NEW t \in Threads, Trying(t) PROVE Wake'
  BY <1>2, <1>4, <1>7 DEF Trying, eventVars
<1>8. ASSUME NEW t \in Threads, TryChecks(t) PROVE Wake'
  BY <1>2, <1>4, <1>8 DEF TryChecks, eventVars
<1>9. ASSUME NEW t \in Threads, Timed(t) PROVE Wake'
  BY <1>2, <1>4, <1>9 DEF Timed, TimedRound, eventVars
<1>10. ASSUME NEW t \in Threads, TimedWhen(t) PROVE Wake'
  BY <1>2, <1>4, <1>10 DEF TimedWhen, TimedRound, eventVars
<1> QED
  BY <1>0, <1>1, <1>3, <1>5, <1>6, <1>7, <1>8, <1>9, <1>10, WaitingWake, WakesUpWake,
     EventWakesWake, ResetsEventWake, BroadcastsWake, SetsConditionWake DEF LockNext, Step, Unlocking

LEMMA InitWake == LockInit => Wake
<1> SUFFICES ASSUME LockInit PROVE Wake
  OBVIOUS
<1>1. Asleep = {}
  BY DEF LockInit, Asleep
<1> QED BY <1>1, FS_EmptySet DEF LockInit, InitStd, Wake

LEMMA WakeHolds == LockSpec => []Wake
BY InitWake, NextWake, Invariant, PTL DEF LockSpec

(* unlockWithCondition: leaves nobody asleep whose condition is there:     *)
(* until its broadcast it is still to come, and after it the waiter is     *)
(* woken or the event of xp is set, unless a late reset took it back.      *)
THEOREM NobodyOversleeps == LockSpec => []NoLostWakeup
<1>1. Wake => NoLostWakeup
  BY DEF Wake, NoLostWakeup
<1> QED BY <1>1, WakeHolds, PTL
=============================================================================
