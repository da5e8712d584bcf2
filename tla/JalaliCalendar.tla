--------------------------- MODULE JalaliCalendar ---------------------------
(***************************************************************************)
(* The arithmetic of the Jalali calendar: from dates to Julian day numbers *)
(* and back, over both calendars.  A behaviour walks through the years.    *)
(***************************************************************************)
EXTENDS Integers, Sequences

CONSTANTS FirstYear, LastYear   \* years of the Jalali calendar to walk through

VARIABLE year

\* ~~(a / b) cuts towards zero, also below it.
idiv(a, b) == IF a < 0 THEN -((-a) \div b) ELSE a \div b
imod(a, b) == a - idiv(a, b) * b

BREAKS == <<-61, 9, 38, 199, 426, 686, 756, 818, 1111, 1181, 1210, 1635, 2060, 2097, 2192, 2262,
            2324, 2394, 2456, 3178>>
ALGO_MAX_YEAR == 3177

\* The cycle the year is in, and the leap years of all cycles before it.
CycleOf(jy) == CHOOSE i \in 2..Len(BREAKS) : BREAKS[i - 1] <= jy /\ jy < BREAKS[i]
LeapsOf(jump) == idiv(jump, 33) * 8 + idiv(imod(jump, 33), 4)
leapsBefore[i \in 2..Len(BREAKS)] ==
  IF i = 2 THEN -14 ELSE leapsBefore[i - 1] + LeapsOf(BREAKS[i - 1] - BREAKS[i - 2])

leapFromCycle(jump, n) ==
  LET adj  == IF jump - n < 6 THEN n - jump + idiv(jump + 4, 33) * 33 ELSE n
      leap == imod(imod(adj + 1, 33) - 1, 4)
  IN IF leap = -1 THEN 4 ELSE leap

jalCal(jy) ==
  LET i == CycleOf(jy)  jump == BREAKS[i] - BREAKS[i - 1]  n == jy - BREAKS[i - 1]  gy == jy + 621
      leapJ == leapsBefore[i] + idiv(n, 33) * 8 + idiv(imod(n, 33) + 3, 4)
                 + (IF imod(jump, 33) = 4 /\ jump - n = 4 THEN 1 ELSE 0)
      leapG == idiv(gy, 4) - idiv((idiv(gy, 100) + 1) * 3, 4) - 150
  IN [leap |-> leapFromCycle(jump, n), gy |-> gy, march |-> 20 + leapJ - leapG]

g2d(gy, gm, gd) ==
  LET y == gy + 100100 + idiv(gm - 8, 6)
  IN idiv(y * 1461, 4) + idiv(153 * imod(gm + 9, 12) + 2, 5) + gd - 34840408
       - idiv(idiv(y, 100) * 3, 4) + 752

d2g(jdn) ==
  LET j  == 4 * jdn + 139361631 + idiv(idiv(4 * jdn + 183187720, 146097) * 3, 4) * 4 - 3908
      i  == idiv(imod(j, 1461), 4) * 5 + 308
      gm == imod(idiv(i, 153), 12) + 1
  IN [y |-> idiv(j, 1461) - 100100 + idiv(8 - gm, 6), m |-> gm, d |-> idiv(imod(i, 153), 5) + 1]

j2d(jy, jm, jd) ==
  LET r == jalCal(jy)
  IN g2d(r.gy, 3, r.march) + (jm - 1) * 31 - idiv(jm, 7) * (jm - 7) + jd - 1

d2j(jdn) ==
  LET gy == d2g(jdn).y
      jy == IF gy - 621 > ALGO_MAX_YEAR THEN ALGO_MAX_YEAR ELSE gy - 621
      r  == jalCal(jy)
      k  == jdn - g2d(r.gy, 3, r.march)
      FirstHalf(n)     == [y |-> jy, m |-> 1 + idiv(n, 31), d |-> imod(n, 31) + 1]
      SecondHalf(y, n) == [y |-> y, m |-> 7 + idiv(n, 30), d |-> imod(n, 30) + 1]
  IN CASE k \in 0..185 -> FirstHalf(k)
       [] k > 185 -> SecondHalf(jy, k - 186)
       [] k < 0 -> SecondHalf(jy - 1, k + 179 + (IF r.leap = 1 THEN 1 ELSE 0))

isLeap(jy) == jalCal(jy).leap = 0
monthDays(jy, jm) == IF jm <= 6 THEN 31 ELSE IF jm <= 11 THEN 30 ELSE IF isLeap(jy) THEN 30 ELSE 29

\* Years are floored here, also before the year 0.
addMonths(from, months) ==
  LET total == from.y * 12 + (from.m - 1) + months
      y     == total \div 12
      m     == (total % 12) + 1
  IN [y |-> y, m |-> m, d |-> IF from.d > monthDays(y, m) THEN monthDays(y, m) ELSE from.d]

Init == year = FirstYear
Next == year < LastYear /\ year' = year + 1
Spec == Init /\ [][Next]_year

------------------------------------------------------------------------------
Date(y, m, d) == [y |-> y, m |-> m, d |-> d]
\* A day and the next one, by the lengths of the months.
Tomorrow(p) ==
  IF p.d < monthDays(p.y, p.m) THEN Date(p.y, p.m, p.d + 1)
  ELSE IF p.m < 12 THEN Date(p.y, p.m + 1, 1) ELSE Date(p.y + 1, 1, 1)

IsGregorianLeap(gy) == gy % 4 = 0 /\ (gy % 100 = 0 => gy % 400 = 0)
GregorianDays(gy, gm) ==
  IF gm = 2 THEN (IF IsGregorianLeap(gy) THEN 29 ELSE 28) ELSE IF gm \in {4, 6, 9, 11} THEN 30 ELSE 31
GregorianTomorrow(p) ==
  IF p.d < GregorianDays(p.y, p.m) THEN Date(p.y, p.m, p.d + 1)
  ELSE IF p.m < 12 THEN Date(p.y, p.m + 1, 1) ELSE Date(p.y + 1, 1, 1)

\* The ends of the months where their lengths and the years of both calendars change.
Turning == {Date(year, m, 1) : m \in {1, 7, 12}} \cup {Date(year, m, monthDays(year, m)) : m \in {1, 6, 11, 12}}
             \cup {Date(year, 10, d) : d \in 9..12}
Day(p) == j2d(p.y, p.m, p.d)

\* Dates are the day numbers: each date comes back from its number, the day after a date has
\* the next number, over leap years and the breaks of the cycles, and the same numbers are
\* consecutive days of the Gregorian calendar.
DaysAreCounted ==
  \A p \in Turning :
    /\ d2j(Day(p)) = p
    /\ Tomorrow(p).y <= LastYear => Day(Tomorrow(p)) = Day(p) + 1
    /\ d2g(Day(p) + 1) = GregorianTomorrow(d2g(Day(p)))
    /\ LET g == d2g(Day(p)) IN g2d(g.y, g.m, g.d) = Day(p)

\* Adding months and taking them off again gives the same date if every month has the day, and
\* adding them counts the months and stays within the month.
MonthsAreAdded ==
  \A m \in {1, 6, 7, 12}, months \in {-13, -1, 6, 12} :
    year + 3 <= LastYear /\ year - 3 >= FirstYear =>
      /\ addMonths(addMonths(Date(year, m, 29), months), -months) = Date(year, m, 29)
      /\ LET p == addMonths(Date(year, m, monthDays(year, m)), months)
         IN p.y * 12 + p.m = year * 12 + m + months /\ p.d <= monthDays(p.y, p.m)
=============================================================================
