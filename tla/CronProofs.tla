----------------------------- MODULE CronProofs -----------------------------
(***************************************************************************)
(* Theorems about Cron, for every set of expressions, every zone and every *)
(* moment to start from: the scan of Next returns the first moment due.    *)
(*                                                                         *)
(* The argument has four parts.  The calendar: numbers and dates of days   *)
(* are in step, and the cursor's jumps pass no day of another month.       *)
(* Local time: a moment whose fields read back is the reading of its       *)
(* minute, such moments are in the order of their clocks, and no day comes *)
(* back.  Parse: the masks select what the text says.  The scan: nothing   *)
(* was due behind the cursor.                                              *)
(***************************************************************************)
EXTENDS Cron, FiniteSetTheorems, WellFoundedInduction, TLAPS

(***************************************************************************)
(* The calendar.                                                           *)
(***************************************************************************)
Dates == {d \in Int \X (1..12) \X Int : d[3] \in 1..daysInMonth(d[1], d[2])}
\* The first day of a year, and of the month after one.
yearStart(y) == 365 * (y - 2020) + ((y - 2017) \div 4)
length(y) == IF leap(y) THEN 366 ELSE 365
sum(y, m) == before[m] + IF leap(y) /\ m > 2 THEN 1 ELSE 0

LEMMA YearInt == ASSUME NEW y \in Int PROVE yearStart(y) \in Int /\ length(y) \in Int
BY DEF yearStart, length

LEMMA YearEnds == ASSUME NEW y \in Int PROVE yearStart(y + 1) = yearStart(y) + length(y)
BY DEF yearStart, length, leap

LEMMA YearsApart ==
  ASSUME NEW y \in Int, NEW z \in Int, y < z
  PROVE  yearStart(y) + length(y) <= yearStart(z)
BY DEF yearStart, length, leap

LEMMA YearOf ==
  ASSUME NEW n \in Int
  PROVE  yearOf(n) \in Int /\ yearStart(yearOf(n)) <= n /\ n < yearStart(yearOf(n)) + length(yearOf(n))
<1> DEFINE c == n \div 1461
           r == n % 1461
           q == IF r < 366 THEN 0 ELSE (r - 1) \div 365
<1>1. c \in Int /\ r \in 0..1460 /\ n = 1461 * c + r
  OBVIOUS
<1>2. q \in 0..3 /\ (q = 0 => r < 366) /\ (q > 0 => 365 * q + 1 <= r /\ r < 365 * q + 366)
  BY <1>1
<1>3. yearOf(n) = 2020 + 4 * c + q
  BY DEF yearOf
<1> HIDE DEF c, r, q
<1>4. (2020 + 4 * c + q - 2017) \div 4 = c + IF q = 0 THEN 0 ELSE 1
  BY <1>1, <1>2
<1>5. (2020 + 4 * c + q) % 4 = q
  BY <1>1, <1>2
<1> QED BY <1>1, <1>2, <1>3, <1>4, <1>5 DEF yearStart, length, leap

LEMMA Table ==
  /\ before[1] = 0 /\ before[2] = 31 /\ before[3] = 59 /\ before[4] = 90 /\ before[5] = 120
  /\ before[6] = 151 /\ before[7] = 181 /\ before[8] = 212 /\ before[9] = 243
  /\ before[10] = 273 /\ before[11] = 304 /\ before[12] = 334
BY DEF before

LEMMA Lengths ==
  ASSUME NEW y \in Int, NEW m \in 1..12
  PROVE  daysInMonth(y, m) \in Int /\ 28 <= daysInMonth(y, m) /\ daysInMonth(y, m) <= 31 /\ sum(y, m) \in Int
BY Table DEF daysInMonth, sum

LEMMA Months ==
  ASSUME NEW y \in Int
  PROVE  /\ sum(y, 1) = 0 /\ sum(y, 12) + daysInMonth(y, 12) = length(y)
         /\ \A m \in 1..11 : sum(y, m + 1) = sum(y, m) + daysInMonth(y, m)
<1>1. sum(y, 1) = 0 /\ sum(y, 12) + daysInMonth(y, 12) = length(y)
  BY Table DEF sum, daysInMonth, length
<1>2. ASSUME NEW m \in 1..11 PROVE sum(y, m + 1) = sum(y, m) + daysInMonth(y, m)
  <2> m \in {1, 2, 3, 4, 5, 6, 7, 8, 9, 10, 11}
    OBVIOUS
  <2> QED BY Table DEF sum, daysInMonth
<1> QED BY <1>1, <1>2

LEMMA MonthsApart ==
  ASSUME NEW y \in Int, NEW m \in 1..12, NEW k \in 1..12, m < k
  PROVE  sum(y, m) + daysInMonth(y, m) <= sum(y, k)
<1> DEFINE s(i) == sum(y, i)
<1>1. ASSUME NEW i \in 1..11 PROVE s(i) <= s(i + 1) /\ s(i) + daysInMonth(y, i) <= s(i + 1)
  <2>1. sum(y, i) \in Int /\ daysInMonth(y, i) \in Int /\ 28 <= daysInMonth(y, i)
    <3>1. i \in 1..12
      OBVIOUS
    <3> QED BY <3>1, Lengths
  <2>2. sum(y, i + 1) = sum(y, i) + daysInMonth(y, i)
    BY Months
  <2> QED BY <2>1, <2>2
<1>2. \A i \in 1..12 : s(i) \in Int
  BY Lengths
<1> HIDE DEF s
<1>3. /\ s(1) <= s(2) /\ s(2) <= s(3) /\ s(3) <= s(4) /\ s(4) <= s(5) /\ s(5) <= s(6)
      /\ s(6) <= s(7) /\ s(7) <= s(8) /\ s(8) <= s(9) /\ s(9) <= s(10) /\ s(10) <= s(11)
      /\ s(11) <= s(12)
  BY <1>1
<1>4. k \in {2, 3, 4, 5, 6, 7, 8, 9, 10, 11, 12} /\ m + 1 \in 2..k
  OBVIOUS
<1>5. s(m + 1) <= s(k)
  BY <1>2, <1>3, <1>4
<1>6. s(m) + daysInMonth(y, m) <= s(m + 1) /\ s(m) \in Int /\ s(m + 1) \in Int /\ s(k) \in Int
  BY <1>1, <1>2, <1>4
<1>7. daysInMonth(y, m) \in Int
  BY Lengths
<1> QED BY <1>5, <1>6, <1>7 DEF s

LEMMA InYear ==
  ASSUME NEW y \in Int, NEW m \in 1..12
  PROVE  0 <= sum(y, m) /\ sum(y, m) + daysInMonth(y, m) <= length(y)
<1>1. /\ sum(y, 1) = 0 /\ sum(y, 12) + daysInMonth(y, 12) = length(y)
  BY Months
<1>2. sum(y, m) \in Int /\ daysInMonth(y, m) \in Int /\ 28 <= daysInMonth(y, m)
  BY Lengths
<1>5. sum(y, 12) \in Int /\ daysInMonth(y, 12) \in Int /\ 28 <= daysInMonth(y, 12)
  BY 12 \in 1..12, Lengths
<1>6. daysInMonth(y, 1) \in Int /\ 28 <= daysInMonth(y, 1)
  BY 1 \in 1..12, Lengths
<1>3. 1 < m => sum(y, 1) + daysInMonth(y, 1) <= sum(y, m)
  BY MonthsApart
<1>4. m < 12 => sum(y, m) + daysInMonth(y, m) <= sum(y, 12)
  BY MonthsApart
<1> QED BY <1>1, <1>2, <1>3, <1>4, <1>5, <1>6

LEMMA FirstSum ==
  ASSUME NEW y \in Int, NEW m \in 1..12
  PROVE  first(y, m) = yearStart(y) + sum(y, m) /\ first(y, m) \in Int
<1>1. first(y, m) = yearStart(y) + sum(y, m)
  BY Table DEF first, yearStart, sum
<1>2. yearStart(y) \in Int /\ sum(y, m) \in Int
  BY YearInt, Lengths
<1> QED BY <1>1, <1>2

\* Each day lies in one month of one year.
LEMMA MonthOf ==
  ASSUME NEW n \in Int
  PROVE  LET y == yearOf(n)
             m == monthOf(n)
         IN  y \in Int /\ m \in 1..12 /\ first(y, m) <= n /\ n < first(y, m) + daysInMonth(y, m)
<1> DEFINE y == yearOf(n)
           In(k) == first(y, k) <= n /\ n < first(y, k) + daysInMonth(y, k)
<1>1. y \in Int /\ yearStart(y) <= n /\ n < yearStart(y) + length(y) /\ yearStart(y) \in Int
  BY YearOf, YearInt
<1>2. \E k \in 1..12 : In(k)
  <2> DEFINE s(i) == yearStart(y) + sum(y, i)
  <2>1. \A i \in 1..12 : sum(y, i) \in Int /\ daysInMonth(y, i) \in Int
    BY <1>1, Lengths
  <2>2. \A i \in 1..12 : s(i) \in Int /\ daysInMonth(y, i) \in Int
    <3> SUFFICES ASSUME NEW i \in 1..12 PROVE s(i) \in Int /\ daysInMonth(y, i) \in Int
      OBVIOUS
    <3>1. sum(y, i) \in Int /\ daysInMonth(y, i) \in Int
      BY <2>1
    <3> QED BY <1>1, <3>1
  <2>5. sum(y, 1) = 0 /\ sum(y, 12) + daysInMonth(y, 12) = length(y) /\ length(y) \in Int
        /\ \A i \in 1..11 : sum(y, i + 1) = sum(y, i) + daysInMonth(y, i)
    BY <1>1, Months, YearInt
  <2>6. sum(y, 12) \in Int /\ daysInMonth(y, 12) \in Int
    BY <2>1
  <2>7. s(1) <= n /\ n < s(12) + daysInMonth(y, 12)
    BY <1>1, <2>5, <2>6
  <2>8. ASSUME NEW i \in 1..11 PROVE s(i + 1) = s(i) + daysInMonth(y, i)
    <3>1. sum(y, i + 1) = sum(y, i) + daysInMonth(y, i)
      BY <2>5
    <3>2. i \in 1..12 /\ sum(y, i) \in Int /\ daysInMonth(y, i) \in Int
      BY <2>1
    <3> QED BY <1>1, <3>1, <3>2
  <2> SUFFICES ASSUME \A k \in 1..12 : ~(s(k) <= n /\ n < s(k) + daysInMonth(y, k)) PROVE FALSE
    BY <1>1, FirstSum
  <2> HIDE DEF s
  <2>3. \A i \in 1..11 : s(i) <= n => s(i + 1) <= n
    BY <2>2, <2>8
  <2>4. /\ s(2) <= n /\ s(3) <= n /\ s(4) <= n /\ s(5) <= n /\ s(6) <= n /\ s(7) <= n
        /\ s(8) <= n /\ s(9) <= n /\ s(10) <= n /\ s(11) <= n /\ s(12) <= n
    BY <2>3, <2>7
  <2> QED BY <2>2, <2>4, <2>7
<1>3. monthOf(n) = CHOOSE k \in 1..12 : In(k)
  BY DEF monthOf
<1> HIDE DEF In
<1>4. monthOf(n) \in 1..12 /\ In(monthOf(n))
  BY <1>2, <1>3
<1> QED BY <1>1, <1>4 DEF In

\* Days and their numbers are in step.
LEMMA DateOf == ASSUME NEW n \in Int PROVE dateOf(n) \in Dates /\ number(dateOf(n)) = n
<1> DEFINE y == yearOf(n)
           m == monthOf(n)
<1>1. y \in Int /\ m \in 1..12 /\ first(y, m) <= n /\ n < first(y, m) + daysInMonth(y, m)
  BY MonthOf
<1>2. first(y, m) \in Int /\ daysInMonth(y, m) \in Int /\ 28 <= daysInMonth(y, m)
  BY <1>1, FirstSum, Lengths
<1>3. dateOf(n) = <<y, m, n - first(y, m) + 1>>
  BY DEF dateOf
<1> HIDE DEF y, m
<1> QED BY <1>1, <1>2, <1>3 DEF Dates, number

LEMMA NumberOf ==
  ASSUME NEW d \in Dates
  PROVE  number(d) \in Int /\ dateOf(number(d)) = d
<1> DEFINE n == number(d)
           e == dateOf(n)
<1>1. /\ d = <<d[1], d[2], d[3]>> /\ d[1] \in Int /\ d[2] \in 1..12 /\ d[3] \in 1..daysInMonth(d[1], d[2])
      /\ n = first(d[1], d[2]) + d[3] - 1
  BY DEF Dates, number
<1>2. n \in Int
  BY <1>1, FirstSum, Lengths
<1>3. e \in Dates /\ number(e) = n
  BY <1>2, DateOf
<1>4. /\ e = <<e[1], e[2], e[3]>> /\ e[1] \in Int /\ e[2] \in 1..12 /\ e[3] \in 1..daysInMonth(e[1], e[2])
      /\ n = first(e[1], e[2]) + e[3] - 1
  BY <1>3 DEF Dates, number
<1> HIDE DEF n, e
<1> DEFINE Within(x) == yearStart(x[1]) + sum(x[1], x[2]) <= n
                        /\ n < yearStart(x[1]) + sum(x[1], x[2]) + daysInMonth(x[1], x[2])
<1>5. Within(d) /\ Within(e)
  BY <1>1, <1>4, FirstSum, Lengths, YearInt
<1>6. ASSUME NEW x \in {d, e} PROVE yearStart(x[1]) <= n /\ n < yearStart(x[1]) + length(x[1])
  <2>1. x[1] \in Int /\ x[2] \in 1..12 /\ Within(x) /\ yearStart(x[1]) \in Int
    BY <1>1, <1>4, <1>5, YearInt
  <2>2. 0 <= sum(x[1], x[2]) /\ sum(x[1], x[2]) + daysInMonth(x[1], x[2]) <= length(x[1])
    BY <2>1, InYear
  <2>3. /\ sum(x[1], x[2]) \in Int /\ daysInMonth(x[1], x[2]) \in Int /\ length(x[1]) \in Int
    BY <2>1, Lengths, YearInt
  <2> QED BY <1>2, <2>1, <2>2, <2>3
<1>7. d[1] = e[1]
  <2>1. yearStart(d[1]) \in Int /\ yearStart(e[1]) \in Int /\ length(d[1]) \in Int /\ length(e[1]) \in Int
    BY <1>1, <1>4, YearInt
  <2>2. d[1] < e[1] => yearStart(d[1]) + length(d[1]) <= yearStart(e[1])
    BY <1>1, <1>4, YearsApart
  <2>3. e[1] < d[1] => yearStart(e[1]) + length(e[1]) <= yearStart(d[1])
    BY <1>1, <1>4, YearsApart
  <2> QED BY <1>1, <1>2, <1>4, <1>6, <2>1, <2>2, <2>3
<1>8. d[2] = e[2]
  <2> DEFINE y == d[1]
  <2>1. y \in Int /\ y = e[1] /\ d[2] \in 1..12 /\ e[2] \in 1..12
    BY <1>1, <1>4, <1>7
  <2>2. /\ yearStart(y) \in Int /\ sum(y, d[2]) \in Int /\ daysInMonth(y, d[2]) \in Int
        /\ sum(y, e[2]) \in Int /\ daysInMonth(y, e[2]) \in Int
    BY <2>1, YearInt, Lengths
  <2>3. d[2] < e[2] => sum(y, d[2]) + daysInMonth(y, d[2]) <= sum(y, e[2])
    BY <2>1, MonthsApart
  <2>4. e[2] < d[2] => sum(y, e[2]) + daysInMonth(y, e[2]) <= sum(y, d[2])
    BY <2>1, MonthsApart
  <2>5. /\ yearStart(y) + sum(y, d[2]) <= n /\ n < yearStart(y) + sum(y, d[2]) + daysInMonth(y, d[2])
        /\ yearStart(y) + sum(y, e[2]) <= n /\ n < yearStart(y) + sum(y, e[2]) + daysInMonth(y, e[2])
    BY <1>5, <2>1
  <2> QED BY <1>2, <2>1, <2>2, <2>3, <2>4, <2>5
<1>9. d[3] = e[3]
  BY <1>1, <1>4, <1>7, <1>8, FirstSum
<1> QED BY <1>1, <1>2, <1>4, <1>7, <1>8, <1>9 DEF n, e

LEMMA NextMonth ==
  ASSUME NEW d \in Dates
  PROVE  nextMonth(d) \in Dates /\ number(nextMonth(d)) = first(d[1], d[2]) + daysInMonth(d[1], d[2])
<1> DEFINE y == d[1]
           m == d[2]
           z == IF m = 12 THEN y + 1 ELSE y
           k == IF m = 12 THEN 1 ELSE m + 1
<1>1. y \in Int /\ m \in 1..12 /\ z \in Int /\ k \in 1..12
  BY DEF Dates
<1>2. nextMonth(d) = <<z, k, 1>>
  BY DEF nextMonth
<1>3. /\ first(y, m) = yearStart(y) + sum(y, m) /\ first(z, k) = yearStart(z) + sum(z, k)
      /\ first(z, k) \in Int /\ daysInMonth(z, k) \in Int /\ 28 <= daysInMonth(z, k) /\ daysInMonth(y, m) \in Int /\ 28 <= daysInMonth(y, m)
      /\ yearStart(y) \in Int /\ sum(y, m) \in Int
  BY <1>1, FirstSum, Lengths, YearInt
<1>4. first(z, k) = first(y, m) + daysInMonth(y, m)
  <2>1. CASE m = 12
    <3>1. yearStart(y + 1) = yearStart(y) + length(y)
      BY <1>1, YearEnds
    <3>2. sum(y, 12) + daysInMonth(y, 12) = length(y) /\ sum(y + 1, 1) = 0
      BY <1>1, Months
    <3> QED BY <1>3, <2>1, <3>1, <3>2
  <2>2. CASE m # 12
    <3>1. sum(y, m + 1) = sum(y, m) + daysInMonth(y, m)
      BY <1>1, <2>2, Months
    <3> QED BY <1>3, <2>2, <3>1
  <2> QED BY <2>1, <2>2
<1> HIDE DEF z, k
<1> QED BY <1>1, <1>2, <1>3, <1>4 DEF Dates, number

LEMMA NextDay ==
  ASSUME NEW d \in Dates
  PROVE  nextDay(d) \in Dates /\ number(nextDay(d)) = number(d) + 1
<1>1. d[1] \in Int /\ d[2] \in 1..12 /\ d[3] \in 1..daysInMonth(d[1], d[2])
  BY DEF Dates
<1>2. first(d[1], d[2]) \in Int /\ daysInMonth(d[1], d[2]) \in Int /\ 28 <= daysInMonth(d[1], d[2])
  BY <1>1, FirstSum, Lengths
<1>3. CASE d[3] + 1 > daysInMonth(d[1], d[2])
  BY <1>1, <1>2, <1>3, NextMonth DEF nextDay, number
<1>4. CASE ~(d[3] + 1 > daysInMonth(d[1], d[2]))
  BY <1>1, <1>2, <1>4 DEF nextDay, number, Dates
<1> QED BY <1>3, <1>4

\* The days up to the next month lie in this one.
LEMMA RestOfMonth ==
  ASSUME NEW d \in Dates, NEW n \in number(d)..(number(nextMonth(d)) - 1)
  PROVE  dateOf(n)[2] = d[2]
<1>1. d[1] \in Int /\ d[2] \in 1..12 /\ d[3] \in 1..daysInMonth(d[1], d[2])
  BY DEF Dates
<1>2. first(d[1], d[2]) \in Int /\ daysInMonth(d[1], d[2]) \in Int /\ 28 <= daysInMonth(d[1], d[2])
  BY <1>1, FirstSum, Lengths
<1> DEFINE e == <<d[1], d[2], n - first(d[1], d[2]) + 1>>
<1>3. e \in Dates /\ number(e) = n
  BY <1>1, <1>2, NextMonth, NumberOf DEF Dates, number
<1> QED BY <1>3, NumberOf

(***************************************************************************)
(* Local time.                                                             *)
(***************************************************************************)
\* The reading of a wall clock minute in summer time, or in winter time, exists.
InSummer(w) == zone.forward <= w - zone.summer /\ w - zone.summer < zone.back
InWinter(w) == ~(zone.forward <= w - zone.winter /\ w - zone.winter < zone.back)
Minute(w) ==
  IF InSummer(w) /\ ~InWinter(w) THEN w - zone.summer
  ELSE IF InWinter(w) /\ ~InSummer(w) THEN w - zone.winter
  ELSE IF zone.pick = "summer" THEN w - zone.summer ELSE w - zone.winter

\* A moment that its own wall clock minute is read as.
Canonical(t) == t \in Int /\ instant(wall(t)) = t

LEMMA ZoneTypes ==
  ASSUME zone \in Zones
  PROVE  /\ zone.winter \in Int /\ zone.summer \in Int /\ zone.forward \in Int /\ zone.back \in Int
         /\ zone.pick \in {"winter", "summer"}
         /\ zone.winter <= zone.summer /\ zone.summer - zone.winter < 1440
         /\ zone.forward + (zone.summer - zone.winter) <= zone.back
BY ZonesAssumption

LEMMA Pair == ASSUME NEW a, NEW b, a # b PROVE Cardinality({a, b}) # 1
<1>1. IsFiniteSet({a}) /\ Cardinality({a}) = 1
  BY FS_Singleton
<1>2. Cardinality({a} \cup {b}) = 2
  BY <1>1, FS_AddElement
<1>3. {a, b} = {a} \cup {b}
  OBVIOUS
<1> QED BY <1>2, <1>3

LEMMA WallInt == ASSUME zone \in Zones, NEW t \in Int PROVE wall(t) \in Int
BY ZoneTypes DEF wall, offset

\* time.Date reads the minute that exists, and one of two where both or neither does.
LEMMA InstantIs ==
  ASSUME zone \in Zones, NEW w \in Int
  PROVE  instant(w) = Minute(w) /\ instant(w) \in Int
<1> DEFINE a == w - zone.summer
           b == w - zone.winter
           ts == {t \in {b, a} : wall(t) = w}
<1>1. a \in Int /\ b \in Int
  BY ZoneTypes
<1>2. (wall(a) = w <=> a = b \/ InSummer(w)) /\ (wall(b) = w <=> a = b \/ InWinter(w))
  BY ZoneTypes DEF wall, offset, InSummer, InWinter
<1>3. instant(w) = IF Cardinality(ts) = 1 THEN CHOOSE t \in ts : TRUE
                   ELSE w - (IF zone.pick = "summer" THEN zone.summer ELSE zone.winter)
  BY DEF instant
<1>7. a = b => zone.summer = zone.winter
  BY ZoneTypes
<1>8. Minute(w) \in {a, b}
  BY DEF Minute
<1>9. \A x : Cardinality({x}) = 1
  BY FS_Singleton
<1>10. Cardinality({}) # 1
  BY FS_EmptySet
<1> HIDE DEF a, b
<1>4. CASE a = b
  <2>1. ts = {a}
    BY <1>2, <1>4
  <2> QED BY <1>1, <1>3, <1>4, <1>8, <1>9, <2>1
<1>5. CASE a # b /\ (InSummer(w) <=> InWinter(w))
  <2>1. ts = {} \/ ts = {a, b}
    BY <1>2, <1>5
  <2>2. Cardinality(ts) # 1
    BY <1>5, <1>10, <2>1, Pair
  <2> QED BY <1>1, <1>3, <1>5, <2>2 DEF Minute, a, b
<1>6. CASE a # b /\ ~(InSummer(w) <=> InWinter(w))
  <2>1. ts = IF InSummer(w) THEN {a} ELSE {b}
    BY <1>2, <1>6
  <2>2. instant(w) = IF InSummer(w) THEN a ELSE b
    BY <1>3, <1>9, <2>1
  <2> QED BY <1>1, <1>6, <2>2 DEF Minute, a, b
<1> QED BY <1>4, <1>5, <1>6

\* Where the fields read back, so does the whole clock.
LEMMA ReadsBack ==
  ASSUME zone \in Zones, NEW w \in Int, readsBack(w)
  PROVE  wall(instant(w)) = w /\ Canonical(instant(w))
<1> DEFINE v == wall(instant(w))
<1>1. v \in Int /\ v % 1440 = w % 1440 /\ instant(w) \in Int
  BY InstantIs, WallInt DEF readsBack
<1>2. v < w + 1440 /\ w < v + 1440
  BY InstantIs, ZoneTypes DEF Minute, wall, offset
<1>3. v = w
  BY <1>1, <1>2
<1> QED BY <1>1, <1>3 DEF Canonical

\* The clock of the moments Next returns goes forward only.
LEMMA Ascending ==
  ASSUME zone \in Zones, NEW t, NEW u, Canonical(t), Canonical(u), t < u
  PROVE  wall(t) < wall(u)
<1>1. t \in Int /\ u \in Int /\ t = Minute(wall(t)) /\ u = Minute(wall(u))
  BY InstantIs, WallInt DEF Canonical
<1> QED BY <1>1, ZoneTypes DEF wall, offset, Minute, InSummer, InWinter

\* From any moment on, no earlier day of the clock comes back.
LEMMA NoDayBack ==
  ASSUME zone \in Zones, NEW t, NEW u \in Int, Canonical(t), u < t
  PROVE  wall(u) \div 1440 <= wall(t) \div 1440
<1>1. t \in Int /\ t = Minute(wall(t)) /\ wall(t) \in Int /\ wall(u) \in Int
  BY InstantIs, WallInt DEF Canonical
<1>2. CASE wall(u) <= wall(t)
  BY <1>1, <1>2
<1>3. CASE wall(t) < wall(u)
  <2> DEFINE lo == zone.back + zone.winter
             hi == zone.back + zone.summer - 1
  <2>1. zone.pick = "winter" /\ wall(t) \in lo..hi /\ wall(u) \in lo..hi
    BY <1>1, <1>3, ZoneTypes DEF wall, offset, Minute, InSummer, InWinter
  <2>2. \A w \in lo..hi : w \div 1440 = lo \div 1440
    BY <2>1, ZonesAssumption
  <2>3. wall(t) \div 1440 = lo \div 1440 /\ wall(u) \div 1440 = lo \div 1440
    BY <2>1, <2>2
  <2> QED BY <1>1, <2>3
<1> QED BY <1>1, <1>2, <1>3

\* Up to a moment that time.Date made, the clock shows nothing later.
LEMMA NothingLater ==
  ASSUME zone \in Zones, NEW t, NEW w \in Int, Canonical(t), t <= instant(w)
  PROVE  wall(t) <= wall(instant(w))
<1>1. t \in Int /\ t = Minute(wall(t)) /\ instant(w) = Minute(w)
  BY InstantIs, WallInt DEF Canonical
<1> QED BY <1>1, ZoneTypes DEF wall, offset, Minute, InSummer, InWinter

(***************************************************************************)
(* Parse: the masks say what the text says.                                *)
(***************************************************************************)
Parsed == fields \in Cadences /\ bad = {} /\ masks = [f \in 1..5 |-> parseField(f, fields[f])]

low(f, i) == IF i.form = "star" THEN lowest[f] ELSE i.lo
high(f, i) == IF i.form = "star" THEN highest[f] ELSE i.hi
every(i) == IF i.step = None THEN 1 ELSE i.step
selects(f, i, v) == (i.form # "star" => i.lo <= v /\ v <= i.hi) /\ (v - low(f, i)) % every(i) = 0

LEMMA DivMod ==
  ASSUME NEW s \in Nat \ {0}, NEW x \in Int
  PROVE  x \div s \in Int /\ x = s * (x \div s) + (x % s)
<1>1. x \div s \in Int
  OBVIOUS
<1>2. x = s * (x \div s) + (x % s)
  OBVIOUS
<1> QED BY <1>1, <1>2

LEMMA Multiples == ASSUME NEW s \in Nat \ {0}, NEW k \in Int PROVE (k * s) % s = 0 /\ k * s \in Int
<1>1. (k * s) % s = 0
  OBVIOUS
<1>2. k * s \in Int
  OBVIOUS
<1> QED BY <1>1, <1>2

LEMMA Times == ASSUME NEW s \in Nat \ {0}, NEW x \in Int, NEW y \in Int, x <= y PROVE x * s <= y * s
OBVIOUS

LEMMA Progression ==
  ASSUME NEW s \in Nat \ {0}, NEW lo \in Int, NEW hi \in Int, NEW v \in Int
  PROVE  v \in {lo + k * s : k \in 0..((hi - lo) \div s)} <=> lo <= v /\ v <= hi /\ (v - lo) % s = 0
<1> DEFINE q == (hi - lo) \div s
<1>1. q \in Int /\ q * s <= hi - lo
  <2>1. q \in Int /\ hi - lo = s * q + ((hi - lo) % s)
    BY DivMod
  <2>2. 0 <= (hi - lo) % s /\ (hi - lo) % s \in Int /\ s * q = q * s /\ s * q \in Int
    BY <2>1
  <2> QED BY <2>1, <2>2
<1>2. ASSUME NEW k \in 0..q, v = lo + k * s PROVE lo <= v /\ v <= hi /\ (v - lo) % s = 0
  <2>1. k * s <= q * s /\ 0 * s <= k * s
    BY <1>1, Times
  <2>2. (k * s) % s = 0 /\ k * s \in Int /\ 0 * s = 0 /\ q * s \in Int
    BY <1>1, Multiples
  <2>3. v - lo = k * s
    BY <1>2, <2>2
  <2> QED BY <1>1, <1>2, <2>1, <2>2, <2>3
<1>3. ASSUME lo <= v, v <= hi, (v - lo) % s = 0 PROVE \E k \in 0..q : v = lo + k * s
  <2> DEFINE k == (v - lo) \div s
  <2>1. k \in Int /\ v - lo = s * k
    <3>1. k \in Int /\ v - lo = s * k + ((v - lo) % s)
      BY DivMod
    <3>2. s * k \in Int
      BY <3>1
    <3> QED BY <1>3, <3>1, <3>2
  <2>2. v = lo + k * s
    <3>1. s * k = k * s /\ k * s \in Int
      BY <2>1
    <3> QED BY <2>1, <3>1
  <2>3. 0 <= k
    BY <1>3
  <2>4. k <= q
    <3>1. v - lo <= hi - lo
      BY <1>3
    <3> QED BY <3>1
  <2> QED BY <1>1, <2>1, <2>2, <2>3, <2>4
<1> HIDE DEF q
<1>4. (\E k \in 0..q : v = lo + k * s) <=> lo <= v /\ v <= hi /\ (v - lo) % s = 0
  BY <1>2, <1>3
<1> QED BY <1>4 DEF q

LEMMA Ranges ==
  ASSUME NEW f \in 1..5
  PROVE  lowest[f] \in Int /\ highest[f] \in Int /\ lowest[f] <= highest[f]
<1> f \in {1, 2, 3, 4, 5}
  OBVIOUS
<1> QED BY DEF lowest, highest

LEMMA ItemMask ==
  ASSUME NEW f \in 1..5, NEW i \in Items, ~malformed(f, i)
  PROVE  /\ parseItem(f, i) \subseteq lowest[f]..highest[f]
         /\ \A v \in lowest[f]..highest[f] : v \in parseItem(f, i) <=> selects(f, i, v)
<1>1. lowest[f] \in Int /\ highest[f] \in Int
  BY Ranges
<1>2. low(f, i) \in Int /\ high(f, i) \in Int /\ every(i) \in Nat \ {0}
  BY <1>1 DEF low, high, every, Items, malformed
<1>3. lowest[f] <= low(f, i) /\ high(f, i) <= highest[f]
  BY <1>1 DEF low, high, Items, malformed, inRange
<1>4. parseItem(f, i) = {low(f, i) + k * every(i) : k \in 0..((high(f, i) - low(f, i)) \div every(i))}
  BY DEF parseItem, low, high, every
<1>5. ASSUME NEW v \in Int
      PROVE  v \in parseItem(f, i) <=> low(f, i) <= v /\ v <= high(f, i) /\ (v - low(f, i)) % every(i) = 0
  BY <1>2, <1>4, Progression
<1>6. ASSUME NEW v \in parseItem(f, i) PROVE v \in Int
  <2>1. PICK k \in 0..((high(f, i) - low(f, i)) \div every(i)) : v = low(f, i) + k * every(i)
    BY <1>4
  <2>2. k \in Int
    OBVIOUS
  <2>3. k * every(i) \in Int
    BY <1>2, <2>2, Multiples
  <2> QED BY <1>2, <2>1, <2>3
<1>7. ASSUME NEW v \in parseItem(f, i) PROVE v \in lowest[f]..highest[f]
  BY <1>1, <1>2, <1>3, <1>5, <1>6
<1>8. ASSUME NEW v \in lowest[f]..highest[f] PROVE v \in parseItem(f, i) <=> selects(f, i, v)
  <2>1. v \in Int /\ (i.form = "star" => low(f, i) <= v /\ v <= high(f, i))
    BY <1>1 DEF low, high
  <2>2. i.form # "star" => low(f, i) = i.lo /\ high(f, i) = i.hi
    BY DEF low, high
  <2> QED BY <1>5, <2>1, <2>2 DEF selects
<1> QED BY <1>7, <1>8

LEMMA FieldMask ==
  ASSUME Parsed, NEW f \in 1..5
  PROVE  LET bits == UNION {parseItem(f, fields[f][k]) : k \in DOMAIN fields[f]} IN
         /\ bits \subseteq lowest[f]..highest[f]
         /\ \A v \in lowest[f]..highest[f] : v \in bits <=> says(f, v)
<1>1. ASSUME NEW k \in DOMAIN fields[f] PROVE fields[f][k] \in Items /\ ~malformed(f, fields[f][k])
  <2>1. fields[f] \in Seq(Items)
    BY CadencesAssumption DEF Parsed
  <2>2. fields[f][k] \in Items
    BY <2>1
  <2>3. <<f, k>> \in UNION {{<<g, j>> : j \in DOMAIN fields[g]} : g \in 1..5}
    OBVIOUS
  <2>4. <<f, k>>[1] = f /\ <<f, k>>[2] = k
    OBVIOUS
  <2> QED BY <2>2, <2>3, <2>4 DEF Parsed, bad
<1>2. ASSUME NEW v PROVE says(f, v) <=> \E k \in DOMAIN fields[f] : selects(f, fields[f][k], v)
  BY DEF says, selects, low, every
<1>3. ASSUME NEW k \in DOMAIN fields[f]
      PROVE  /\ parseItem(f, fields[f][k]) \subseteq lowest[f]..highest[f]
             /\ \A v \in lowest[f]..highest[f] : v \in parseItem(f, fields[f][k]) <=> selects(f, fields[f][k], v)
  BY <1>1, ItemMask
<1> QED BY <1>2, <1>3

LEMMA Masks ==
  ASSUME Parsed
  PROVE  /\ \A f \in 1..4 : /\ masks[f] \subseteq lowest[f]..highest[f]
                            /\ \A v \in lowest[f]..highest[f] : v \in masks[f] <=> says(f, v)
         /\ \A v \in 0..6 : v \in masks[5] <=> saysWeekday(v)
<1> DEFINE bits(f) == UNION {parseItem(f, fields[f][k]) : k \in DOMAIN fields[f]}
<1>1. ASSUME NEW f \in 1..5
      PROVE  bits(f) \subseteq lowest[f]..highest[f] /\ \A v \in lowest[f]..highest[f] : v \in bits(f) <=> says(f, v)
  BY FieldMask
<1>2. ASSUME NEW f \in 1..5 PROVE masks[f] = IF f = 5 THEN fold(bits(f)) ELSE bits(f)
  BY DEF Parsed, parseField
<1> HIDE DEF bits
<1>3. ASSUME NEW f \in 1..4
      PROVE  masks[f] \subseteq lowest[f]..highest[f] /\ \A v \in lowest[f]..highest[f] : v \in masks[f] <=> says(f, v)
  <2>1. f \in 1..5 /\ f # 5
    OBVIOUS
  <2> QED BY <1>1, <1>2, <2>1
<1>4. ASSUME NEW v \in 0..6 PROVE v \in masks[5] <=> saysWeekday(v)
  <2>1. masks[5] = fold(bits(5))
    BY <1>2
  <2>2. lowest[5] = 0 /\ highest[5] = 7
    BY DEF lowest, highest
  <2>3. (v \in bits(5) <=> says(5, v)) /\ (7 \in bits(5) <=> says(5, 7)) /\ v # 7
    BY <1>1, <2>2
  <2>4. v \in fold(bits(5)) <=> v \in bits(5) \/ (v = 0 /\ 7 \in bits(5))
    BY <2>3 DEF fold
  <2> QED BY <2>1, <2>3, <2>4 DEF saysWeekday
<1> QED BY <1>3, <1>4

(***************************************************************************)
(* What is due on a day, and what the scan makes of it.                    *)
(***************************************************************************)
Known == Parsed /\ zone \in Zones /\ after \in Int

\* A set of numbers with a lower bound has a least one.
LEMMA Least ==
  ASSUME NEW S, S \subseteq Int, S # {}, NEW lo \in Int, \A x \in S : lo <= x
  PROVE  Min(S) \in S /\ \A x \in S : Min(S) <= x
<1> DEFINE R == OpToRel(<, Nat)
           T == {n \in Nat : lo + n \in S}
<1>1. IsWellFoundedOn(R, Nat) BY NatLessThanWellFounded
<1>2. ASSUME NEW x \in S PROVE x - lo \in T
  <2>1. x \in Int /\ lo <= x
    OBVIOUS
  <2> QED BY <2>1
<1>3. T \subseteq Nat /\ T # {}
  BY <1>2
<1>4. \A x, y \in Nat : y < x => <<y, x>> \in R BY DEF OpToRel
<1> HIDE DEF R
<1>5. PICK n \in T : \A y \in T : ~(<<y, n>> \in R)
  <2> HIDE DEF T
  <2> QED BY <1>1, <1>3, WFMin
<1>6. ASSUME NEW x \in S PROVE lo + n <= x
  <2>1. x - lo \in Nat /\ n \in Nat /\ x \in Int
    BY <1>2, <1>3
  <2>2. ~(x - lo < n)
    BY <1>2, <1>4, <1>5, <2>1
  <2> QED BY <2>1, <2>2
<1>7. \E x \in S : \A y \in S : x <= y
  BY <1>6
<1> QED BY <1>7 DEF Min

\* What a day's two fields select is what their text says.
LEMMA DaySays ==
  ASSUME Parsed, NEW d \in Dates
  PROVE  saysDay(number(d)) <=> d[2] \in masks[4] /\ dayMatches(d)
<1> DEFINE wd == weekdayOf(number(d))
<1>1. d[2] \in 1..12 /\ d[3] \in 1..31 /\ number(d) \in Int /\ dateOf(number(d)) = d
  <2>1. d[1] \in Int /\ d[2] \in 1..12 /\ d[3] \in 1..daysInMonth(d[1], d[2])
    BY DEF Dates
  <2>2. daysInMonth(d[1], d[2]) \in Int /\ daysInMonth(d[1], d[2]) <= 31
    BY <2>1, Lengths
  <2> QED BY <2>1, <2>2, NumberOf
<1>2. wd \in 0..6
  BY <1>1 DEF weekdayOf
<1>3. /\ lowest[3] = 1 /\ highest[3] = 31 /\ lowest[4] = 1 /\ highest[4] = 12 /\ lowest[5] = 0
  BY DEF lowest, highest
<1>4. /\ d[2] \in masks[4] <=> says(4, d[2])
      /\ d[3] \in masks[3] <=> says(3, d[3])
      /\ wd \in masks[5] <=> saysWeekday(wd)
  BY <1>1, <1>2, <1>3, Masks
<1>5. (fields[3] = Every => says(3, d[3])) /\ (fields[5] = Every => saysWeekday(wd))
  <2>1. ASSUME NEW f \in {3, 5}, NEW v \in Int, fields[f] = Every PROVE says(f, v)
    <3>1. 1 \in DOMAIN fields[f] /\ fields[f][1] = Star(None)
      BY <2>1 DEF Every
    <3>2. Star(None).form = "star" /\ Star(None).step = None
      BY DEF Star
    <3>3. (v - lowest[f]) % 1 = 0
      BY <1>3
    <3> QED BY <3>1, <3>2, <3>3 DEF says
  <2>2. d[3] \in Int /\ wd \in Int
    BY <1>1, <1>2
  <2> HIDE DEF wd
  <2> QED BY <2>1, <2>2 DEF saysWeekday
<1>6. saysDay(number(d)) <=>
        /\ says(4, d[2])
        /\ IF Every \in {fields[3], fields[5]} THEN says(3, d[3]) /\ saysWeekday(wd) ELSE says(3, d[3]) \/ saysWeekday(wd)
  BY <1>1 DEF saysDay
<1>7. dayMatches(d) <=>
        IF fields[3] # Every /\ fields[5] # Every THEN d[3] \in masks[3] \/ wd \in masks[5]
        ELSE (fields[3] # Every => d[3] \in masks[3]) /\ (fields[5] # Every => wd \in masks[5])
  BY DEF dayMatches, restricted
<1> HIDE DEF wd
<1> QED BY <1>4, <1>5, <1>6, <1>7

\* The wall clock minutes that the minute and the hour field select lie in the day.
LEMMA MinutesOf ==
  ASSUME Parsed, NEW d \in Dates
  PROVE  /\ \A w \in minutesOf(d) : w \in Int /\ w \div 1440 = number(d) /\ 1440 * number(d) <= w
         /\ minutesOf(d) = {1440 * number(d) + 60 * h + mi : h \in {h \in 0..23 : says(2, h)}, mi \in {mi \in 0..59 : says(1, mi)}}
<1>1. lowest[1] = 0 /\ highest[1] = 59 /\ lowest[2] = 0 /\ highest[2] = 23
  BY DEF lowest, highest
<1>2. masks[1] = {mi \in 0..59 : says(1, mi)}
  <2>1. masks[1] \subseteq 0..59 /\ \A v \in 0..59 : v \in masks[1] <=> says(1, v)
    BY <1>1, Masks, 1 \in 1..4
  <2> QED BY <2>1
<1>3. masks[2] = {h \in 0..23 : says(2, h)}
  <2>1. masks[2] \subseteq 0..23 /\ \A v \in 0..23 : v \in masks[2] <=> says(2, v)
    BY <1>1, Masks, 2 \in 1..4
  <2> QED BY <2>1
<1>4. number(d) \in Int
  BY NumberOf
<1>5. ASSUME NEW w \in minutesOf(d) PROVE w \in Int /\ w \div 1440 = number(d) /\ 1440 * number(d) <= w
  <2>1. PICK h \in 0..23, mi \in 0..59 : w = 1440 * number(d) + 60 * h + mi
    BY <1>2, <1>3 DEF minutesOf
  <2> QED BY <1>4, <2>1
<1> QED BY <1>2, <1>3, <1>5 DEF minutesOf

\* What is due on a day.
LEMMA Due ==
  ASSUME Known, NEW n \in Int, NEW t
  PROVE  t \in due(n) <=> /\ dateOf(n)[2] \in masks[4] /\ dayMatches(dateOf(n))
                          /\ Canonical(t) /\ wall(t) \in minutesOf(dateOf(n))
                          /\ after < t /\ t <= limit
<1> DEFINE d == dateOf(n)
           ws == {1440 * n + 60 * h + mi : h \in {h \in 0..23 : says(2, h)}, mi \in {mi \in 0..59 : says(1, mi)}}
<1>1. d \in Dates /\ number(d) = n
  BY DateOf
<1>2. ws = minutesOf(d) /\ \A w \in ws : w \in Int
  BY <1>1, MinutesOf DEF Known
<1>3. saysDay(n) <=> d[2] \in masks[4] /\ dayMatches(d)
  BY <1>1, DaySays DEF Known
<1>4. t \in firings(n) <=> saysDay(n) /\ t \in {w - zone.winter : w \in ws} \cup {w - zone.summer : w \in ws} /\ wall(t) \in ws /\ instant(wall(t)) = t
  BY DEF firings
<1> HIDE DEF d, ws
<1>5. t \in {w - zone.winter : w \in ws} \cup {w - zone.summer : w \in ws} => t \in Int
  BY <1>2, ZoneTypes DEF Known
<1>6. ASSUME t \in Int, wall(t) \in ws
      PROVE  t \in {w - zone.winter : w \in ws} \cup {w - zone.summer : w \in ws}
  <2>1. t = wall(t) - zone.winter \/ t = wall(t) - zone.summer
    BY <1>6, ZoneTypes DEF Known, wall, offset
  <2> QED BY <1>6, <2>1
<1> QED BY <1>2, <1>3, <1>4, <1>5, <1>6 DEF due, Canonical, d

\* The limit is a moment time.Date made.
LEMMA LimitMade ==
  ASSUME Known
  PROVE  \E w \in Int : limit = instant(w)
<1> DEFINE w == wall(after)
           d == dateOf(w \div 1440)
           e == <<d[1] + searchYears, d[2], 1>>
           n == number(e) + d[3] - 1
<1>1. w \in Int
  BY WallInt DEF Known
<1>2. d \in Dates
  BY <1>1, DateOf
<1>3. d[1] \in Int /\ d[2] \in 1..12 /\ d[3] \in 1..daysInMonth(d[1], d[2])
  BY <1>2 DEF Dates
<1> HIDE DEF d
<1>4. d[3] \in Int /\ e \in Dates
  <2>1. daysInMonth(d[1], d[2]) \in Int
    BY <1>3, Lengths
  <2>2. d[1] + searchYears \in Int
    BY <1>3 DEF searchYears
  <2>3. daysInMonth(d[1] + searchYears, d[2]) \in Int /\ 28 <= daysInMonth(d[1] + searchYears, d[2])
    BY <1>3, <2>2, Lengths
  <2> QED BY <1>3, <2>1, <2>2, <2>3 DEF Dates
<1>5. n \in Int
  BY <1>4, NumberOf
<1>6. limit = instant((n * 1440) + (w % 1440))
  BY DEF limit, d
<1> HIDE DEF n, w
<1> QED BY <1>1, <1>5, <1>6

LEMMA LimitInt == ASSUME Known PROVE limit \in Int
BY LimitMade, InstantIs DEF Known

\* Nothing is due before the day of the moment given, or after the day of the limit.
LEMMA EarlyDays ==
  ASSUME Known, NEW n \in Int, n < wall(after) \div 1440
  PROVE  due(n) = {}
<1> SUFFICES ASSUME NEW t \in due(n) PROVE FALSE
  OBVIOUS
<1>1. Canonical(t) /\ wall(t) \in minutesOf(dateOf(n)) /\ after < t
  BY Due
<1>2. wall(t) \div 1440 = n
  BY <1>1, DateOf, MinutesOf DEF Known
<1>3. wall(after) \div 1440 <= wall(t) \div 1440
  BY <1>1, NoDayBack DEF Known
<1>4. wall(after) \in Int
  BY WallInt DEF Known
<1> QED BY <1>2, <1>3, <1>4

LEMMA LateDays ==
  ASSUME Known, NEW n \in Int, n > wall(limit) \div 1440
  PROVE  due(n) = {}
<1> SUFFICES ASSUME NEW t \in due(n) PROVE FALSE
  OBVIOUS
<1>1. Canonical(t) /\ wall(t) \in minutesOf(dateOf(n)) /\ t <= limit
  BY Due
<1>2. wall(t) \div 1440 = n /\ wall(t) \in Int
  BY <1>1, DateOf, MinutesOf DEF Known
<1>3. wall(t) <= wall(limit)
  BY <1>1, LimitMade, NothingLater DEF Known
<1>4. wall(limit) \in Int
  BY LimitInt, WallInt DEF Known
<1> QED BY <1>2, <1>3, <1>4

LEMMA MonthOff ==
  ASSUME Known, NEW d \in Dates, d[2] \notin masks[4], NEW n \in number(d)..(number(nextMonth(d)) - 1)
  PROVE  due(n) = {}
<1>1. n \in Int
  BY NumberOf, NextMonth
<1>2. dateOf(n)[2] = d[2]
  BY RestOfMonth
<1> QED BY <1>1, <1>2, Due

LEMMA NoHit ==
  ASSUME Known, day \in Dates, ~hit
  PROVE  due(number(day)) = {}
<1> SUFFICES ASSUME NEW t \in due(number(day)) PROVE FALSE
  OBVIOUS
<1>1. number(day) \in Int /\ dateOf(number(day)) = day
  BY NumberOf
<1>2. day[2] \in masks[4] /\ dayMatches(day) /\ Canonical(t) /\ wall(t) \in minutesOf(day) /\ after < t
  BY <1>1, Due
<1>3. instant(wall(t)) = t
  BY <1>2 DEF Canonical
<1>4. readsBack(wall(t))
  BY <1>3 DEF readsBack
<1> QED BY <1>2, <1>3, <1>4 DEF hit, candidates

\* The least candidate of a day is the first moment due on it.
LEMMA Hit ==
  ASSUME Known, day \in Dates, hit
  PROVE  LET t == instant(Min(candidates(day))) IN
         /\ Canonical(t) /\ after < t
         /\ \A u \in due(number(day)) : t <= u
         /\ t <= limit => t \in due(number(day))
<1> DEFINE m == Min(candidates(day))
           t == instant(m)
<1>1. number(day) \in Int /\ dateOf(number(day)) = day
  BY NumberOf
<1>2. \A w \in minutesOf(day) : w \in Int /\ 1440 * number(day) <= w
  BY MinutesOf DEF Known
<1>3. m \in candidates(day) /\ \A w \in candidates(day) : m <= w
  <2>1. candidates(day) \subseteq minutesOf(day)
    BY DEF candidates
  <2>2. candidates(day) \subseteq Int /\ candidates(day) # {} /\ \A w \in candidates(day) : 1440 * number(day) <= w
    BY <1>2, <2>1 DEF hit
  <2>3. 1440 * number(day) \in Int
    BY <1>1
  <2> QED BY <2>2, <2>3, Least
<1>4. m \in minutesOf(day) /\ m \in Int /\ t > after /\ readsBack(m)
  BY <1>2, <1>3 DEF candidates
<1>5. wall(t) = m /\ Canonical(t)
  BY <1>4, ReadsBack DEF Known
<1>6. t \in Int /\ after \in Int
  BY <1>5 DEF Canonical, Known
<1>7. ASSUME NEW u \in due(number(day)) PROVE t <= u
  <2>1. Canonical(u) /\ wall(u) \in minutesOf(day) /\ after < u
    BY <1>1, Due
  <2>2. instant(wall(u)) = u /\ u \in Int
    BY <2>1 DEF Canonical
  <2>3. wall(u) \in candidates(day)
    BY <2>1, <2>2, <1>6 DEF candidates, readsBack
  <2>4. m <= wall(u) /\ wall(u) \in Int
    BY <1>2, <1>3, <2>1, <2>3
  <2> HIDE DEF m
  <2>5. ~(u < t)
    BY <1>4, <1>5, <2>1, <2>4, Ascending DEF Known
  <2> QED BY <1>6, <2>2, <2>5
<1>8. t <= limit => t \in due(number(day))
  BY <1>1, <1>4, <1>5, <1>6, Due DEF hit
<1> QED BY <1>4, <1>5, <1>6, <1>7, <1>8

(***************************************************************************)
(* The scan.                                                               *)
(***************************************************************************)
Moments == {t \in Int : instant(wall(t)) = t}
Given == fields \in Cadences /\ zone \in Zones /\ after \in Int
Read == stage \notin {"parse", "rejected"} => bad = {} /\ masks = [f \in 1..5 |-> parseField(f, fields[f])]
Chain ==
  /\ fired \in Seq(Moments) /\ OncePerMinute
  /\ stage \in {"parse", "rejected", "start"} => fired = <<>>
  /\ stage = "fired" => fired # <<>>
\* No day of the scan that is behind the cursor had a moment due.
Scanned ==
  stage = "search" =>
    /\ day \in Dates /\ wall(after) \div 1440 <= number(day)
    /\ fired # <<>> => after = Last(fired)
    /\ \A n \in Int : wall(after) \div 1440 <= n /\ n < number(day) => due(n) = {}
IInv == Given /\ Read /\ Chain /\ Scanned

LEMMA SameDays ==
  ASSUME UNCHANGED <<fields, zone, after>>
  PROVE  Moments' = Moments /\ wall(after)' = wall(after) /\ \A n : due(n)' = due(n)
<1>1. wall(after)' = wall(after) /\ Moments' = Moments
  BY DEF wall, offset, Moments, instant
<1>2. limit' = limit
  BY <1>1 DEF limit, instant, wall, offset
<1>3. \A n : saysDay(n)' = saysDay(n)
  BY DEF saysDay, says, saysWeekday
<1>4. ASSUME NEW n PROVE firings(n)' = firings(n)
  <2> DEFINE ws == {1440 * n + 60 * h + mi : h \in {h \in 0..23 : says(2, h)}, mi \in {mi \in 0..59 : says(1, mi)}}
             ts == {w - zone.winter : w \in ws} \cup {w - zone.summer : w \in ws}
  <2>1. {h \in 0..23 : says(2, h)}' = {h \in 0..23 : says(2, h)} /\ {mi \in 0..59 : says(1, mi)}' = {mi \in 0..59 : says(1, mi)}
    BY DEF says
  <2>2. ws' = ws
    BY <2>1
  <2> HIDE DEF ws
  <2>3. ts' = ts
    BY <2>2
  <2> HIDE DEF ts
  <2>4. {t \in ts : wall(t) \in ws /\ instant(wall(t)) = t}' = {t \in ts : wall(t) \in ws /\ instant(wall(t)) = t}
    BY <2>2, <2>3 DEF wall, offset, instant
  <2>5. firings(n) = IF ~saysDay(n) THEN {} ELSE {t \in ts : wall(t) \in ws /\ instant(wall(t)) = t}
    BY DEF firings, ws, ts
  <2>6. firings(n)' = IF ~saysDay(n)' THEN {} ELSE {t \in ts : wall(t) \in ws /\ instant(wall(t)) = t}'
    BY DEF firings, ws, ts
  <2> QED BY <1>3, <2>4, <2>5, <2>6
<1> QED BY <1>1, <1>2, <1>4 DEF due

LEMMA MomentsAre == Moments \subseteq Int /\ \A t : t \in Moments <=> Canonical(t)
BY DEF Moments, Canonical

LEMMA InitKeeps == Init => IInv
<1> SUFFICES ASSUME Init PROVE IInv
  OBVIOUS
<1>1. Given
  BY StartsAssumption DEF Init, Given
<1>2. Chain
  BY DEF Init, Chain, OncePerMinute
<1> QED BY <1>1, <1>2 DEF Init, IInv, Read, Scanned

LEMMA KnownWhen == ASSUME IInv, stage \notin {"parse", "rejected"} PROVE Known
BY DEF IInv, Given, Read, Known, Parsed

LEMMA ParseKeeps == ASSUME IInv, ParseFails \/ Parse PROVE IInv'
<1>1. stage = "parse" /\ stage' \in {"rejected", "start"} /\ UNCHANGED <<fields, zone, after, fired>>
  BY DEF ParseFails, Parse
<1>2. Moments' = Moments
  BY <1>1, SameDays
<1>3. Given' /\ Scanned'
  BY <1>1 DEF IInv, Given, Scanned
<1>4. OncePerMinute'
  BY <1>1 DEF IInv, Chain, OncePerMinute, wall, offset
<1>5. Chain'
  BY <1>1, <1>2, <1>4 DEF IInv, Chain
<1>6. Read'
  <2>1. CASE ParseFails
    BY <2>1 DEF ParseFails, Read
  <2>2. CASE Parse
    <3>1. bad' = bad
      BY <2>2 DEF Parse, bad
    <3> QED BY <2>2, <3>1 DEF Parse, Read
  <2> QED BY <2>1, <2>2
<1> QED BY <1>3, <1>5, <1>6 DEF IInv

\* The expression and its masks stay as they are.
LEMMA ReadKeeps ==
  ASSUME IInv, unchanged, stage \notin {"parse", "rejected"}, stage' \notin {"parse", "rejected"}, after' \in Int
  PROVE  Given' /\ Read'
<1>1. bad' = bad
  BY DEF unchanged, bad
<1> QED BY <1>1 DEF IInv, Given, Read, unchanged

LEMMA AskKeeps == ASSUME IInv, Ask PROVE IInv'
<1>1. /\ stage \in {"start", "fired"} /\ stage' = "search" /\ after' = IF stage = "start" THEN after ELSE Last(fired)
      /\ day' = dateOf(wall(after') \div 1440) /\ unchanged /\ fired' = fired
  BY DEF Ask
<1>2. fired \in Seq(Moments) /\ (stage = "start" => fired = <<>>) /\ (stage = "fired" => fired # <<>>) /\ after \in Int
  BY DEF IInv, Chain, Given
<1>3. stage = "fired" => Last(fired) \in Int
  <2> SUFFICES ASSUME stage = "fired" PROVE Last(fired) \in Int
    OBVIOUS
  <2>1. fired \in Seq(Moments) /\ fired # <<>>
    BY <1>2
  <2>2. Len(fired) \in 1..Len(fired)
    BY <2>1
  <2>3. fired[Len(fired)] \in Moments
    BY <2>1, <2>2
  <2> QED BY <2>3, MomentsAre DEF Last
<1>4. after' \in Int /\ (fired' # <<>> => after' = Last(fired'))
  BY <1>1, <1>2, <1>3
<1>5. Given' /\ Read'
  BY <1>1, <1>4, ReadKeeps
<1>6. Moments' = Moments /\ OncePerMinute'
  BY <1>1 DEF unchanged, Moments, IInv, Chain, OncePerMinute, instant, wall, offset
<1>7. Chain'
  BY <1>1, <1>2, <1>6 DEF Chain
<1>8. wall(after)' = wall(after') /\ wall(after') \in Int
  <2>1. wall(after)' = wall(after')
    BY <1>1 DEF unchanged, wall, offset
  <2>2. zone \in Zones
    BY DEF IInv, Given
  <2> QED BY <1>4, <2>1, <2>2, ZoneTypes DEF wall, offset
<1>9. day' \in Dates /\ number(day') = wall(after') \div 1440
  BY <1>1, <1>8, DateOf
<1>10. Scanned'
  <2>1. number(day)' = wall(after)' \div 1440 /\ wall(after)' \in Int
    BY <1>8, <1>9
  <2> QED BY <1>1, <1>4, <1>9, <2>1 DEF Scanned
<1> QED BY <1>5, <1>7, <1>10 DEF IInv

LEMMA GiveUpKeeps == ASSUME IInv, GiveUp PROVE IInv'
<1>1. stage = "search" /\ stage' = "never" /\ unchanged /\ UNCHANGED <<after, day, fired>> /\ after \in Int
  BY DEF GiveUp, IInv, Given
<1>2. Given' /\ Read'
  BY <1>1, ReadKeeps
<1>3. Moments' = Moments /\ OncePerMinute'
  BY <1>1 DEF unchanged, Moments, IInv, Chain, OncePerMinute, instant, wall, offset
<1> QED BY <1>1, <1>2, <1>3 DEF IInv, Chain, Scanned

\* The cursor moves on past days on which nothing was due.
LEMMA MovesOn ==
  ASSUME IInv, stage = "search", unchanged, UNCHANGED <<stage, after, fired>>, day' \in Dates, number(day) <= number(day'),
         \A n \in number(day)..(number(day') - 1) : due(n) = {}
  PROVE  IInv'
<1>1. Given' /\ Read'
  BY ReadKeeps DEF IInv, Given
<1>2. /\ Moments' = Moments /\ OncePerMinute' /\ wall(after)' = wall(after) /\ \A n : due(n)' = due(n)
  <2>1. UNCHANGED <<fields, zone, after>>
    BY DEF unchanged
  <2>2. OncePerMinute'
    BY DEF unchanged, IInv, Chain, OncePerMinute, wall, offset
  <2> QED BY <2>1, <2>2, SameDays
<1>3. Chain'
  BY <1>2 DEF IInv, Chain
<1>4. day \in Dates /\ wall(after) \div 1440 <= number(day) /\ (fired # <<>> => after = Last(fired))
      /\ \A n \in Int : wall(after) \div 1440 <= n /\ n < number(day) => due(n) = {}
  BY DEF IInv, Scanned
<1>5. number(day) \in Int /\ number(day') \in Int /\ wall(after) \in Int
  BY <1>4, NumberOf, WallInt DEF IInv, Given
<1>6. ASSUME NEW n \in Int, wall(after) \div 1440 <= n, n < number(day') PROVE due(n) = {}
  BY <1>4, <1>5, <1>6
<1>7. Scanned'
  <2>1. wall(after) \div 1440 <= number(day')
    BY <1>4, <1>5
  <2>2. number(day)' = number(day')
    OBVIOUS
  <2> QED BY <1>2, <1>4, <1>6, <2>1, <2>2 DEF Scanned
<1> QED BY <1>1, <1>3, <1>7 DEF IInv

LEMMA SkipMonthKeeps == ASSUME IInv, SkipMonth PROVE IInv'
<1>1. stage = "search" /\ day \in Dates /\ day[2] \notin masks[4] /\ day' = nextMonth(day) /\ unchanged /\ UNCHANGED <<stage, after, fired>> /\ Known
  BY KnownWhen DEF SkipMonth, searching, IInv, Scanned
<1>2. day' \in Dates /\ number(day) <= number(day')
  <2>1. day[1] \in Int /\ day[2] \in 1..12 /\ day[3] \in 1..daysInMonth(day[1], day[2])
    BY <1>1 DEF Dates
  <2>2. first(day[1], day[2]) \in Int /\ daysInMonth(day[1], day[2]) \in Int
    BY <2>1, FirstSum, Lengths
  <2> QED BY <1>1, <2>1, <2>2, NextMonth DEF number
<1>3. \A n \in number(day)..(number(day') - 1) : due(n) = {}
  BY <1>1, MonthOff
<1> QED BY <1>1, <1>2, <1>3, MovesOn

LEMMA SkipDayKeeps == ASSUME IInv, SkipDay PROVE IInv'
<1>1. stage = "search" /\ day \in Dates /\ ~hit /\ day' = nextDay(day) /\ unchanged /\ UNCHANGED <<stage, after, fired>> /\ Known
  BY KnownWhen DEF SkipDay, searching, IInv, Scanned
<1>2. day' \in Dates /\ number(day') = number(day) + 1 /\ number(day) \in Int
  BY <1>1, NextDay, NumberOf
<1>3. due(number(day)) = {}
  BY <1>1, NoHit
<1>4. \A n \in number(day)..(number(day') - 1) : due(n) = {}
  BY <1>2, <1>3
<1> QED BY <1>1, <1>2, <1>4, MovesOn

LEMMA FireKeeps == ASSUME IInv, Fire PROVE IInv'
<1> DEFINE t == instant(Min(candidates(day)))
<1>1. /\ stage = "search" /\ day \in Dates /\ hit /\ unchanged /\ UNCHANGED <<after, day>> /\ Known /\ after \in Int
      /\ fired # <<>> => after = Last(fired)
      /\ \/ stage' = "never" /\ fired' = fired
         \/ stage' = "fired" /\ fired' = Append(fired, t)
  BY KnownWhen DEF Fire, searching, IInv, Scanned, Given
<1>2. Given' /\ Read'
  BY <1>1, ReadKeeps
<1>3. Moments' = Moments /\ fired \in Seq(Moments) /\ OncePerMinute
  BY <1>1 DEF unchanged, Moments, IInv, Chain, instant, wall, offset
<1>4. t \in Moments /\ after < t
  BY <1>1, Hit, MomentsAre
<1> HIDE DEF t
<1>5. OncePerMinute' /\ (stage' = "fired" => fired' # <<>>) /\ fired' \in Seq(Moments)
  <2>1. CASE fired' = fired
    BY <1>1, <1>3, <2>1 DEF OncePerMinute, unchanged, wall, offset
  <2>2. CASE fired' = Append(fired, t)
    <3>1. fired' \in Seq(Moments) /\ fired' # <<>> /\ Len(fired') = Len(fired) + 1 /\ Len(fired) \in Nat
          /\ fired'[Len(fired) + 1] = t /\ \A k \in 1..Len(fired) : fired'[k] = fired[k] /\ fired[k] \in Moments
      BY <1>3, <1>4, <2>2
    <3>2. \A x : wall(x)' = wall(x)
      BY <1>1 DEF unchanged, wall, offset
    <3>3. ASSUME NEW k \in 1..(Len(fired') - 1) PROVE fired'[k] < fired'[k + 1] /\ wall(fired'[k]) < wall(fired'[k + 1])
      <4>1. CASE k = Len(fired)
        <5>1. fired'[k] = fired[k] /\ fired[k] \in Moments /\ fired'[k + 1] = t /\ fired # <<>>
          BY <3>1, <4>1
        <5>2. fired[k] = after
          BY <1>1, <4>1, <5>1 DEF Last
        <5>3. wall(after) < wall(t)
          BY <1>1, <1>4, <5>1, <5>2, Ascending, MomentsAre DEF Known
        <5> QED BY <1>4, <5>1, <5>2, <5>3
      <4>2. CASE k # Len(fired)
        <5>1. k \in 1..(Len(fired) - 1) /\ fired'[k] = fired[k] /\ fired'[k + 1] = fired[k + 1]
          BY <3>1, <4>2
        <5> QED BY <1>3, <5>1 DEF OncePerMinute
      <4> QED BY <4>1, <4>2
    <3>4. OncePerMinute'
      BY <1>1, <3>3 DEF OncePerMinute, unchanged, wall, offset
    <3> QED BY <3>1, <3>4
  <2> QED BY <1>1, <2>1, <2>2
<1>6. Chain' /\ Scanned'
  BY <1>1, <1>3, <1>5 DEF Chain, Scanned
<1> QED BY <1>2, <1>6 DEF IInv

LEMMA StutterKeeps == ASSUME IInv, UNCHANGED vars PROVE IInv'
<1>1. UNCHANGED <<fields, zone, stage, masks, after, day, fired>>
  BY DEF vars
<1>2. Given' /\ Read'
  BY <1>1 DEF IInv, Given, Read, bad
<1>3. Moments' = Moments /\ wall(after)' = wall(after) /\ \A n : due(n)' = due(n)
  BY <1>1, SameDays
<1>4. OncePerMinute'
  BY <1>1 DEF IInv, Chain, OncePerMinute, wall, offset
<1>5. Chain'
  BY <1>1, <1>3, <1>4 DEF IInv, Chain
<1>6. Scanned'
  <2>1. number(day)' = number(day)
    BY <1>1
  <2> QED BY <1>1, <1>3, <2>1 DEF IInv, Scanned
<1> QED BY <1>2, <1>5, <1>6 DEF IInv

LEMMA NextKeeps == IInv /\ [Next]_vars => IInv'
<1> SUFFICES ASSUME IInv, [Next]_vars PROVE IInv'
  OBVIOUS
<1>1. CASE ParseFails \/ Parse
  BY <1>1, ParseKeeps
<1>2. CASE Ask
  BY <1>2, AskKeeps
<1>3. CASE Scan
  BY <1>3, GiveUpKeeps, SkipMonthKeeps, FireKeeps, SkipDayKeeps DEF Scan
<1>4. CASE UNCHANGED vars
  BY <1>4, StutterKeeps
<1> QED BY <1>1, <1>2, <1>3, <1>4 DEF Next

(***************************************************************************)
(* Theorems.                                                               *)
(***************************************************************************)
\* Next iterated: each moment it returns comes after the one before, on the clock too
\* (cronx Next, called by the schedule's preview and by the engine's gather).
THEOREM OncePerMinuteCorrect == Spec => []OncePerMinute
<1>1. IInv => OncePerMinute
  BY DEF IInv, Chain
<1> QED BY <1>1, InitKeeps, NextKeeps, PTL DEF Spec

LEMMA FoundToday ==
  ASSUME IInv, stage = "search"
  PROVE  found = due(number(day))
<1>1. Known /\ day \in Dates /\ wall(after) \div 1440 <= number(day)
      /\ \A n \in Int : wall(after) \div 1440 <= n /\ n < number(day) => due(n) = {}
  BY KnownWhen DEF IInv, Scanned
<1>2. number(day) \in Int /\ wall(after) \in Int
  BY <1>1, NumberOf, WallInt DEF Known
<1> DEFINE N == ((wall(after) \div 1440) - 1)..number(day)
<1>3. ASSUME NEW n \in N, n # number(day) PROVE due(n) = {}
  <2>1. n \in Int /\ n < number(day)
    BY <1>2, <1>3
  <2>2. CASE n < wall(after) \div 1440
    BY <1>1, <2>1, <2>2, EarlyDays
  <2>3. CASE ~(n < wall(after) \div 1440)
    BY <1>1, <1>2, <2>1, <2>3
  <2> QED BY <2>2, <2>3
<1>4. number(day) \in N
  BY <1>1, <1>2
<1> HIDE DEF N
<1>5. UNION {due(n) : n \in N} = due(number(day))
  BY <1>3, <1>4
<1> QED BY <1>5 DEF found, N

LEMMA ReturnsFirst ==
  ASSUME IInv, [Next]_vars, stage = "search", stage' # "search"
  PROVE  IF found = {} THEN stage' = "never" ELSE stage' = "fired" /\ fired' = Append(fired, Min(found))
<1>1. Known /\ day \in Dates /\ found = due(number(day))
  BY KnownWhen, FoundToday DEF IInv, Scanned
<1>2. GiveUp \/ Fire
  BY DEF Next, Scan, ParseFails, Parse, Ask, SkipMonth, SkipDay, vars
<1>3. CASE GiveUp
  <2>1. number(day) \in Int /\ number(day) > wall(limit) \div 1440 /\ stage' = "never"
    BY <1>1, <1>3, NumberOf DEF GiveUp
  <2> QED BY <1>1, <2>1, LateDays
<1>4. CASE Fire
  <2> DEFINE t == instant(Min(candidates(day)))
  <2>1. hit /\ IF t > limit THEN stage' = "never" /\ UNCHANGED fired
               ELSE stage' = "fired" /\ fired' = Append(fired, t)
    BY <1>4 DEF Fire
  <2>2. Canonical(t) /\ (\A u \in found : t <= u) /\ (t <= limit => t \in found)
    BY <1>1, <2>1, Hit
  <2>3. t \in Int /\ limit \in Int /\ \A u \in found : u \in Int /\ u <= limit
    <3>1. number(day) \in Int
      BY <1>1, NumberOf
    <3>2. \A u \in found : Canonical(u) /\ u <= limit
      BY <1>1, <3>1, Due
    <3> QED BY <1>1, <2>2, <3>2, LimitInt DEF Canonical
  <2> HIDE DEF t
  <2>4. CASE t > limit
    <3>1. found = {}
      BY <2>2, <2>3, <2>4
    <3> QED BY <2>1, <2>4, <3>1
  <2>5. CASE ~(t > limit)
    <3>1. t \in found
      BY <2>2, <2>3, <2>5
    <3>2. Min(found) \in found /\ \A u \in found : Min(found) <= u
      <4>1. \E x \in found : \A u \in found : x <= u
        BY <2>2, <3>1
      <4> QED BY <4>1 DEF Min
    <3>3. Min(found) = t
      <4>1. Min(found) \in Int /\ Min(found) <= t /\ t <= Min(found)
        BY <2>2, <2>3, <3>1, <3>2
      <4> QED BY <2>3, <4>1
    <3> QED BY <2>1, <2>5, <3>1, <3>3
  <2> QED BY <2>4, <2>5
<1> QED BY <1>2, <1>3, <1>4

\* Each call returns the first moment due after the one it was given, and none only
\* where none is due up to the limit (cronx Next).
THEOREM NothingSkippedCorrect == Spec => NothingSkipped
<1>1. IInv /\ [Next]_vars =>
        [stage = "search" /\ stage' # "search" =>
           IF found = {} THEN stage' = "never" ELSE stage' = "fired" /\ fired' = Append(fired, Min(found))]_vars
  BY ReturnsFirst
<1> QED BY <1>1, InitKeeps, NextKeeps, PTL DEF Spec, NothingSkipped

\* The scan's invariant: the masks are those of the text, the moments returned are in
\* order, and nothing was due behind the cursor.
THEOREM CronInvariant == Spec => []IInv
BY InitKeeps, NextKeeps, PTL DEF Spec
=============================================================================
