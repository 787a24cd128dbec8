---------------------------- MODULE PrinterProofs ----------------------------
(***************************************************************************)
(* Theorems about oscript_print.c: the date of every timetag of the 32 bit *)
(* clock (TimetagDate), and the two passes over any text (PrintPasses).    *)
(***************************************************************************)
EXTENDS TimetagDate, PrintPasses, FiniteSetTheorems, SequenceTheorems, TLAPS

(* The leap years the loop counts among 0 to y - 1. *)
Leaps(y) ==
    ((y + 3) \div 4) - (IF y > 100 THEN 1 ELSE 0) - (IF y > 200 THEN 1 ELSE 0)

LEMMA LeapYear ==
    ASSUME NEW y \in 0 .. 299
    PROVE  IsLeap(y) <=> (y % 4 = 0 /\ y # 100 /\ y # 200)
BY DEF IsLeap

LEMMA NextLeaps ==
    ASSUME NEW y \in 0 .. 299
    PROVE  Leaps(y + 1) = Leaps(y) + (IF IsLeap(y) THEN 1 ELSE 0)
<1>1. (y + 4) \div 4 = (y + 3) \div 4 + (IF y % 4 = 0 THEN 1 ELSE 0)
  OBVIOUS
<1> QED BY <1>1, LeapYear DEF Leaps

LEMMA LeapsBound ==
    ASSUME NEW y \in 0 .. 299
    PROVE  /\ Leaps(y) \in Nat
           /\ 4 * Leaps(y) <= y + 3 /\ y - 8 <= 4 * Leaps(y)
BY DEF Leaps

-----------------------------------------------------------------------------
(* The calendar. *)
CalendarLeaps(y) == IF y = 1900 THEN 0 ELSE (y - 1901) \div 4

LEMMA CalendarLeapYear ==
    ASSUME NEW y \in 1900 .. 2099
    PROVE  IsLeap(y) <=> (y % 4 = 0 /\ y # 1900)
BY DEF IsLeap

LeapYears(y) == {l \in 1900 .. y - 1 : IsLeap(l)}

LEMMA LeapsCounted ==
    ASSUME NEW y \in 1900 .. 2099
    PROVE  Cardinality(LeapYears(y)) = CalendarLeaps(y)
<1> DEFINE n == CalendarLeaps(y)
           S == LeapYears(y)
           f == [j \in 1 .. n |-> 1900 + 4 * j]
<1> USE DEF LeapYears
<1>1. n \in Nat /\ 4 * n <= y - 1900 /\ (y > 1900 => y <= 1900 + 4 * n + 4 /\ 4 * n < y - 1900)
  BY DEF CalendarLeaps
<1>2. ASSUME NEW j \in 1 .. n PROVE 1900 + 4 * j \in S
  <2> HIDE DEF n
  <2> DEFINE l == 1900 + 4 * j
  <2>1. l \in 1900 .. y - 1 /\ l % 4 = 0 /\ l # 1900
    BY <1>1
  <2> QED BY <2>1, CalendarLeapYear
<1>3. ASSUME NEW l \in S PROVE \E j \in 1 .. n : l = 1900 + 4 * j
  <2>1. l \in 1900 .. y - 1 /\ l % 4 = 0 /\ l # 1900
    BY CalendarLeapYear
  <2> DEFINE j == (l - 1900) \div 4
  <2> HIDE DEF n
  <2>2. j \in 1 .. n /\ l = 1900 + 4 * j
    BY <1>1, <2>1
  <2> QED BY <2>2
<1> HIDE DEF S, n
<1>4. f \in Bijection(1 .. n, S)
  <2>1. f \in [1 .. n -> S]
    BY <1>2
  <2>2. \A i, j \in 1 .. n : f[i] = f[j] => i = j
    BY <1>1
  <2>3. \A l \in S : \E j \in 1 .. n : f[j] = l
    BY <1>3
  <2> HIDE DEF f
  <2> QED BY <2>1, <2>2, <2>3 DEF Bijection, Injection, Surjection, IsInjective
<1>5. ExistsBijection(1 .. n, S)
  BY <1>4 DEF ExistsBijection
<1>6. Cardinality(S) = n
  BY <1>1, <1>5, FS_CountingElements
<1> QED BY <1>6 DEF S, n

LEMMA DaysBeforeIs ==
    ASSUME NEW y \in 1900 .. 2099
    PROVE  DaysBefore(y) = 365 * (y - 1900) + CalendarLeaps(y)
<1>1. DaysBefore(y) = 365 * (y - 1900) + Cardinality(LeapYears(y))
  BY DEF DaysBefore, LeapYears
<1> QED BY <1>1, LeapsCounted

LEMMA YearLength ==
    ASSUME NEW y \in 1900 .. 2098
    PROVE  DaysBefore(y + 1) = DaysBefore(y) + (IF IsLeap(y) THEN 366 ELSE 365)
<1>1. CalendarLeaps(y + 1) = CalendarLeaps(y) + (IF IsLeap(y) THEN 1 ELSE 0)
  BY CalendarLeapYear DEF CalendarLeaps
<1>2. CalendarLeaps(y) \in Int
  BY DEF CalendarLeaps
<1> QED BY <1>1, <1>2, DaysBeforeIs

LEMMA YearsInOrder ==
    ASSUME NEW y \in 1900 .. 2099, NEW z \in 1900 .. 2099, y <= z
    PROVE  DaysBefore(y) <= DaysBefore(z) /\ DaysBefore(y) \in Nat
BY DaysBeforeIs DEF CalendarLeaps

LEMMA CivilYearIs ==
    ASSUME NEW y \in 1900 .. 2036, NEW d \in Nat,
           DaysBefore(y) <= d, d < DaysBefore(y + 1)
    PROVE  CivilYear(d) = y
<1>1. ASSUME NEW z \in 1900 .. 2036, DaysBefore(z) <= d, d < DaysBefore(z + 1)
      PROVE  z = y
  <2>1. CASE z < y
    <3>1. DaysBefore(z + 1) <= DaysBefore(y) /\ DaysBefore(z + 1) \in Nat
      BY <2>1, YearsInOrder
    <3>2. DaysBefore(y) \in Nat
      BY YearsInOrder
    <3> QED BY <1>1, <3>1, <3>2
  <2>2. CASE y < z
    <3>1. DaysBefore(y + 1) <= DaysBefore(z) /\ DaysBefore(y + 1) \in Nat
      BY <2>2, YearsInOrder
    <3>2. DaysBefore(z) \in Nat
      BY YearsInOrder
    <3> QED BY <1>1, <3>1, <3>2
  <2> QED BY <2>1, <2>2
<1> QED BY <1>1 DEF CivilYear

-----------------------------------------------------------------------------
(* The months: what getmonth and getdayofmonth find is the date. *)
LeapDay(y) == IF IsLeap(y) THEN 1 ELSE 0

LEMMA YearDays ==
    ASSUME NEW y \in Nat, NEW d
    PROVE  /\ DayOfYear(y, 1, d) = 0 + d
           /\ DayOfYear(y, 2, d) = 31 + d
           /\ DayOfYear(y, 3, d) = 59 + LeapDay(y) + d
           /\ DayOfYear(y, 4, d) = 90 + LeapDay(y) + d
           /\ DayOfYear(y, 5, d) = 120 + LeapDay(y) + d
           /\ DayOfYear(y, 6, d) = 151 + LeapDay(y) + d
           /\ DayOfYear(y, 7, d) = 181 + LeapDay(y) + d
           /\ DayOfYear(y, 8, d) = 212 + LeapDay(y) + d
           /\ DayOfYear(y, 9, d) = 243 + LeapDay(y) + d
           /\ DayOfYear(y, 10, d) = 273 + LeapDay(y) + d
           /\ DayOfYear(y, 11, d) = 304 + LeapDay(y) + d
           /\ DayOfYear(y, 12, d) = 334 + LeapDay(y) + d
<1> DEFINE F(g) == [n \in 0 .. 11 |-> IF n = 0 THEN 0 ELSE g[n - 1] + MonthLength(y, n)]
           f == CHOOSE g : g = F(g)
           plain == <<0, 31, 59, 90, 120, 151, 181, 212, 243, 273, 304, 334>>
           t == [n \in 0 .. 11 |-> plain[n + 1] + (IF n >= 2 THEN LeapDay(y) ELSE 0)]
<1>1. t = F(t)
  <2>1. ASSUME NEW n \in 0 .. 11
        PROVE  t[n] = IF n = 0 THEN 0 ELSE t[n - 1] + MonthLength(y, n)
    BY DEF MonthLength, LeapDay
  <2> QED BY <2>1
<1>2. f = F(f)
  <2> HIDE DEF F, t
  <2> QED BY <1>1
<1>3. /\ f[0] = 0
      /\ \A n \in 1 .. 11 : f[n] = f[n - 1] + MonthLength(y, n)
  <2> HIDE DEF f
  <2> QED BY <1>2
<1>4. \A m \in 1 .. 12 : DayOfYear(y, m, d) = f[m - 1] + d
  BY DEF DayOfYear
<1> HIDE DEF f
<1>5. /\ f[1] = 31 /\ f[2] = 59 + LeapDay(y) /\ f[3] = 90 + LeapDay(y)
      /\ f[4] = 120 + LeapDay(y) /\ f[5] = 151 + LeapDay(y) /\ f[6] = 181 + LeapDay(y)
      /\ f[7] = 212 + LeapDay(y) /\ f[8] = 243 + LeapDay(y) /\ f[9] = 273 + LeapDay(y)
      /\ f[10] = 304 + LeapDay(y) /\ f[11] = 334 + LeapDay(y)
  BY <1>3 DEF MonthLength, LeapDay
<1> QED BY <1>3, <1>4, <1>5

LEMMA EndsOfMonths ==
    ASSUME NEW leap \in BOOLEAN, NEW l, l = (IF leap THEN 1 ELSE 0)
    PROVE  LET ends == LastDays(leap)
           IN  /\ ends[1] = 31 /\ ends[2] = 59 + l /\ ends[3] = 90 + l
               /\ ends[4] = 120 + l /\ ends[5] = 151 + l /\ ends[6] = 181 + l
               /\ ends[7] = 212 + l /\ ends[8] = 243 + l /\ ends[9] = 273 + l
               /\ ends[10] = 304 + l /\ ends[11] = 334 + l /\ ends[12] = 365 + l
BY DEF LastDays

LEMMA MonthFound ==
    ASSUME NEW leap \in BOOLEAN, NEW day \in 1 .. 365
    PROVE  LET ends == LastDays(leap)  m == MonthOf(day, leap)
           IN  /\ m \in 1 .. 12 /\ day <= ends[m]
               /\ m > 1 => day > ends[m - 1]
               /\ DayOfMonth(day, leap) = IF m <= 1 THEN day ELSE day - ends[m - 1]
<1> DEFINE ends == LastDays(leap)
           l == IF leap THEN 1 ELSE 0
           Falls(m) == day <= ends[m] /\ \A n \in 1 .. m - 1 : day > ends[n]
<1>1. /\ ends[1] = 31 /\ ends[2] = 59 + l /\ ends[3] = 90 + l
      /\ ends[4] = 120 + l /\ ends[5] = 151 + l /\ ends[6] = 181 + l
      /\ ends[7] = 212 + l /\ ends[8] = 243 + l /\ ends[9] = 273 + l
      /\ ends[10] = 304 + l /\ ends[11] = 334 + l /\ ends[12] = 365 + l
  BY EndsOfMonths
<1>2. l \in {0, 1}
  OBVIOUS
<1> HIDE DEF ends, l
<1>3. \E m \in 1 .. 12 : Falls(m)
  <2>1. CASE \E m \in 1 .. 11 : day <= ends[m]
    <3>1. /\ day <= ends[1] => Falls(1)
          /\ day > ends[1] /\ day <= ends[2] => Falls(2)
          /\ day > ends[2] /\ day <= ends[3] => Falls(3)
          /\ day > ends[3] /\ day <= ends[4] => Falls(4)
          /\ day > ends[4] /\ day <= ends[5] => Falls(5)
          /\ day > ends[5] /\ day <= ends[6] => Falls(6)
          /\ day > ends[6] /\ day <= ends[7] => Falls(7)
          /\ day > ends[7] /\ day <= ends[8] => Falls(8)
          /\ day > ends[8] /\ day <= ends[9] => Falls(9)
          /\ day > ends[9] /\ day <= ends[10] => Falls(10)
          /\ day > ends[10] /\ day <= ends[11] => Falls(11)
      BY <1>1, <1>2
    <3> HIDE DEF Falls
    <3> QED BY <1>1, <1>2, <2>1, <3>1
  <2>2. CASE \A m \in 1 .. 11 : day > ends[m]
    <3>1. Falls(12)
      BY <1>1, <1>2, <2>2
    <3> HIDE DEF Falls
    <3> QED BY <3>1
  <2>3. \A m \in 1 .. 11 : ends[m] \in Nat
    BY <1>1, <1>2
  <2> QED BY <2>1, <2>2, <2>3
<1>4. ~(day > ends[12])
  BY <1>1, <1>2
<1> DEFINE m == CHOOSE q \in 1 .. 12 : Falls(q)
<1>5. MonthOf(day, leap) = m
  BY <1>4 DEF MonthOf, ends
<1>6. m \in 1 .. 12 /\ Falls(m)
  <2> HIDE DEF Falls
  <2> QED BY <1>3
<1>7. DayOfMonth(day, leap) = IF m <= 1 THEN day ELSE day - ends[m - 1]
  BY <1>5 DEF DayOfMonth, ends
<1> HIDE DEF m
<1> QED BY <1>5, <1>6, <1>7 DEF ends

(* A day of a year that is not its 366th has the date that is printed. *)
LEMMA DateFound ==
    ASSUME NEW y \in Nat, NEW day \in 1 .. 365
    PROVE  LET m == MonthOf(day, IsLeap(y))  d == DayOfMonth(day, IsLeap(y))
           IN  /\ m \in 1 .. 12 /\ d \in 1 .. MonthLength(y, m)
               /\ DayOfYear(y, m, d) = day
<1> DEFINE leap == IsLeap(y)
           l == LeapDay(y)
           m == MonthOf(day, leap)
           d == DayOfMonth(day, leap)
           ends == LastDays(leap)
<1>1. leap \in BOOLEAN /\ l = (IF leap THEN 1 ELSE 0) /\ l \in {0, 1}
  BY DEF IsLeap, LeapDay
<1>2. /\ ends[1] = 31 /\ ends[2] = 59 + l /\ ends[3] = 90 + l
      /\ ends[4] = 120 + l /\ ends[5] = 151 + l /\ ends[6] = 181 + l
      /\ ends[7] = 212 + l /\ ends[8] = 243 + l /\ ends[9] = 273 + l
      /\ ends[10] = 304 + l /\ ends[11] = 334 + l /\ ends[12] = 365 + l
  <2> HIDE DEF leap, l
  <2> QED BY <1>1, EndsOfMonths
<1>3. /\ m \in 1 .. 12 /\ day <= ends[m]
      /\ m > 1 => day > ends[m - 1]
      /\ d = IF m <= 1 THEN day ELSE day - ends[m - 1]
  <2> HIDE DEF leap
  <2> QED BY <1>1, MonthFound
<1>4. /\ MonthLength(y, 2) = 28 + l
      /\ \A n \in {4, 6, 9, 11} : MonthLength(y, n) = 30
      /\ \A n \in {1, 3, 5, 7, 8, 10, 12} : MonthLength(y, n) = 31
  BY DEF MonthLength, LeapDay
<1>5. /\ DayOfYear(y, 1, d) = 0 + d /\ DayOfYear(y, 2, d) = 31 + d
      /\ DayOfYear(y, 3, d) = 59 + l + d /\ DayOfYear(y, 4, d) = 90 + l + d
      /\ DayOfYear(y, 5, d) = 120 + l + d /\ DayOfYear(y, 6, d) = 151 + l + d
      /\ DayOfYear(y, 7, d) = 181 + l + d /\ DayOfYear(y, 8, d) = 212 + l + d
      /\ DayOfYear(y, 9, d) = 243 + l + d /\ DayOfYear(y, 10, d) = 273 + l + d
      /\ DayOfYear(y, 11, d) = 304 + l + d /\ DayOfYear(y, 12, d) = 334 + l + d
  BY YearDays
<1> HIDE DEF m, d, ends, l
<1>6. d \in 1 .. MonthLength(y, m) /\ DayOfYear(y, m, d) = day
  <2>1. m = 1 \/ m = 2 \/ m = 3 \/ m = 4 \/ m = 5 \/ m = 6 \/ m = 7 \/ m = 8
        \/ m = 9 \/ m = 10 \/ m = 11 \/ m = 12
    BY <1>3
  <2>2. CASE m = 1
    BY <1>1, <1>2, <1>3, <1>4, <1>5, <2>2
  <2>3. CASE m = 2 \/ m = 3 \/ m = 4 \/ m = 5
    BY <1>1, <1>2, <1>3, <1>4, <1>5, <2>3
  <2>4. CASE m = 6 \/ m = 7 \/ m = 8
    BY <1>1, <1>2, <1>3, <1>4, <1>5, <2>4
  <2>5. CASE m = 9 \/ m = 10 \/ m = 11 \/ m = 12
    BY <1>1, <1>2, <1>3, <1>4, <1>5, <2>5
  <2> QED BY <2>1, <2>2, <2>3, <2>4, <2>5
<1> QED BY <1>3, <1>6 DEF m, d

-----------------------------------------------------------------------------
(* The inductive invariant.  The years counted and the days left make up   *)
(* the timetag, until on the last day of a leap year a leap day is         *)
(* subtracted that is not there: from then on the years that follow and    *)
(* the days left make up the days of a whole turn of the clock.            *)
Accounted ==
    /\ year <= 136 /\ left.secs = timetag.secs
    /\ timetag.days = 365 * year + Leaps(year) + left.days

Turned(y, z, d) ==
    365 * (y - z) + (Leaps(y) - Leaps(z)) + d \in {49709, 49710}

LostLeapDay(y) ==
    /\ IsLeap(y) /\ timetag.days = 365 * (y + 1) + Leaps(y)
    /\ y + 1 <= year /\ year <= y + 137
    /\ Turned(year, y + 1, left.days)

Wrapped == \E y \in 0 .. 136 : LostLeapDay(y)

DateOf(y, s) ==
    [year |-> y, month |-> MonthOf(s.days + 1, IsLeap(y)),
     day |-> DayOfMonth(s.days + 1, IsLeap(y)), secs |-> s.secs]

Inv ==
    /\ timetag \in Timetags /\ left \in Seconds /\ year \in Nat
    /\ Accounted \/ Wrapped
    /\ date = None \/ (left.days < 365 /\ date = DateOf(year + 1900, left))

LEMMA Widths == WrapDays = 49710 /\ WrapSecs = 23296 /\ SecsPerDay = 86400
BY DEF WrapDays, WrapSecs, SecsPerDay

LEMMA SecondsType ==
    ASSUME NEW s \in Seconds
    PROVE  /\ s.days \in Nat /\ s.days <= 49710
           /\ s.secs \in Nat /\ s.secs < 86400
           /\ s = [days |-> s.days, secs |-> s.secs]
<1>0. s = [days |-> s.days, secs |-> s.secs]
  BY DEF Seconds
<1>1. s.days \in 0 .. WrapDays /\ s.secs \in 0 .. (SecsPerDay - 1)
  BY DEF Seconds
<1>2. WrapDays \in Int /\ SecsPerDay \in Int
  BY Widths
<1>3. /\ s.days \in Nat /\ s.days <= WrapDays
      /\ s.secs \in Nat /\ s.secs < SecsPerDay
  BY <1>1, <1>2
<1>4. s.days <= 49710 /\ s.secs < 86400
  BY <1>3, Widths
<1> QED BY <1>0, <1>3, <1>4

LEMMA MakeSeconds ==
    ASSUME NEW d \in Nat, d <= 49710, NEW n \in Nat, n < 86400
    PROVE  [days |-> d, secs |-> n] \in Seconds
<1>1. WrapDays \in Int /\ SecsPerDay \in Int /\ d <= WrapDays /\ n < SecsPerDay
  BY Widths
<1>2. d \in 0 .. WrapDays /\ n \in 0 .. (SecsPerDay - 1)
  BY <1>1
<1> QED BY <1>2 DEF Seconds

LEMMA InitInv == Init => Inv
<1> SUFFICES ASSUME Init PROVE Inv
  OBVIOUS
<1>1. timetag \in Timetags /\ left = timetag /\ timetag \in Seconds /\ year = 0 /\ date = None
  BY TimetagsAssumption DEF Init
<1>2. Leaps(0) = 0 /\ timetag.days \in Nat
  BY <1>1, SecondsType DEF Leaps
<1>3. Accounted
  BY <1>1, <1>2 DEF Accounted
<1> QED BY <1>1, <1>3 DEF Inv

(* What a turn of the loop subtracts. *)
LEMMA OneYear ==
    ASSUME NEW s \in Seconds, s.days >= 365
    PROVE  LET r == MinusDays(s, 365)
           IN  r \in Seconds /\ r.days = s.days - 365 /\ r.secs = s.secs
<1>1. MinusDays(s, 365) = [days |-> s.days - 365, secs |-> s.secs]
  BY SecondsType DEF MinusDays
<1>2. s.days - 365 \in Nat /\ s.days - 365 <= 49710 /\ s.secs \in Nat /\ s.secs < 86400
  BY SecondsType
<1> QED BY <1>1, <1>2, MakeSeconds

LEMMA OneLeapDay ==
    ASSUME NEW s \in Seconds
    PROVE  LET r == MinusDays(s, 1)
           IN  /\ r \in Seconds
               /\ s.days > 0 => r.days = s.days - 1 /\ r.secs = s.secs
               /\ s.days = 0 => r.days = 49710 \/ r.days = 49709
<1>0. /\ s.days \in Nat /\ s.days <= 49710 /\ s.secs \in Nat /\ s.secs < 86400
      /\ s = [days |-> s.days, secs |-> s.secs]
  BY SecondsType
<1>1. CASE s.days > 0
  <2>1. MinusDays(s, 1) = [days |-> s.days - 1, secs |-> s.secs]
    BY <1>0, <1>1 DEF MinusDays
  <2>2. s.days - 1 \in Nat /\ s.days - 1 <= 49710 /\ ~(s.days = 0)
    BY <1>0, <1>1
  <2> QED BY <1>0, <2>1, <2>2, MakeSeconds
<1>2. CASE s.days = 0
  <2> DEFINE n == s.secs + WrapSecs
             d == s.days - 1 + WrapDays + n \div SecsPerDay
             q == n % SecsPerDay
  <2>1. n \in Nat /\ n < 2 * 86400
    BY <1>0, Widths
  <2>2. MinusDays(s, 1) = [days |-> d, secs |-> q]
    BY <1>2 DEF MinusDays
  <2>3. (n \div SecsPerDay = 0 \/ n \div SecsPerDay = 1) /\ q \in Nat /\ q < 86400
    <3> HIDE DEF n
    <3>1. (n \div 86400 = 0 \/ n \div 86400 = 1) /\ n % 86400 \in Nat /\ n % 86400 < 86400
      BY <2>1
    <3> QED BY <3>1, Widths
  <2> HIDE DEF n, q
  <2>4. d = 49709 \/ d = 49710
    BY <1>2, <2>3, Widths
  <2> HIDE DEF d
  <2>5. d \in Nat /\ d <= 49710 /\ ~(s.days > 0)
    BY <1>2, <2>4
  <2> QED BY <2>2, <2>3, <2>4, <2>5, MakeSeconds
<1> QED BY <1>0, <1>1, <1>2

(* One more year is counted. *)
LEMMA YearElapsesInv == ASSUME Inv, YearElapses PROVE Inv'
<1>1. /\ timetag' = timetag /\ timetag \in Timetags /\ timetag \in Seconds
      /\ left \in Seconds /\ left.days >= 365 /\ left.days <= 49710
      /\ left.days \in Nat /\ timetag.days \in Nat /\ timetag.days <= 49710
      /\ year \in Nat /\ year' = year + 1 /\ date' = None
  BY TimetagsAssumption, SecondsType DEF Inv, YearElapses, AnotherYear
<1> DEFINE rest == MinusDays(left, 365)
<1>2. /\ left' = IF IsLeap(year) THEN MinusDays(rest, 1) ELSE rest
      /\ rest \in Seconds /\ rest.days = left.days - 365 /\ rest.secs = left.secs
  BY <1>1, OneYear DEF YearElapses
<1> HIDE DEF rest
<1>3. left' \in Seconds
  BY <1>2, OneLeapDay
<1>4. CASE Accounted
  <2>1. /\ year <= 136 /\ left.secs = timetag.secs
        /\ timetag.days = 365 * year + Leaps(year) + left.days
    BY <1>4 DEF Accounted
  <2>2. year \in 0 .. 299 /\ Leaps(year) \in Nat /\ year - 8 <= 4 * Leaps(year)
    <3>1. year \in 0 .. 299
      BY <1>1, <2>1
    <3> QED BY <3>1, LeapsBound
  <2>3. year <= 135
    BY <1>1, <2>1, <2>2
  <2>4. Leaps(year + 1) = Leaps(year) + (IF IsLeap(year) THEN 1 ELSE 0)
    BY <2>2, NextLeaps
  <2>5. CASE ~IsLeap(year)
    <3>1. left'.days = left.days - 365 /\ left'.secs = left.secs
      BY <1>2, <2>5
    <3>2. timetag.days = 365 * (year + 1) + Leaps(year + 1) + left'.days
      BY <1>1, <2>1, <2>2, <2>4, <2>5, <3>1
    <3>3. Accounted'
      BY <1>1, <2>1, <2>3, <3>1, <3>2 DEF Accounted, Leaps
    <3> QED BY <1>1, <1>3, <3>3 DEF Inv
  <2>6. CASE IsLeap(year) /\ left.days > 365
    <3>1. left'.days = left.days - 366 /\ left'.secs = left.secs
      BY <1>1, <1>2, <2>6, OneLeapDay
    <3>2. timetag.days = 365 * (year + 1) + Leaps(year + 1) + left'.days
      BY <1>1, <2>1, <2>2, <2>4, <2>6, <3>1
    <3>3. Accounted'
      BY <1>1, <2>1, <2>3, <3>1, <3>2 DEF Accounted, Leaps
    <3> QED BY <1>1, <1>3, <3>3 DEF Inv
  <2>7. CASE IsLeap(year) /\ left.days = 365
    <3>1. left'.days = 49710 \/ left'.days = 49709
      BY <1>1, <1>2, <2>7, OneLeapDay
    <3>2. timetag.days = 365 * (year + 1) + Leaps(year)
      BY <1>1, <2>1, <2>2, <2>7
    <3>3. Turned(year + 1, year + 1, left'.days)
      <4>1. Leaps(year + 1) \in Nat
        BY <2>2, <2>4
      <4>2. 365 * ((year + 1) - (year + 1)) + (Leaps(year + 1) - Leaps(year + 1)) = 0
        BY <1>1, <4>1
      <4>3. left'.days \in Nat
        BY <1>3, SecondsType
      <4> QED BY <3>1, <4>2, <4>3 DEF Turned
    <3>4. /\ IsLeap(year) /\ timetag'.days = 365 * (year + 1) + Leaps(year)
          /\ year + 1 <= year' /\ year' <= year + 137
          /\ Turned(year', year + 1, left'.days)
      BY <1>1, <2>7, <3>2, <3>3
    <3>5. \E y \in 0 .. 136 : LostLeapDay(y)'
      <4>1. year \in 0 .. 136
        BY <1>1, <2>1
      <4> DEFINE Lost(y) == /\ IsLeap(y) /\ timetag'.days = 365 * (y + 1) + Leaps(y)
                            /\ y + 1 <= year' /\ year' <= y + 137
                            /\ Turned(year', y + 1, left'.days)
      <4>2. \A y : LostLeapDay(y)' <=> Lost(y)
        BY DEF LostLeapDay, Turned, Leaps, IsLeap
      <4>3. Lost(year)
        BY <3>4
      <4> QED BY <4>1, <4>2, <4>3
    <3> QED BY <1>1, <1>3, <3>5 DEF Inv, Wrapped
  <2> QED BY <1>1, <2>5, <2>6, <2>7
<1>5. CASE Wrapped
  <2> PICK y \in 0 .. 136 : LostLeapDay(y)
    BY <1>5 DEF Wrapped
  <2> DEFINE gone == 365 * (year - (y + 1)) + (Leaps(year) - Leaps(y + 1))
  <2>1. /\ IsLeap(y) /\ timetag.days = 365 * (y + 1) + Leaps(y)
        /\ y + 1 <= year /\ year <= y + 137
        /\ gone + left.days = 49710 \/ gone + left.days = 49709
    BY DEF LostLeapDay, Turned
  <2>2. /\ year \in 0 .. 299 /\ Leaps(year) \in Nat
        /\ year - 8 <= 4 * Leaps(year) /\ 4 * Leaps(year) <= year + 3
    <3>1. year \in 0 .. 299
      BY <1>1, <2>1
    <3> QED BY <3>1, LeapsBound
  <2>3. /\ Leaps(y + 1) \in Nat
        /\ y - 7 <= 4 * Leaps(y + 1) /\ 4 * Leaps(y + 1) <= y + 4
    <3>1. y + 1 \in 0 .. 299
      OBVIOUS
    <3> QED BY <3>1, LeapsBound
  <2>4. year <= y + 136
    BY <1>1, <2>1, <2>2, <2>3
  <2>5. ~(IsLeap(year) /\ left.days = 365)
    BY <1>1, <2>1, <2>2, <2>3, <2>4
  <2>6. Leaps(year + 1) = Leaps(year) + (IF IsLeap(year) THEN 1 ELSE 0)
    BY <2>2, NextLeaps
  <2>7. left'.days = left.days - (IF IsLeap(year) THEN 366 ELSE 365)
    <3>1. CASE ~IsLeap(year)
      BY <1>2, <3>1
    <3>2. CASE IsLeap(year)
      <4>1. rest.days > 0 /\ rest.days - 1 = left.days - 366
        BY <1>1, <1>2, <2>5, <3>2
      <4> QED BY <1>2, <3>2, <4>1, OneLeapDay
    <3> QED BY <3>1, <3>2
  <2>8. Turned(year + 1, y + 1, left'.days)
    <3>1. 365 * ((year + 1) - (y + 1)) + (Leaps(year + 1) - Leaps(y + 1)) + left'.days
             = gone + left.days
      BY <1>1, <2>2, <2>3, <2>6, <2>7
    <3> DEFINE after == 365 * ((year + 1) - (y + 1)) + (Leaps(year + 1) - Leaps(y + 1)) + left'.days
    <3>2. Turned(year + 1, y + 1, left'.days) <=> after \in {49709, 49710}
      BY DEF Turned
    <3> HIDE DEF after, gone
    <3>3. after \in {49709, 49710}
      BY <2>1, <3>1 DEF after
    <3> QED BY <3>2, <3>3
  <2>9. \E z \in 0 .. 136 : LostLeapDay(z)'
    <3> DEFINE Lost(z) == /\ IsLeap(z) /\ timetag'.days = 365 * (z + 1) + Leaps(z)
                          /\ z + 1 <= year' /\ year' <= z + 137
                          /\ Turned(year', z + 1, left'.days)
    <3>1. \A z : LostLeapDay(z)' <=> Lost(z)
      BY DEF LostLeapDay, Turned, Leaps, IsLeap
    <3>2. y + 1 <= year' /\ year' <= y + 137
      BY <1>1, <2>1, <2>4
    <3>3. Lost(y)
      BY <1>1, <2>1, <2>8, <3>2
    <3> HIDE DEF Lost
    <3> QED BY <3>1, <3>3
  <2> QED BY <1>1, <1>3, <2>9 DEF Inv, Wrapped
<1> QED BY <1>4, <1>5 DEF Inv

(* The date is formatted, and stays. *)
LEMMA FormatInv == ASSUME Inv, Format PROVE Inv'
<1>1. /\ timetag' = timetag /\ left' = left /\ year' = year
      /\ timetag \in Timetags /\ left \in Seconds /\ year \in Nat
      /\ ~(left.days >= 365) /\ left.days \in Nat
  BY SecondsType DEF Inv, Format, AnotherYear
<1>2. date' = DateOf(year' + 1900, left')
  BY <1>1 DEF Format, DateOf
<1>3. Accounted' \/ Wrapped'
  BY <1>1 DEF Inv, Accounted, Wrapped, LostLeapDay, Turned, Leaps, IsLeap
<1> QED BY <1>1, <1>2, <1>3 DEF Inv

LEMMA StutterInv == ASSUME Inv, UNCHANGED vars PROVE Inv'
<1>1. timetag' = timetag /\ left' = left /\ year' = year /\ date' = date
  BY DEF vars
<1>2. Accounted' \/ Wrapped'
  BY <1>1 DEF Inv, Accounted, Wrapped, LostLeapDay, Turned, Leaps, IsLeap
<1>3. date' = None \/ (left'.days < 365 /\ date' = DateOf(year' + 1900, left'))
  BY <1>1 DEF Inv
<1> QED BY <1>1, <1>2, <1>3 DEF Inv

(* The years counted and the days left account for the timetag, or for a   *)
(* turn of the clock since the leap day that was not there, in every state *)
(* of the loops of oscript_print.c.                                        *)
THEOREM InvHolds == Spec => []Inv
<1>1. Init => Inv
  BY InitInv
<1>2. Inv /\ [Next]_vars => Inv'
  <2> SUFFICES ASSUME Inv, [Next]_vars PROVE Inv'
    OBVIOUS
  <2>1. CASE YearElapses
    BY <2>1, YearElapsesInv
  <2>2. CASE Format
    BY <2>2, FormatInv
  <2>3. CASE Printed
    BY <2>3, StutterInv DEF Printed
  <2>4. CASE UNCHANGED vars
    BY <2>4, StutterInv
  <2> QED BY <2>1, <2>2, <2>3, <2>4 DEF Next
<1> QED BY <1>1, <1>2, PTL DEF Spec

-----------------------------------------------------------------------------
(* The theorems. *)
LEMMA YearsCounted ==
    ASSUME Inv
    PROVE  year \in Nat /\ year <= 273
<1>1. year \in Nat
  BY DEF Inv
<1>2. CASE Accounted
  BY <1>1, <1>2 DEF Accounted
<1>3. CASE Wrapped
  <2> PICK y \in 0 .. 136 : LostLeapDay(y)
    BY <1>3 DEF Wrapped
  <2>1. year <= y + 137
    BY DEF LostLeapDay
  <2> QED BY <1>1, <2>1
<1> QED BY <1>2, <1>3 DEF Inv

(* What is printed is a date of a month of the year, whatever the timetag  *)
(* and wherever the unsigned seconds wrapped in the loop before.           *)
THEOREM TypeCorrect == Spec => []TypeOK
<1>1. Inv => TypeOK
  <2> SUFFICES ASSUME Inv PROVE TypeOK
    OBVIOUS
  <2>1. left \in Seconds
    BY DEF Inv
  <2>2. year \in 0 .. (2 * 136 + 1)
    BY YearsCounted
  <2>3. ASSUME date # None PROVE date.month \in 1 .. 12
    <3>1. left.days < 365 /\ date = DateOf(year + 1900, left)
      BY <2>3 DEF Inv
    <3>2. left.days + 1 \in 1 .. 365
      BY <2>1, <3>1, SecondsType
    <3>3. MonthOf(left.days + 1, IsLeap(year + 1900)) \in 1 .. 12
      <4> DEFINE leap == IsLeap(year + 1900)
                 day == left.days + 1
      <4>1. leap \in BOOLEAN
        BY DEF IsLeap
      <4>2. day \in 1 .. 365
        BY <3>2
      <4> HIDE DEF leap, day
      <4>3. MonthOf(day, leap) \in 1 .. 12
        BY <4>1, <4>2, MonthFound
      <4> QED BY <4>3 DEF leap, day
    <3> QED BY <3>1, <3>3 DEF DateOf
  <2> QED BY <2>1, <2>2, <2>3 DEF TypeOK
<1> QED BY <1>1, InvHolds, PTL

(* A timetag that wraps in the loop is of the last day of a leap year, or  *)
(* of the first of a year of the twentieth century.                        *)
LEMMA WrappedNotInReach == ASSUME Inv, Wrapped PROVE ~InReach(timetag)
<1> PICK y \in 0 .. 136 : LostLeapDay(y)
  BY DEF Wrapped
<1>1. IsLeap(y) /\ timetag.days = 365 * (y + 1) + Leaps(y)
  BY DEF LostLeapDay
<1> DEFINE z == y + 1900
<1>2. z \in 1900 .. 2036 /\ z + 1 \in 1900 .. 2098 /\ z \in 1900 .. 2098
      /\ z \in 1900 .. 2099 /\ z + 1 \in 1900 .. 2099 /\ z - 1900 = y /\ z \in Int
  OBVIOUS
<1>3. y % 4 = 0 /\ y # 100 /\ y # 200
  BY <1>1, LeapYear
<1>4. DaysBefore(z + 1) = 365 * (y + 1) + CalendarLeaps(z + 1)
  BY <1>2, DaysBeforeIs
<1>5. timetag.days \in Nat
  BY TimetagsAssumption, SecondsType DEF Inv
<1>6. CASE y < 100
  <2>1. CalendarLeaps(z + 1) = Leaps(y)
    BY <1>3, <1>6 DEF CalendarLeaps, Leaps
  <2>2. timetag.days = DaysBefore(z + 1)
    BY <1>1, <1>4, <2>1
  <2>3. timetag.days < DaysBefore(z + 1 + 1)
    BY <1>2, <1>5, <2>2, YearLength
  <2>4. z + 1 \in 1900 .. 2036
    BY <1>6
  <2> HIDE DEF z
  <2>5. CivilYear(timetag.days) = z + 1
    BY <1>5, <2>2, <2>3, <2>4, CivilYearIs
  <2>6. z + 1 \in 1901 .. 2000
    BY <1>6 DEF z
  <2> QED BY <2>5, <2>6 DEF InReach
<1>7. CASE y > 100
  <2>1. CalendarLeaps(z + 1) = Leaps(y) + 1 /\ Leaps(y) \in Int
    BY <1>3, <1>7 DEF CalendarLeaps, Leaps
  <2>2. timetag.days = DaysBefore(z + 1) - 1 /\ DaysBefore(z + 1) \in Int
    BY <1>1, <1>4, <2>1
  <2>3. IsLeap(z)
    BY <1>2, <1>3, <1>7, CalendarLeapYear
  <2>4. DaysBefore(z + 1) = DaysBefore(z) + 366 /\ DaysBefore(z) \in Nat
    <3> HIDE DEF z
    <3>1. DaysBefore(z + 1) = DaysBefore(z) + 366
      BY <1>2, <2>3, YearLength
    <3>2. DaysBefore(z) \in Nat
      <4>1. z <= z
        BY <1>2
      <4> QED BY <1>2, <4>1, YearsInOrder
    <3> QED BY <3>1, <3>2
  <2> HIDE DEF z
  <2>5. DaysBefore(z) <= timetag.days /\ timetag.days < DaysBefore(z + 1)
    BY <2>2, <2>4
  <2>6. CivilYear(timetag.days) = z
    BY <1>2, <1>5, <2>5, CivilYearIs
  <2> QED BY <2>2, <2>3, <2>6 DEF InReach
<1> QED BY <1>3, <1>6, <1>7

(* A timetag that is accounted for has the date that is printed.           *)
LEMMA AccountedIsCivil ==
    ASSUME Inv, Accounted, date # None, InReach(timetag)
    PROVE  IsCivilDate(date, timetag)
<1> DEFINE z == year + 1900
           day == left.days + 1
<1>1. /\ year \in Nat /\ year <= 136 /\ left.secs = timetag.secs
      /\ timetag.days = 365 * year + Leaps(year) + left.days
      /\ left.days < 365 /\ date = DateOf(z, left)
      /\ left.days \in Nat /\ timetag.days \in Nat
  BY TimetagsAssumption, SecondsType DEF Inv, Accounted
<1>2. z \in 1900 .. 2036 /\ z \in 1900 .. 2098 /\ z \in 1900 .. 2099
      /\ z + 1 \in 1900 .. 2099 /\ z - 1900 = year /\ z \in Nat
  BY <1>1
<1>3. /\ DaysBefore(z) = 365 * year + CalendarLeaps(z)
      /\ DaysBefore(z) \in Nat
      /\ DaysBefore(z + 1) = DaysBefore(z) + (IF IsLeap(z) THEN 366 ELSE 365)
  <2> HIDE DEF z
  <2>1. DaysBefore(z) = 365 * (z - 1900) + CalendarLeaps(z)
    BY <1>2, DaysBeforeIs
  <2>2. DaysBefore(z + 1) = DaysBefore(z) + (IF IsLeap(z) THEN 366 ELSE 365)
    BY <1>2, YearLength
  <2>3. DaysBefore(z) \in Nat
    <3>1. z <= z
      BY <1>2
    <3> QED BY <1>2, <3>1, YearsInOrder
  <2> QED BY <1>2, <2>1, <2>2, <2>3
<1>4. CASE 1 <= year /\ year <= 100
  <2>1. Leaps(year) = CalendarLeaps(z) + 1 /\ CalendarLeaps(z) \in Int
    BY <1>1, <1>4 DEF Leaps, CalendarLeaps
  <2>2. timetag.days = DaysBefore(z) + 1 + left.days
    BY <1>1, <1>3, <2>1
  <2>3. z \in 1901 .. 2000
    BY <1>1, <1>4
  <2>4. CASE timetag.days < DaysBefore(z + 1)
    <3> HIDE DEF z
    <3>1. CivilYear(timetag.days) = z
      BY <1>1, <1>2, <1>3, <2>2, <2>4, CivilYearIs
    <3> QED BY <2>3, <3>1 DEF InReach
  <2>5. CASE ~(timetag.days < DaysBefore(z + 1))
    <3>1. ~IsLeap(z) /\ timetag.days = DaysBefore(z + 1)
      <4> HIDE DEF z
      <4> QED BY <1>1, <1>3, <2>2, <2>5
    <3>2. z # 2000
      BY <3>1 DEF IsLeap
    <3>3. z + 1 \in 1901 .. 2000 /\ z + 1 \in 1900 .. 2036 /\ z + 1 \in 1900 .. 2098
      BY <2>3, <3>2
    <3> DEFINE x == z + 1
    <3>4. timetag.days < DaysBefore(x + 1) /\ DaysBefore(x) <= timetag.days
      <4> HIDE DEF x
      <4>1. DaysBefore(x + 1) = DaysBefore(x) + (IF IsLeap(x) THEN 366 ELSE 365)
        BY <3>3, YearLength DEF x
      <4>2. DaysBefore(x) = timetag.days
        BY <3>1 DEF x
      <4> QED BY <1>1, <4>1, <4>2
    <3>5. CivilYear(timetag.days) = x
      <4> HIDE DEF x
      <4>1. x \in 1900 .. 2036
        BY <3>3 DEF x
      <4> QED BY <1>1, <3>4, <4>1, CivilYearIs
    <3> QED BY <3>3, <3>5 DEF InReach
  <2> QED BY <2>4, <2>5
<1>5. CASE year = 0 \/ year > 100
  <2>1. Leaps(year) = CalendarLeaps(z) /\ CalendarLeaps(z) \in Int
    BY <1>1, <1>5 DEF Leaps, CalendarLeaps
  <2>2. timetag.days = DaysBefore(z) + left.days
    BY <1>1, <1>3, <2>1
  <2> HIDE DEF z
  <2>3. DaysBefore(z) <= timetag.days /\ timetag.days < DaysBefore(z + 1)
    BY <1>1, <1>3, <2>2
  <2>4. CivilYear(timetag.days) = z
    BY <1>1, <1>2, <2>3, CivilYearIs
  <2> DEFINE m == MonthOf(day, IsLeap(z))
             d == DayOfMonth(day, IsLeap(z))
  <2>5. date = [year |-> z, month |-> m, day |-> d, secs |-> left.secs]
    BY <1>1 DEF DateOf
  <2>6. day \in 1 .. 365
    BY <1>1
  <2>7. m \in 1 .. 12 /\ d \in 1 .. MonthLength(z, m) /\ DayOfYear(z, m, d) = day
    <3> HIDE DEF day
    <3>1. z \in Nat
      BY <1>2
    <3> QED BY <2>6, <3>1, DateFound
  <2> HIDE DEF m, d
  <2>8. DaysBefore(z) + DayOfYear(z, m, d) - 1 = timetag.days
    BY <1>1, <1>3, <2>2, <2>7
  <2> QED BY <1>1, <2>4, <2>5, <2>7, <2>8 DEF IsCivilDate
<1> QED BY <1>1, <1>4, <1>5

(* For every timetag of 1900 and from 2001 on, except on the last day of a *)
(* leap year, the loops of oscript_print.c print its date and time.        *)
THEOREM DateIsRight == Spec => []DateInReach
<1>1. Inv => DateInReach
  <2> SUFFICES ASSUME Inv, date # None, InReach(timetag)
               PROVE  IsCivilDate(date, timetag)
    BY DEF DateInReach
  <2>1. CASE Accounted
    BY <2>1, AccountedIsCivil
  <2>2. CASE Wrapped
    BY <2>2, WrappedNotInReach
  <2> QED BY <2>1, <2>2 DEF Inv
<1> QED BY <1>1, InvHolds, PTL

-----------------------------------------------------------------------------
(* The two passes.  Both write the same pieces, of which nothing is known  *)
(* but that they are texts; when none of them was read where there is no   *)
(* text, both advance by the same lengths.                                 *)

(* The characters of the first k pieces, each with the piece it is in. *)
Chars(ps, k) ==
    { c \in (1 .. k) \X Nat : c[2] \in 1 .. Len(ps[c[1]].text) }

(* They are n.  Finiteness is kept step by step, as pieces are written. *)
Counts(n, ps, k) == IsFiniteSet(Chars(ps, k)) /\ n = Cardinality(Chars(ps, k))

Writer == [buf : BOOLEAN, left : Int, text : Text, n : Nat, over : BOOLEAN]

(* The element, the first on the stack. *)
Elem == stack[1]
ElemPieces == Pieces[Elem]

(* What is on the stack. *)
StackIs ==
    CASE pc = "measure" -> stack = <<>> \/ \E e \in Elems : stack = <<e>>
      [] pc \in {"write", "string"} -> \E e \in Elems : stack = <<e>>
      [] pc = "done" -> \/ \E x : stack = <<x>>
                        \/ \E e \in Elems : \E x : stack = <<e, x>>

(* While there is a buffer, it is the blob, and has a byte left for a NUL. *)
InBlob ==
    /\ out.buf
    /\ room = PnBytes(IF newline THEN len + 1 ELSE len)
    /\ Len(out.text) < room
    /\ pc = "write" => out.left = room - out.n /\ Len(out.text) <= out.n

(* What was measured and written of an element without anything unread. *)
Written ==
    Elem \in Elems /\ HasParams(Elem) =>
        /\ pc \in {"measure", "write"} => Counts(out.n, ElemPieces, done)
        /\ pc = "write" => /\ Counts(len, ElemPieces, Len(ElemPieces))
                           /\ Len(out.text) = out.n
        /\ pc \in {"string", "done"} =>
              /\ out.n = len
              /\ Len(out.text) = IF newline THEN len + 1 ELSE len
        /\ ~out.over

(* The inductive invariant. *)
PassesInv ==
    /\ pc \in {"measure", "write", "string", "done"}
    /\ newline \in BOOLEAN
    /\ done \in Nat /\ len \in Nat /\ room \in Nat /\ room % 4 = 0
    /\ out \in Writer
    /\ StackIs
    /\ pc = "measure" => ~out.buf
    /\ pc \in {"write", "string"} => InBlob
    /\ pc = "string" => newline
    /\ pc = "done" => (Len(stack) = 2 => InBlob) /\ (Len(stack) = 1 => ~out.buf)
    /\ stack # <<>> /\ (pc = "done" => Len(stack) = 2) => Written

(* Padding leaves room for a NUL behind the text and its newline. *)
LEMMA Words ==
    ASSUME NEW n \in Nat
    PROVE  PnBytes(n) \in Nat /\ PnBytes(n) % 4 = 0 /\ n < PnBytes(n)
BY DEF PnBytes

LEMMA Room ==
    ASSUME NEW n \in Nat, NEW b \in BOOLEAN
    PROVE  LET r == PnBytes(IF b THEN n + 1 ELSE n)
           IN  r \in Nat /\ r % 4 = 0 /\ n < r /\ (b => n + 1 < r)
<1>1. n + 1 \in Nat
  OBVIOUS
<1>2. CASE b
  BY <1>1, <1>2, Words
<1>3. CASE ~b
  BY <1>3, Words
<1> QED BY <1>2, <1>3

LEMMA NoChars == ASSUME NEW ps PROVE Counts(0, ps, 0)
<1>1. Chars(ps, 0) = {}
  BY DEF Chars
<1> QED BY <1>1, FS_EmptySet DEF Counts

(* One piece more. *)
LEMMA MoreChars ==
    ASSUME NEW ps, NEW k \in Nat, NEW n \in Nat, Counts(n, ps, k),
           Len(ps[k + 1].text) \in Nat
    PROVE  Counts(n + Len(ps[k + 1].text), ps, k + 1)
<1> DEFINE m == Len(ps[k + 1].text)
           new == {k + 1} \X (1 .. m)
<1>0. m \in Nat
  OBVIOUS
<1>1. Chars(ps, k + 1) = Chars(ps, k) \cup new
  <2>1. ASSUME NEW c PROVE c \in Chars(ps, k + 1) <=> c \in Chars(ps, k) \cup new
    <3>1. CASE c \in Chars(ps, k + 1)
      <4>1. c = <<c[1], c[2]>> /\ c[1] \in 1 .. k + 1 /\ c[2] \in Nat
            /\ c[2] \in 1 .. Len(ps[c[1]].text)
        BY <3>1 DEF Chars
      <4>2. CASE c[1] = k + 1
        <5>1. c[2] \in 1 .. m
          BY <4>1, <4>2
        <5> HIDE DEF m
        <5>2. <<c[1], c[2]>> \in new
          BY <4>2, <5>1
        <5> HIDE DEF new
        <5>3. c \in new
          BY <4>1, <5>2
        <5> QED BY <3>1, <5>3
      <4>3. CASE c[1] # k + 1
        <5>1. c[1] \in 1 .. k
          BY <4>1, <4>3
        <5> QED BY <4>1, <5>1 DEF Chars
      <4> QED BY <4>2, <4>3
    <3>2. CASE c \in Chars(ps, k)
      BY <3>2 DEF Chars
    <3>3. CASE c \in new
      BY <3>3 DEF Chars
    <3> QED BY <3>1, <3>2, <3>3
  <2> QED BY <2>1
<1>2. Chars(ps, k) \cap new = {}
  BY DEF Chars
<1>3. IsFiniteSet(new) /\ Cardinality(new) = m
  <2> HIDE DEF m
  <2>1. IsFiniteSet(1 .. m) /\ Cardinality(1 .. m) = m
    <3>1. 1 \in Int /\ m \in Int
      BY <1>0
    <3>2. IsFiniteSet(1 .. m) /\ Cardinality(1 .. m) = IF 1 > m THEN 0 ELSE m - 1 + 1
      BY <3>1, FS_Interval
    <3> QED BY <1>0, <3>2
  <2>2. IsFiniteSet({k + 1}) /\ Cardinality({k + 1}) = 1
    BY FS_Singleton
  <2>3. IsFiniteSet(new) /\ Cardinality(new) = 1 * m
    BY <2>1, <2>2, FS_Product
  <2> QED BY <1>0, <2>3
<1> HIDE DEF m, new
<1>4. IsFiniteSet(Chars(ps, k)) /\ Cardinality(Chars(ps, k)) = n
  BY DEF Counts
<1>5. /\ IsFiniteSet(Chars(ps, k) \cup new)
      /\ Cardinality(Chars(ps, k) \cup new) = n + m - 0
  BY <1>2, <1>3, <1>4, FS_Union, FS_EmptySet
<1>6. Counts(n + m, ps, k + 1)
  <2>1. n + m - 0 = n + m
    BY <1>0
  <2> QED BY <1>1, <1>5, <2>1 DEF Counts
<1> QED BY <1>6 DEF m

(* Not more are written than were measured. *)
LEMMA FewerChars ==
    ASSUME NEW ps, NEW k \in Nat, NEW l \in Nat, k <= l, NEW n, NEW m,
           Counts(n, ps, k), Counts(m, ps, l)
    PROVE  n <= m
<1>1. Chars(ps, k) \in SUBSET Chars(ps, l)
  BY DEF Chars
<1> QED BY <1>1, FS_Subset DEF Counts

(* A snprintf without a buffer, and with one. *)
LEMMA EmitWithout ==
    ASSUME NEW w \in Writer, NEW piece \in Text, ~w.buf
    PROVE  /\ Emit(w, piece) \in Writer /\ ~Emit(w, piece).buf
           /\ Emit(w, piece).n = w.n + Len(piece)
           /\ Emit(w, piece).over = w.over
<1>1. Len(piece) \in Nat
  BY DEF Text
<1> QED BY <1>1 DEF Emit, Writer

LEMMA EmitInto ==
    ASSUME NEW w \in Writer, NEW piece \in Text, w.buf
    PROVE  LET v == Emit(w, piece)
           IN  /\ v \in Writer /\ v.buf
               /\ v.n = w.n + Len(piece) /\ v.left = w.left - Len(piece)
               /\ v.over = (w.over \/ w.left < 0)
               /\ w.left <= 0 => v.text = w.text
               /\ 0 < w.left => Len(v.text) = Len(w.text) + (IF Len(piece) < w.left
                                              THEN Len(piece) ELSE w.left - 1)
<1> DEFINE n == Len(piece)
           fits == IF n < w.left THEN n ELSE w.left - 1
           text == IF w.left > 0 THEN w.text \o SubSeq(piece, 1, fits) ELSE w.text
           over == w.over \/ w.left < 0
           v == Emit(w, piece)
<1>1. n \in Nat /\ w.left \in Int /\ w.n \in Nat /\ w.text \in Text
      /\ w.over \in BOOLEAN
  BY DEF Text, Writer
<1>2. /\ text \in Text
      /\ w.left <= 0 => text = w.text
      /\ 0 < w.left => Len(text) = Len(w.text) + fits
  <2>1. CASE 0 < w.left
    <3>1. fits \in 0 .. n
      BY <1>1, <2>1
    <3>2. \A i \in 1 .. fits : piece[i] \in Alphabet
      BY <3>1, ElementOfSeq DEF Text
    <3> HIDE DEF fits
    <3>3. SubSeq(piece, 1, fits) \in Text /\ Len(SubSeq(piece, 1, fits)) = fits
      BY <3>1, <3>2, SubSeqProperties DEF Text
    <3>4. w.text \o SubSeq(piece, 1, fits) \in Text
          /\ Len(w.text \o SubSeq(piece, 1, fits)) = Len(w.text) + fits
      BY <1>1, <3>3, ConcatProperties DEF Text
    <3>5. text = w.text \o SubSeq(piece, 1, fits)
      BY <2>1
    <3>6. ~(w.left <= 0)
      BY <1>1, <2>1
    <3> QED BY <3>4, <3>5, <3>6
  <2>2. CASE ~(0 < w.left)
    BY <1>1, <2>2
  <2> QED BY <2>1, <2>2
<1>3. over \in BOOLEAN /\ w.n + n \in Nat /\ w.left - n \in Int
  BY <1>1
<1>4. v = [w EXCEPT !.n = @ + n, !.left = @ - n, !.text = text, !.over = over]
  BY DEF Emit
<1> HIDE DEF text, over
<1>5. v = [buf |-> w.buf, left |-> w.left - n, text |-> text, n |-> w.n + n,
           over |-> over]
  BY <1>4 DEF Writer
<1> HIDE DEF v
<1>6. v \in Writer /\ v.buf /\ v.n = w.n + n /\ v.left = w.left - n
      /\ v.over = over /\ v.text = text
  BY <1>2, <1>3, <1>5 DEF Writer
<1> QED BY <1>2, <1>6 DEF v, over


-----------------------------------------------------------------------------
(* The steps. *)
LEMMA PieceText ==
    ASSUME ArePieces, NEW e \in Elems, NEW k \in Nat, k < Len(Pieces[e])
    PROVE  /\ Pieces[e][k + 1].text \in Text
           /\ Len(Pieces[e][k + 1].text) \in Nat
           /\ k + 1 \in DOMAIN Pieces[e]
           /\ \A garbage \in Garbage :
                 /\ Read(Pieces[e][k + 1], garbage) \in Text
                 /\ ~Pieces[e][k + 1].unread =>
                       Read(Pieces[e][k + 1], garbage) = Pieces[e][k + 1].text
<1> DEFINE ps == Pieces[e]
<1>1. ps \in Seq([text : Text, unread : BOOLEAN])
  BY DEF ArePieces
<1> HIDE DEF ps
<1>2. k + 1 \in 1 .. Len(ps) /\ DOMAIN ps = 1 .. Len(ps)
  BY <1>1 DEF ps
<1>3. ps[k + 1] \in [text : Text, unread : BOOLEAN]
  BY <1>1, <1>2, ElementOfSeq
<1>4. ps[k + 1].text \in Text
  BY <1>3
<1>5. Len(ps[k + 1].text) \in Nat
  BY <1>4 DEF Text
<1>6. ASSUME NEW garbage \in Garbage
      PROVE  /\ Read(ps[k + 1], garbage) \in Text
             /\ ~ps[k + 1].unread => Read(ps[k + 1], garbage) = ps[k + 1].text
  <2>1. garbage \in Text
    BY DEF ArePieces
  <2>2. garbage \o ps[k + 1].text \in Text
    BY <1>4, <2>1, ConcatProperties DEF Text
  <2> QED BY <1>4, <2>2 DEF Read
<1> QED BY <1>2, <1>4, <1>5, <1>6 DEF ps

LEMMA OneLong ==
    ASSUME NEW e, stack = <<e>>
    PROVE  /\ Last(stack) = e /\ stack[1] = e /\ stack # <<>> /\ Len(stack) = 1
           /\ Elem = e /\ ElemPieces = Pieces[e]
BY DEF Last, Elem, ElemPieces

LEMMA InitPasses == ASSUME PrintInit PROVE PassesInv
<1>1. /\ out = NoBuffer /\ pc = "measure" /\ newline \in BOOLEAN
      /\ done = 0 /\ len = 0 /\ room = 0
      /\ stack = <<>> \/ \E e \in Elems : stack = <<e>>
  BY DEF PrintInit
<1>2. out \in Writer /\ ~out.buf /\ out.n = 0 /\ ~out.over
  <2>1. <<>> \in Text
    BY DEF Text
  <2> QED BY <1>1, <2>1 DEF NoBuffer, Writer
<1>3. Counts(0, ElemPieces, 0)
  BY NoChars
<1>4. Written
  BY <1>1, <1>2, <1>3 DEF Written
<1> QED BY <1>1, <1>2, <1>4 DEF PassesInv, StackIs

LEMMA NothingPasses == ASSUME PassesInv, FormatlnNothing PROVE PassesInv'
<1>1. pc = "measure" /\ pc' = "done" /\ Len(stack') = 1
      /\ \E x : stack' = <<x>>
  BY DEF FormatlnNothing
<1>2. newline' = newline /\ done' = done /\ len' = len /\ room' = room /\ out' = out
  BY DEF FormatlnNothing
<1> QED BY <1>1, <1>2 DEF PassesInv, StackIs, Writer

(* With room for all that was measured, no piece is cut. *)
LEMMA SnprintfPasses ==
    ASSUME ArePieces, PassesInv, Snprintf
    PROVE  PassesInv'
<1>1. PICK e \in Elems : stack = <<e>>
  BY DEF PassesInv, StackIs, Snprintf
<1>2. /\ pc \in {"measure", "write"} /\ done < Len(Pieces[e])
      /\ done' = done + 1 /\ pc' = pc /\ stack' = stack /\ newline' = newline
      /\ len' = len /\ room' = room
  BY <1>1, OneLong DEF Snprintf
<1>3. PICK garbage \in Garbage :
         out' = Emit(out, Read(Pieces[e][done + 1], garbage))
  BY <1>1, OneLong DEF Snprintf
<1> DEFINE text == Pieces[e][done + 1].text
           piece == Read(Pieces[e][done + 1], garbage)
<1>4. done \in Nat /\ out \in Writer /\ len \in Nat /\ room \in Nat /\ room % 4 = 0
  BY DEF PassesInv
<1>5. text \in Text /\ Len(text) \in Nat /\ piece \in Text
      /\ (HasParams(e) => piece = text)
  <2>1. done + 1 \in DOMAIN Pieces[e]
    BY <1>2, <1>4, PieceText
  <2>2. HasParams(e) => ~Pieces[e][done + 1].unread
    BY <2>1 DEF HasParams
  <2> QED BY <1>2, <1>4, <2>2, PieceText
<1> HIDE DEF text, piece
<1>6. out' = Emit(out, piece)
  BY <1>3 DEF piece
<1>7. Len(piece) \in Nat
  BY <1>5 DEF Text
<1>8. Counts(out.n, Pieces[e], done) /\ HasParams(e) =>
         Counts(out.n + Len(piece), Pieces[e], done + 1)
  <2> SUFFICES ASSUME Counts(out.n, Pieces[e], done), HasParams(e)
               PROVE  Counts(out.n + Len(piece), Pieces[e], done + 1)
    OBVIOUS
  <2>1. out.n \in Nat
    BY <1>4 DEF Writer
  <2>2. Counts(out.n + Len(text), Pieces[e], done + 1)
    BY <1>4, <1>5, <2>1, MoreChars DEF text
  <2> QED BY <1>5, <2>2
<1>9. HasParams(e)' = HasParams(e)
  BY DEF HasParams
<1>10. Elem = e /\ Elem' = e /\ ElemPieces = Pieces[e] /\ ElemPieces' = Pieces[e]
  BY <1>1, <1>2, OneLong DEF Elem, ElemPieces
<1>11. Written
  BY <1>1, <1>2, OneLong DEF PassesInv
<1>12. StackIs'
  BY <1>1, <1>2 DEF StackIs
<1>13. CASE pc = "measure"
  <2>1. ~out.buf
    BY <1>13 DEF PassesInv
  <2>2. out' \in Writer /\ ~out'.buf /\ out'.n = out.n + Len(piece)
        /\ out'.over = out.over
    BY <1>4, <1>5, <1>6, <2>1, EmitWithout
  <2>3. Written'
    BY <1>2, <1>8, <1>9, <1>10, <1>11, <1>13, <2>2 DEF Written
  <2> QED BY <1>2, <1>4, <1>12, <1>13, <2>2, <2>3 DEF PassesInv
<1>14. CASE pc = "write"
  <2>1. InBlob
    BY <1>14 DEF PassesInv
  <2>2. /\ out' \in Writer /\ out'.buf
        /\ out'.n = out.n + Len(piece) /\ out'.left = out.left - Len(piece)
        /\ out'.over = (out.over \/ out.left < 0)
        /\ out.left <= 0 => out'.text = out.text
        /\ 0 < out.left => Len(out'.text) = Len(out.text) + (IF Len(piece) < out.left
                                                 THEN Len(piece) ELSE out.left - 1)
    BY <1>4, <1>5, <1>6, <2>1, EmitInto DEF InBlob
  <2>3. /\ out.left \in Int /\ out.n \in Nat /\ Len(out.text) \in Nat
        /\ out.left = room - out.n /\ Len(out.text) <= out.n /\ Len(out.text) < room
        /\ room = PnBytes(IF newline THEN len + 1 ELSE len)
    BY <1>4, <1>14, <2>1 DEF InBlob, Writer, Text
  <2>4. InBlob'
    <3>1. Len(out'.text) < room /\ Len(out'.text) <= out'.n
          /\ out'.left = room - out'.n
      <4>1. CASE 0 < out.left
        <5>1. Len(out'.text) = Len(out.text) + (IF Len(piece) < out.left
                                                THEN Len(piece) ELSE out.left - 1)
              /\ out'.n = out.n + Len(piece) /\ out'.left = out.left - Len(piece)
          BY <2>2, <4>1
        <5> QED BY <1>4, <1>7, <2>3, <4>1, <5>1
      <4>2. CASE ~(0 < out.left)
        <5>1. out'.text = out.text
          BY <2>2, <2>3, <4>2
        <5>2. Len(out'.text) = Len(out.text)
          BY <5>1
        <5>3. out'.n = out.n + Len(piece) /\ out'.left = out.left - Len(piece)
          BY <2>2
        <5> QED BY <1>4, <1>7, <2>3, <5>2, <5>3
      <4> QED BY <4>1, <4>2
    <3> QED BY <1>2, <1>14, <2>2, <2>3, <3>1 DEF InBlob, PnBytes
  <2>5. ASSUME HasParams(e)
        PROVE  /\ Counts(out'.n, Pieces[e], done + 1)
               /\ Counts(len, Pieces[e], Len(Pieces[e]))
               /\ Len(out'.text) = out'.n
               /\ ~out'.over
    <3>1. /\ Counts(out.n, Pieces[e], done) /\ Counts(len, Pieces[e], Len(Pieces[e]))
          /\ Len(out.text) = out.n /\ ~out.over
      BY <1>10, <1>11, <1>14, <2>5 DEF Written
    <3>2. Counts(out'.n, Pieces[e], done + 1)
      BY <1>8, <2>2, <2>5, <3>1
    <3>3. Len(Pieces[e]) \in Nat /\ done + 1 <= Len(Pieces[e])
      BY <1>2, <1>4 DEF ArePieces
    <3>4. out'.n <= len
      BY <1>4, <3>1, <3>2, <3>3, FewerChars
    <3>5. len < room
      BY <1>4, <2>3, Room DEF PassesInv
    <3>6. Len(piece) < out.left /\ 0 < out.left
      <4>1. out'.n = out.n + Len(piece)
        BY <2>2
      <4> QED BY <1>4, <1>7, <2>3, <3>4, <3>5, <4>1
    <3>7. Len(out'.text) = Len(out.text) + Len(piece) /\ out'.n = out.n + Len(piece)
      BY <2>2, <3>6
    <3>8. ~out'.over
      <4>1. ~(out.left < 0)
        BY <2>3, <3>6
      <4> QED BY <2>2, <3>1, <4>1
    <3> QED BY <3>1, <3>2, <3>7, <3>8
  <2>6. Written'
    BY <1>2, <1>9, <1>10, <1>14, <2>5 DEF Written
  <2> QED BY <1>2, <1>4, <1>12, <1>14, <2>2, <2>4, <2>6 DEF PassesInv
<1> QED BY <1>2, <1>13, <1>14

LEMMA PushBlobPasses ==
    ASSUME ArePieces, PassesInv, PushBlob
    PROVE  PassesInv'
<1>1. PICK e \in Elems : stack = <<e>>
  BY DEF PassesInv, StackIs, PushBlob, AllPrinted
<1>2. /\ pc = "measure" /\ done = Len(Pieces[e]) /\ pc' = "write" /\ done' = 0
      /\ len' = out.n /\ room' = PnBytes(IF newline THEN len' + 1 ELSE len')
      /\ out' = Buffer(room') /\ stack' = stack /\ newline' = newline
  BY <1>1, OneLong DEF PushBlob, AllPrinted
<1>3. out \in Writer /\ newline \in BOOLEAN /\ out.n \in Nat
  BY DEF PassesInv, Writer
<1>4. len' \in Nat /\ room' \in Nat /\ room' % 4 = 0 /\ len' < room'
  BY <1>2, <1>3, Room
<1>5. out' = [buf |-> TRUE, left |-> room', text |-> <<>>, n |-> 0, over |-> FALSE]
  BY <1>2 DEF Buffer, NoBuffer
<1>6. out' \in Writer /\ out'.buf /\ out'.left = room' /\ out'.n = 0
      /\ out'.text = <<>> /\ ~out'.over
  <2>1. <<>> \in Text
    BY DEF Text
  <2> QED BY <1>4, <1>5, <2>1 DEF Writer
<1>7. InBlob'
  BY <1>2, <1>4, <1>6 DEF InBlob, PnBytes
<1>8. HasParams(e)' = HasParams(e)
  BY DEF HasParams
<1>9. Elem = e /\ Elem' = e /\ ElemPieces = Pieces[e] /\ ElemPieces' = Pieces[e]
  BY <1>1, <1>2, OneLong DEF Elem, ElemPieces
<1>10. Written'
  <2>1. Written
    BY <1>1, <1>2, OneLong DEF PassesInv
  <2>2. Counts(0, Pieces[e], 0)
    BY NoChars
  <2>3. HasParams(e) => Counts(out.n, Pieces[e], Len(Pieces[e]))
    BY <1>2, <1>9, <2>1 DEF Written
  <2> QED BY <1>2, <1>6, <1>8, <1>9, <2>2, <2>3 DEF Written
<1>11. StackIs'
  BY <1>1, <1>2 DEF StackIs
<1> QED BY <1>2, <1>3, <1>4, <1>6, <1>7, <1>10, <1>11 DEF PassesInv

LEMMA OneAndTwo ==
    ASSUME NEW x, NEW y
    PROVE  /\ Append(<<x>>, y) = <<x, y>>
           /\ Len(<<x>>) = 1 /\ Len(<<x, y>>) = 2
           /\ <<x, y>>[1] = x /\ <<x, y>> # <<>>
<1> DEFINE S == {x, y}
<1>1. Len(<<x>>) = 1
  OBVIOUS
<1>2. Len(<<x, y>>) = 2 /\ <<x, y>>[1] = x /\ <<x, y>>[2] = y
  OBVIOUS
<1>3. <<x>> \in Seq(S) /\ <<x, y>> \in Seq(S) /\ y \in S /\ <<x>>[1] = x
  OBVIOUS
<1>4. <<x, y>> # <<>>
  OBVIOUS
<1>5. Append(<<x>>, y) = <<x, y>>
  <2> DEFINE s == Append(<<x>>, y)
             t == <<x, y>>
  <2>1. s \in Seq(S) /\ Len(s) = 2 /\ s[1] = x /\ s[2] = y
    BY <1>1, <1>3, AppendProperties
  <2>2. t \in Seq(S) /\ Len(t) = 2 /\ t[1] = x /\ t[2] = y
    BY <1>2, <1>3
  <2> HIDE DEF s, t
  <2>3. \A i \in 1 .. Len(s) : s[i] = t[i]
    BY <2>1, <2>2
  <2>4. s = t
    BY <2>1, <2>2, <2>3, SeqEqual
  <2> QED BY <2>4 DEF s, t
<1> QED BY <1>1, <1>2, <1>4, <1>5

(* The newline comes behind what was measured, into the blob's last word. *)
LEMMA NewlinePasses ==
    ASSUME ArePieces, PassesInv, Newline
    PROVE  PassesInv'
<1>1. PICK e \in Elems : stack = <<e>>
  BY DEF PassesInv, StackIs, Newline, AllPrinted
<1> DEFINE text == out.text
           long == SubSeq(text, 1, len) \o <<"\n">> \o SubSeq(text, len + 2, Len(text))
<1>2. /\ pc = "write" /\ done = Len(Pieces[e]) /\ pc' = "string" /\ newline
      /\ stack' = stack /\ newline' = newline /\ done' = done /\ len' = len
      /\ room' = room
      /\ out' = [out EXCEPT !.text = IF Len(text) < len THEN text ELSE long]
  BY <1>1, OneLong DEF Newline, AllPrinted
<1>3. /\ out \in Writer /\ len \in Nat /\ room \in Nat /\ room % 4 = 0 /\ done \in Nat
      /\ text \in Text
      /\ newline \in BOOLEAN /\ Len(text) \in Nat
  BY DEF PassesInv, Writer, Text
<1>4. InBlob
  BY <1>2 DEF PassesInv
<1>5. len + 1 < room /\ Len(text) < room
  BY <1>2, <1>3, <1>4, Room DEF InBlob
<1>6. CASE Len(text) < len
  <2>1. out' = out
    BY <1>2, <1>3, <1>6 DEF Writer
  <2>2. InBlob'
    BY <1>2, <1>4, <2>1 DEF InBlob, PnBytes
  <2>3. ~HasParams(e)
    <3> SUFFICES ASSUME HasParams(e) PROVE FALSE
      OBVIOUS
    <3>1. Counts(out.n, Pieces[e], Len(Pieces[e])) /\ Counts(len, Pieces[e], Len(Pieces[e]))
          /\ Len(out.text) = out.n
      BY <1>1, <1>2, OneLong DEF PassesInv, Written
    <3>2. out.n = len
      BY <3>1 DEF Counts
    <3> QED BY <1>3, <1>6, <3>1, <3>2
  <2>4. Written'
    BY <1>1, <1>2, <2>3, OneLong DEF Written, HasParams, Elem
  <2>5. StackIs'
    BY <1>1, <1>2 DEF StackIs
  <2> QED BY <1>2, <1>3, <2>1, <2>2, <2>4, <2>5 DEF PassesInv
<1>7. CASE ~(Len(text) < len)
  <2>1. long \in Text
        /\ Len(long) = len + 1 + (IF len + 2 <= Len(text) THEN Len(text) - len - 1 ELSE 0)
    <3>1. \A i \in 1 .. Len(text) : text[i] \in Alphabet
      BY <1>3, ElementOfSeq DEF Text
    <3>2. SubSeq(text, 1, len) \in Text /\ Len(SubSeq(text, 1, len)) = len
      <4>1. \A i \in 1 .. len : text[i] \in Alphabet
        BY <1>3, <1>7, <3>1
      <4> HIDE DEF text
      <4> QED BY <1>3, <4>1, SubSeqProperties DEF Text
    <3>3. SubSeq(text, len + 2, Len(text)) \in Text
          /\ Len(SubSeq(text, len + 2, Len(text)))
                = IF len + 2 <= Len(text) THEN Len(text) - len - 1 ELSE 0
      <4>1. \A i \in len + 2 .. Len(text) : text[i] \in Alphabet
        BY <1>3, <3>1
      <4> HIDE DEF text
      <4> QED BY <1>3, <4>1, SubSeqProperties DEF Text
    <3>4. <<"\n">> \in Text /\ Len(<<"\n">>) = 1
      <4>1. "\n" \in Alphabet
        BY DEF ArePieces
      <4> QED BY <4>1 DEF Text
    <3> DEFINE before == SubSeq(text, 1, len)
               behind == SubSeq(text, len + 2, Len(text))
    <3> HIDE DEF text, before, behind
    <3>5. before \o <<"\n">> \in Text /\ Len(before \o <<"\n">>) = len + 1
      BY <3>2, <3>4, ConcatProperties DEF Text, before
    <3>6. before \o <<"\n">> \o behind \in Text
          /\ Len(before \o <<"\n">> \o behind) = len + 1 + Len(behind)
      BY <3>3, <3>5, ConcatProperties DEF Text, behind
    <3> QED BY <3>3, <3>6 DEF before, behind
  <2> HIDE DEF long
  <2>2. out' \in Writer /\ out'.buf = out.buf /\ out'.n = out.n
        /\ out'.text = long /\ out'.over = out.over
    BY <1>2, <1>3, <1>7, <2>1 DEF Writer
  <2>3. Len(out'.text) < room
    <3>1. Len(out'.text) = Len(long)
      BY <2>2
    <3> DEFINE l == Len(text)
    <3>2. l \in Nat /\ len \in Nat /\ room \in Nat /\ len + 1 < room /\ l < room
          /\ Len(long) = len + 1 + (IF len + 2 <= l THEN l - len - 1 ELSE 0)
      BY <1>3, <1>5, <2>1
    <3> HIDE DEF l
    <3>3. Len(long) < room
      BY <3>2
    <3> QED BY <3>1, <3>3
  <2>4. InBlob'
    BY <1>2, <1>4, <2>2, <2>3 DEF InBlob, PnBytes
  <2>5. ASSUME HasParams(e)
        PROVE  out'.n = len /\ Len(out'.text) = len + 1 /\ ~out'.over
    <3>1. Counts(out.n, Pieces[e], Len(Pieces[e])) /\ Counts(len, Pieces[e], Len(Pieces[e]))
          /\ Len(out.text) = out.n /\ ~out.over
      BY <1>1, <1>2, <2>5, OneLong DEF PassesInv, Written
    <3>2. out.n = len
      BY <3>1 DEF Counts
    <3> QED BY <1>3, <2>1, <2>2, <3>1, <3>2
  <2>6. Written'
    BY <1>1, <1>2, <2>5, OneLong DEF Written, HasParams, Elem
  <2>7. StackIs'
    BY <1>1, <1>2 DEF StackIs
  <2> QED BY <1>2, <1>3, <2>2, <2>4, <2>6, <2>7 DEF PassesInv
<1> QED BY <1>6, <1>7

LEMMA StringPasses ==
    ASSUME ArePieces, PassesInv, BlobToString
    PROVE  PassesInv'
<1>1. PICK e \in Elems : stack = <<e>>
  BY DEF PassesInv, StackIs, BlobToString
<1>2. /\ pc \in {"write", "string"} /\ pc' = "done"
      /\ pc = "write" => done = Len(Pieces[e]) /\ ~newline
      /\ stack' = Append(stack, String(out.text)) /\ newline' = newline
      /\ done' = done /\ len' = len /\ room' = room /\ out' = out
  BY <1>1, OneLong DEF BlobToString, AllPrinted
<1>3. stack' = <<e, String(out.text)>> /\ Len(stack') = 2 /\ stack'[1] = e
      /\ stack' # <<>>
  BY <1>1, <1>2, OneAndTwo
<1>4. /\ out \in Writer /\ len \in Nat /\ room \in Nat /\ room % 4 = 0 /\ done \in Nat
      /\ newline \in BOOLEAN /\ InBlob
  BY <1>2 DEF PassesInv
<1>5. InBlob'
  BY <1>2, <1>4 DEF InBlob, PnBytes
<1>6. ASSUME HasParams(e)
      PROVE  /\ out.n = len /\ ~out.over
             /\ Len(out.text) = IF newline THEN len + 1 ELSE len
  <2>1. Written /\ Elem = e /\ ElemPieces = Pieces[e]
    BY <1>1, <1>2, OneLong DEF PassesInv
  <2>2. CASE pc = "write"
    <3>1. Counts(out.n, Pieces[e], Len(Pieces[e])) /\ Counts(len, Pieces[e], Len(Pieces[e]))
          /\ Len(out.text) = out.n /\ ~out.over /\ ~newline
      BY <1>2, <1>6, <2>1, <2>2 DEF Written
    <3>2. out.n = len
      BY <3>1 DEF Counts
    <3> QED BY <3>1, <3>2
  <2>3. CASE pc = "string"
    BY <1>6, <2>1, <2>3 DEF Written
  <2> QED BY <1>2, <2>2, <2>3
<1>7. Written'
  BY <1>2, <1>3, <1>6 DEF Written, HasParams, Elem
<1>8. StackIs'
  BY <1>2, <1>3 DEF StackIs
<1> QED BY <1>2, <1>3, <1>4, <1>5, <1>7, <1>8 DEF PassesInv

LEMMA StutterPasses == ASSUME PassesInv, UNCHANGED printVars PROVE PassesInv'
<1>1. /\ stack' = stack /\ newline' = newline /\ pc' = pc /\ done' = done /\ len' = len
      /\ room' = room /\ out' = out
  BY DEF printVars
<1>2. StackIs' /\ (InBlob' <=> InBlob)
  BY <1>1 DEF PassesInv, StackIs, InBlob, PnBytes
<1>3. Elem' = Elem /\ ElemPieces' = ElemPieces
      /\ HasParams(Elem)' = HasParams(Elem)
  BY <1>1 DEF Elem, ElemPieces, HasParams
<1>4. Written' <=> Written
  BY <1>1, <1>3 DEF Written
<1> QED BY <1>1, <1>2, <1>4 DEF PassesInv

LEMMA NextPasses ==
    ASSUME ArePieces, PassesInv, [PrintNext]_printVars
    PROVE  PassesInv'
<1>1. CASE FormatlnNothing
  BY <1>1, NothingPasses
<1>2. CASE Snprintf
  BY <1>2, SnprintfPasses
<1>3. CASE PushBlob
  BY <1>3, PushBlobPasses
<1>4. CASE Newline
  BY <1>4, NewlinePasses
<1>5. CASE BlobToString
  BY <1>5, StringPasses
<1>6. CASE UNCHANGED printVars
  BY <1>6, StutterPasses
<1> QED BY <1>1, <1>2, <1>3, <1>4, <1>5, <1>6 DEF PrintNext, Done

LEMMA PassesType == PassesInv => PrintTypeOK
<1> SUFFICES ASSUME PassesInv PROVE PrintTypeOK
  OBVIOUS
<1>1. Len(stack) \in 0 .. 2
  <2>1. /\ Len(<<>>) = 0
        /\ \A x : Len(<<x>>) = 1
        /\ \A x, y : Len(<<x, y>>) = 2
    BY OneAndTwo
  <2>2. \/ stack = <<>>
        \/ \E x : stack = <<x>>
        \/ \E x, y : stack = <<x, y>>
    BY DEF PassesInv, StackIs
  <2> QED BY <2>1, <2>2
<1>2. out.buf => InBlob
  <2>1. pc = "done" => Len(stack) = 1 \/ Len(stack) = 2
    BY OneAndTwo DEF PassesInv, StackIs
  <2> QED BY <2>1 DEF PassesInv
<1> QED BY <1>1, <1>2 DEF PassesInv, PrintTypeOK, InBlob

LEMMA PassesAgree == PassesInv => StringFillsBlob
<1> SUFFICES ASSUME PassesInv, pc = "done", Len(stack) = 2, HasParams(stack[1])
             PROVE  ~out.over /\ out.n = len /\ room = PnBytes(Len(out.text))
  BY DEF StringFillsBlob
<1>1. InBlob /\ stack # <<>>
  BY DEF PassesInv
<1>2. stack[1] \in Elems
  BY DEF PassesInv, StackIs
<1> QED BY <1>1, <1>2 DEF PassesInv, Written, Elem, InBlob

(* oscript_format and oscript_formatln, of any texts: whatever either pass *)
(* reads, what is in the blob ends with a NUL in the blob.                 *)
THEOREM PassesTypeCorrect == PrintSpec => []PrintTypeOK
<1>1. PrintInit => PassesInv
  BY InitPasses
<1>2. PassesInv /\ [PrintNext]_printVars => PassesInv'
  BY PiecesAssumption, NextPasses
<1> QED BY <1>1, <1>2, PassesType, PTL DEF PrintSpec

(* For every element whose lambdas have parameters, however deeply it is   *)
(* nested and however long its text, both passes advance alike: nothing is *)
(* cut, nothing is written behind the blob, and the blob is a string's.    *)
THEOREM PassesMatch == PrintSpec => []StringFillsBlob
<1>1. PrintInit => PassesInv
  BY InitPasses
<1>2. PassesInv /\ [PrintNext]_printVars => PassesInv'
  BY PiecesAssumption, NextPasses
<1> QED BY <1>1, <1>2, PassesAgree, PTL DEF PrintSpec
=============================================================================
