---------------------------- MODULE TimetagDate ----------------------------
(***************************************************************************)
(* The date oscript_print.c prints for a timetag, from the 32 bits of      *)
(* seconds that elapsed since 1900-01-01T00:00.  The loops on the unsigned *)
(* seconds keep their width: 2^32 seconds are 49710 days and 23296         *)
(* seconds, and a number of seconds is the days and the rest in it.        *)
(***************************************************************************)
EXTENDS Integers, FiniteSets

CONSTANT Timetags        \* seconds since the epoch, as days and seconds

SecsPerDay == 86400
WrapDays == 49710
WrapSecs == 23296

Seconds == [days : 0..WrapDays, secs : 0..(SecsPerDay - 1)]

(* The clock has 32 bits. *)
ASSUME TimetagsAssumption ==
    \A t \in Timetags : /\ t \in Seconds
                        /\ t.days = WrapDays => t.secs < WrapSecs

VARIABLES timetag,       \* what is printed
          left,          \* secs: the seconds not yet accounted for
          year,          \* years counted so far, from 0
          date           \* what is printed for it, in the end

vars == <<timetag, left, year, date>>

None == [year |-> 0, month |-> 0, day |-> 0, secs |-> 0]

Init ==
    /\ timetag \in Timetags
    /\ left = timetag
    /\ year = 0
    /\ date = None

-----------------------------------------------------------------------------
(* "year mod 400 = 0, or year mod 4 = 0 and year mod 100 # 0", by loops    *)
(* that subtract until nothing positive is left.                           *)
IsLeap(y) == y % 400 = 0 \/ (y % 4 = 0 /\ y % 100 # 0)

(* Unsigned subtraction of n days. *)
MinusDays(s, n) ==
    IF s.days >= n THEN [s EXCEPT !.days = @ - n]
    ELSE LET secs == s.secs + WrapSecs
         IN  [days |-> s.days - n + WrapDays + secs \div SecsPerDay,
              secs |-> secs % SecsPerDay]

(* getmonth: the last days of the months of a year. *)
LastDays(leap) ==
    LET plain == <<31, 59, 90, 120, 151, 181, 212, 243, 273, 304, 334, 365>>
    IN  [m \in 1..12 |-> IF leap /\ m > 1 THEN plain[m] + 1 ELSE plain[m]]

(* A variant: a month ends a day early. *)
MonthOfEarly(day, leap) ==
    LET ends == LastDays(leap)
    IN  IF day >= ends[12] THEN 12
        ELSE CHOOSE m \in 1..12 : /\ day < ends[m]
                                  /\ \A n \in 1..(m - 1) : day >= ends[n]

(* The month a day of the year falls in, 0 if there is none. *)
MonthOf(day, leap) ==
    LET ends == LastDays(leap)
    IN  IF day > ends[12] THEN 0
        ELSE CHOOSE m \in 1..12 : /\ day <= ends[m]
                                  /\ \A n \in 1..(m - 1) : day > ends[n]

DayOfMonth(day, leap) ==
    LET m == MonthOf(day, leap)
    IN  IF m <= 1 THEN day ELSE day - LastDays(leap)[m - 1]

-----------------------------------------------------------------------------
(* A variant: a year must be exceeded to be counted. *)
MoreThanAYear == left.days > 365

(* secs >= SEC_PER_YEAR: another year to count. *)
AnotherYear == left.days >= 365

(* A variant of the next action: a leap year is counted only if its leap   *)
(* day can be subtracted.                                                  *)
YearElapsesIfLeapDay ==
    /\ date = None
    /\ AnotherYear
    /\ IF IsLeap(year)
       THEN IF left.days > 365
            THEN left' = MinusDays(left, 366) /\ year' = year + 1
            ELSE UNCHANGED <<left, year>>
       ELSE left' = MinusDays(left, 365) /\ year' = year + 1
    /\ UNCHANGED <<timetag, date>>

(* A turn of the loop that counts the years; a leap day is subtracted for  *)
(* a year counted from the epoch, not from the year 0.                     *)
YearElapses ==
    /\ date = None
    /\ AnotherYear
    /\ left' = LET rest == MinusDays(left, 365)
               IN  IF IsLeap(year) THEN MinusDays(rest, 1) ELSE rest
    /\ year' = year + 1
    /\ UNCHANGED <<timetag, date>>

(* What is left is less than a year: the day, and the time of the day. *)
Format ==
    /\ date = None
    /\ ~AnotherYear
    /\ LET y == year + 1900
           day == left.days + 1
       IN  date' = [year |-> y, month |-> MonthOf(day, IsLeap(y)),
                    day |-> DayOfMonth(day, IsLeap(y)), secs |-> left.secs]
    /\ UNCHANGED <<timetag, left, year>>

Printed == date # None /\ UNCHANGED vars

Next == YearElapses \/ Format \/ Printed

(* The loops run until they are done. *)
Spec == Init /\ [][Next]_vars /\ WF_vars(YearElapses \/ Format)

-----------------------------------------------------------------------------
(* The Gregorian calendar, from the day count and nothing else. *)
DaysBefore(y) ==
    365 * (y - 1900) + Cardinality({l \in 1900..(y - 1) : IsLeap(l)})

CivilYear(days) ==
    CHOOSE y \in 1900..2036 : DaysBefore(y) <= days /\ days < DaysBefore(y + 1)

MonthLength(y, m) ==
    IF m = 2 THEN (IF IsLeap(y) THEN 29 ELSE 28)
    ELSE IF m \in {4, 6, 9, 11} THEN 30 ELSE 31

(* A date is so many days after the first of January. *)
DayOfYear(y, m, d) ==
    LET f[n \in 0..11] == IF n = 0 THEN 0 ELSE f[n - 1] + MonthLength(y, n)
    IN  f[m - 1] + d

IsCivilDate(d, t) ==
    /\ d.year = CivilYear(t.days)
    /\ d.month \in 1..12
    /\ d.day \in 1..MonthLength(d.year, d.month)
    /\ DaysBefore(d.year) + DayOfYear(d.year, d.month, d.day) - 1 = t.days
    /\ d.secs = t.secs

(* The loop takes 1900 for a leap year and 2000 for none, and in the last  *)
(* 24 hours of a leap year there is no leap day left to subtract.          *)
InReach(t) ==
    LET y == CivilYear(t.days)
    IN  y \notin 1901..2000 /\ ~(IsLeap(y) /\ t.days = DaysBefore(y + 1) - 1)

TypeOK ==
    /\ left \in Seconds
    /\ year \in 0..(2 * 136 + 1)
    /\ date = None \/ date.month \in 1..12

(* The date printed is the date and time of the timetag, for 1900 and from *)
(* 2001 on, except on the last day of a leap year.                         *)
DateInReach == date # None /\ InReach(timetag) => IsCivilDate(date, timetag)

(* The loop that counts the years ends, even where the seconds wrap.       *)
Terminates == <>(date # None)

(* "determine # years elapse since epoch" (oscript_print.c:287): whatever  *)
(* the timetag, the date printed is its date.                              *)
DateAlways == date # None => IsCivilDate(date, timetag)
=============================================================================
