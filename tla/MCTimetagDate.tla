--------------------------- MODULE MCTimetagDate ---------------------------
(* The first and the last days of every year of the 32 bit clock and the   *)
(* ends of its first two months, at midnight and late in the evening, and  *)
(* the last second of the clock.                                           *)
EXTENDS TimetagDate

DaysOfInterest ==
    {DaysBefore(y) + d : y \in 1900..2035, d \in {0, 1, 30, 31, 58, 59, 60, 364}}
    \union {DaysBefore(y) - 1 : y \in 1901..2036}

MCTimetags ==
    {t \in [days : DaysOfInterest, secs : {0, 80000}] : t.days < WrapDays}
    \union {[days |-> WrapDays, secs |-> WrapSecs - 1]}

LeapYearsLastDay == {[days |-> DaysBefore(2025) - 1, secs |-> 43200]}
=============================================================================
