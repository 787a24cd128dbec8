CONSTANTS
    Timetags <- LeapYearsLastDay
SPECIFICATION Spec
INVARIANTS
    DateAlways
