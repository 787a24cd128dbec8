CONSTANTS
    Timetags <- MCTimetags
SPECIFICATION Spec
INVARIANTS
    TypeOK
    DateInReach
PROPERTIES
    Terminates
