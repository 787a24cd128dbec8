CONSTANTS
    Data <- MCData
    Values <- MCValues
    Arguments <- MCArguments
    MaxStack = 2
SPECIFICATION Spec
INVARIANTS
    TypeOK
PROPERTIES
    ReplacesArguments
    SortsByIntegerPart
    IndexesSort
    ErrorsMove
CHECK_DEADLOCK FALSE
