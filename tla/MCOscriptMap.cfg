CONSTANTS
    Arguments <- MCArguments
    RowSets <- MCRowSets
    MaxDepth = 3
SPECIFICATION Spec
INVARIANTS
    TypeOK
    MapRestFindsState
    OnlyResultsLeft
PROPERTIES
    ImplementsZipMap
    Terminates
