CONSTANTS
    Cap = 256
    Total = 512
    AddressLens = {0, 1, 3, 4, 7, 8, 15, 24, 27, 28, 31, 32, 34, 40, 48, 51, 52, 55, 56, 60}
    Below = {0, 1, 2}
    Layouts <- MCLayouts
SPECIFICATION Spec
INVARIANTS
    TypeOK
    Prepared
    CleanBehind
    OthersIntact
    IsPrepareNext
