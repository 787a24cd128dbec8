CONSTANTS
    Cap = 256
    Total = 512
    AddressLens = {4, 51, 52}
    Below = {0, 1}
    Layouts <- MCLayouts
SPECIFICATION Spec
INVARIANT AddressAtEndOfMessage
