CONSTANTS
    b1 = b1
    b2 = b2
    BEG = BEG
    END = END
    MaxDepth = 3
    MaxEnv = 4
    Binding <- MCBinding
    Files <- MCFiles
SPECIFICATION Spec
INVARIANTS
    TypeOK
    Brackets
    NoSemaphoreEscapes
PROPERTIES
    ImplementsScopes
