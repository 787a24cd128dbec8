CONSTANTS
    Syntax <- MCSyntax
    Depth <- MCDepth
    Trees <- MCTrees
    Stacks <- MCStacks
SPECIFICATION Spec
INVARIANTS
    TypeOK
    BelowUntouched
    OneElementEach
CHECK_DEADLOCK FALSE
