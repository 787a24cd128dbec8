CONSTANTS
    Arguments <- OnlyEmpty
    MaxDepth = 1
SPECIFICATION Spec
INVARIANTS
    AppliedToItems
