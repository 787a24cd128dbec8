CONSTANTS
    Arguments <- OnlyMessage
    MaxDepth = 1
SPECIFICATION Spec
INVARIANTS
    MessageIsWrapped
