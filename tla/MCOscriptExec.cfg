CONSTANTS
    Syntax <- MCSyntax
    Programs <- MCPrograms
    Env0 <- MCEnv0
    ParsedFile <- MCParsedFile
    ContextNames <- MCContextNames
SPECIFICATION Spec
INVARIANTS
    TypeOK
    OperandsFound
    FinalizerSeesAddress
    NoSemaphoreInValue
    CleanReturn
    ResultIsEval
PROPERTIES
    ImplementsFrames
    Terminates
