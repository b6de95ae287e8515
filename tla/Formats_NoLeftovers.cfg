SPECIFICATION MCSpec
CONSTANTS
    NoText = NoText
    MaxJoins = 1
    Written <- MCWritten
    Leases <- MCLeases
    References <- MCReferences
    IncludeNestLimit = 2
    MaxLines = 5
    MaxFiles = 2
    MaxLen = 6
    MaxStatements = 4
    SourceDepth = 2
INVARIANT NoLeftovers
CHECK_DEADLOCK FALSE
