CONSTANTS
    Res <- ManagedRes
    Ops <- EngineOps
    Selectors <- EngineSelectors
    IntSeg <- MCIntSeg
    PathSyntax = "json_pointer"
    MaxOps = 2
SPECIFICATION Spec
INVARIANTS
    TypeOK
    AddRemoveInverse
    PathsFollowRFC
PROPERTIES
    AddMonotone
CHECK_DEADLOCK FALSE
