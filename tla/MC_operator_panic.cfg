CONSTANTS
    Res <- MCRes
    Ops <- NegativeIndexOps
    Selectors <- StrictSelectors
    IntSeg <- MCIntSeg
    PathSyntax = "json_pointer"
    MaxOps = 2
SPECIFICATION Spec
INVARIANTS
    NoPanic
CHECK_DEADLOCK FALSE
