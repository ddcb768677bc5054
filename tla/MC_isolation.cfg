CONSTANTS
    Res <- MCRes
    Ops <- SharedValueOps
    Selectors <- StrictSelectors
    IntSeg <- MCIntSeg
    PathSyntax = "json_pointer"
    MaxOps = 2
SPECIFICATION Spec
PROPERTIES
    Isolation
CHECK_DEADLOCK FALSE
