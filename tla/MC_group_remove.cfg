CONSTANTS
    Res <- MCRes
    Ops <- GroupRemoveOps
    Selectors <- StrictSelectors
    IntSeg <- MCIntSeg
    PathSyntax = "json_pointer"
    MaxOps = 2
SPECIFICATION Spec
PROPERTIES
    RemoveIndexRemovesOne
CHECK_DEADLOCK FALSE
