CONSTANTS
    Modules <- MCModules
    FileOrder <- MCFileOrder
    ExprLib <- PassExprs
    Envs <- MCEnvs
INIT Init
NEXT Next
INVARIANTS
    TypeOK
    BodiesKept
    PrintedMeansOneThing
CHECK_DEADLOCK FALSE
