CONSTANTS
    Modules <- MainTfModules
    FileOrder <- MCFileOrder
    ExprLib <- MainTfExprs
    Envs <- MCEnvs
INIT Init
NEXT Next
INVARIANT MainTfFaithful
CHECK_DEADLOCK FALSE
