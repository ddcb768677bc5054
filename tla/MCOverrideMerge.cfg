CONSTANTS
    Managed = {"m1", "m2"}
    Data    = {"d1"}
    Configs <- MCConfigs
SPECIFICATION Spec
INVARIANTS
    TypeOK
    LastLayerWins
PROPERTIES
    LoadSpec
CHECK_DEADLOCK FALSE
