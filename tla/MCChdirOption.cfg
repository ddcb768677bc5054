CONSTANTS
    ArgSeqs <- MCArgSeqs
    Cwd = "cwd"
    SpecDirs <- MCSpecDirs
    NameOrder <- MCNameOrder
    Argv0s <- MCArgv0s
    TfDirs <- MCTfDirs
SPECIFICATION Spec
INVARIANTS
    ExtractMatchesReference
    LoadMatchesSpec
    TfLoadMatchesReference
CHECK_DEADLOCK FALSE
PROPERTIES
    SetupEnds
