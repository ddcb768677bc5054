CONSTANTS
    ArgSeqs <- MCArgSeqs
    Cwd = "cwd"
    SpecDirs <- MCSpecDirs
    NameOrder <- MCNameOrder
    Argv0s <- MCArgv0s
    TfDirs <- UnopenableTfDirs
SPECIFICATION Spec
INVARIANTS
    DelegatesVerbatim
CHECK_DEADLOCK FALSE
