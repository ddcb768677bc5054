CONSTANTS
    Procs     = {p1}
    Entries   <- MCEntries
    TopOrder  <- MCTopOrder
    TapFiles  <- MCTapFiles
    UserFiles <- MCUserFiles
    TfWrites  <- MCTfWrites
    MaxClock  = 7
SPECIFICATION Spec
INVARIANTS
    TypeOK
    RootStateKept
    StagingCurrent
