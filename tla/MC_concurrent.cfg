CONSTANTS
    Procs     = {p1, p2}
    Entries   <- MCEntries
    TopOrder  <- MCTopOrder
    TapFiles  <- MCTapFiles
    UserFiles <- MCUserFiles
    TfWrites  <- MCTfWrites
    MaxClock  = 4
SPECIFICATION Spec
INVARIANT StagingCurrent
