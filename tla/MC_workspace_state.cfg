CONSTANTS
    Procs     = {p1}
    Entries   <- MCEntries
    TopOrder  <- MCTopOrder
    TapFiles  <- MCTapFiles
    UserFiles <- MCUserFiles
    TfWrites  <- MCAllTfWrites
    MaxClock  = 5
SPECIFICATION Spec
INVARIANTS
    StateKept
