SPECIFICATION FairSpec
CONSTANTS
    Client = {w1}
    Cleaner = {c1}
    Reader = {r1}
    NoProc = NoProc
    MaxId = 2
    Leftover <- FirstFile
    Timely = FALSE
    Strategies = TRUE
    CleanerAborts = FALSE
    FlushFails = TRUE
PROPERTY OrphansAreRemoved
PROPERTY DroppedAreVacuumed
INVARIANT NoForeignData
