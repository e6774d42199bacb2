SPECIFICATION Spec
CONSTANTS
    Client = {w1}
    Cleaner = {c1}
    Reader = {}
    NoProc = NoProc
    MaxId = 1
    Leftover <- NoFiles
    Timely = TRUE
    Strategies = FALSE
    CleanerAborts = FALSE
    FlushFails = FALSE
INVARIANT FinalNameIsWhole
