SPECIFICATION Spec
CONSTANTS
    Client = {w1, w2}
    Cleaner = {c1}
    Reader = {r1}
    NoProc = NoProc
    MaxId = 2
    Leftover <- NoFiles
    Timely = TRUE
    Strategies = FALSE
    CleanerAborts = TRUE
    FlushFails = FALSE
SYMMETRY Symmetry
INVARIANT TypeOK
INVARIANT ActiveHasFile
INVARIANT ReaderSeesWhole
PROPERTY ScanRemovesOnlyOrphans
PROPERTY ScanSparesYoung
PROPERTY AbortedDropKeepsFile
PROPERTY StorePromise
