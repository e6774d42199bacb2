SPECIFICATION Spec
CONSTANTS
    NoProc = NoProc
    NoValue = NoValue
    Writer = {p1, p2}
    Remover = {}
    Removal = {}
    Field = {k1}
    MaxRow = 3
    MaxGrid = 3
    MaxVersion = 2
    Numbering = "ascending"
    Sharing = FALSE
SYMMETRY Symmetry
CHECK_DEADLOCK FALSE
INVARIANT LatestIsHighest
