SPECIFICATION Spec
CONSTANTS
    NoProc = NoProc
    NoValue = NoValue
    Writer = {p1, p2}
    Remover = {p1, p2}
    Removal = {"any", "low"}
    Field = {k1}
    MaxRow = 3
    MaxGrid = 3
    MaxVersion = 2
    Numbering = "auto"
    Sharing = FALSE
SYMMETRY Symmetry
CHECK_DEADLOCK FALSE
INVARIANT TypeOK
INVARIANT LatestIsHighest
INVARIANT NoLeakedGrid
