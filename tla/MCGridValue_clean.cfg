SPECIFICATION Spec
CONSTANTS
    NoProc = NoProc
    NoValue = NoValue
    Writer = {p1}
    Remover = {c1}
    Removal = {"low"}
    Field = {k1}
    MaxRow = 2
    MaxGrid = 2
    MaxVersion = 1
    Numbering = "auto"
    Sharing = FALSE
SYMMETRY Symmetry
CHECK_DEADLOCK FALSE
PROPERTY LatestLives
