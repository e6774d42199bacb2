SPECIFICATION Spec
CONSTANTS
    NoProc = NoProc
    NoValue = NoValue
    Writer = {p1}
    Remover = {p1}
    Removal = {"any", "low"}
    Field = {k1, k2}
    MaxRow = 3
    MaxGrid = 2
    MaxVersion = 1
    Numbering = "any"
    Sharing = TRUE
SYMMETRY Symmetry
CHECK_DEADLOCK FALSE
INVARIANT NoDanglingValue
INVARIANT AtMostOneSelected
