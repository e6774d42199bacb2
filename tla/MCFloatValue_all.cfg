SPECIFICATION Spec
CONSTANTS
    NoProc = NoProc
    Writer = {p1, p2}
    Remover = {p1, p2}
    Removal = {"any", "low"}
    RefTime = {t1}
    MaxVersion = 2
    Numbering = "auto"
SYMMETRY Symmetry
CHECK_DEADLOCK FALSE
INVARIANT TypeOK
INVARIANT LatestIsHighest
INVARIANT ItemHasGroup
