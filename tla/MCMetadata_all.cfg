SPECIFICATION MCSpec
CONSTANTS
    ProviderName = {n1, n2, n3}
    Day = {d1, d2}
    Namespace = {k1}
    ProviderNamespace = {k1}
    MaxId = 4
    MaxSet = 12
    Grouping = "flat"
    NoProc = NoProc
    Backend = {p1, p2}
    Source = {x1, x2}
    NoRow = NoRow
    MaxCopy = 6
    Role = {login, reader, writer, stranger}
    Login = login
    Granted = {login, reader, writer}
    Name = {m1, m2}
    Geometry = {f1, f2}
    NoGeometry = NoGeometry
    NoUser = NoUser
    Blocks = TRUE
    Renames = "new"
SYMMETRY Symmetry
CHECK_DEADLOCK FALSE
INVARIANT TypesAreRight
INVARIANT GroupsAreRight
INVARIANT SetsAreNested
INVARIANT ViewIsComplete
INVARIANT ViewIsExact
INVARIANT NameIsCurrent
PROPERTY StatementsKeepRole
