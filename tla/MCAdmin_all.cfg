SPECIFICATION MCSpec
CONSTANTS
    NoProc = NoProc
    Admin = {p1, p2}
    User = {"u1"}
    Right = {"read", "write"}
    Attempts = 2
    Typed <- MCTyped
    Given = {{}, {"database", "bad port"}, {"user", "port"}}
    Environment = {{}, {"USER"}, {"PGDATABASE", "PGUSER", "USER", "PGPORT"}}
    Missing = Missing
    Malformed = Malformed
SYMMETRY Symmetry
CHECK_DEADLOCK FALSE
INVARIANT SettingsAreFirstGiven
PROPERTY RightsAreAsAsked
