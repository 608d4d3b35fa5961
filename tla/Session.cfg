SPECIFICATION SuiteSpec
CONSTANTS
    Home = home
    Respelled = HOME
    Hosts = {home, HOME, other}
    Channels = {c1, c2}
    Launch = {c1}
    MaxDesired = 1
    Policies = {{c1}, {c1, c2}}
    MaxRevision = 3
    MaxConns = 3
    Endpoints = {a, b}
    First = a
    Values = {v0, v1}
    Names = {n1}
    None = None
    CR = CR
    LF = LF
    x = x
INVARIANTS
    EndOnce
    SecretOnce
    RoomIsDesired
    JoinsNotForgotten
    LinesExact
PROPERTIES
    LateSettingsKept
    EditsKept
    KeepsContract
    JoinsReleased
    FetchBounded
CHECK_DEADLOCK FALSE
