SPECIFICATION SuiteSpec
CONSTANTS
    Parts = {0, 1}
    Range44 = 10
    MaxRows = 3
    FirstId = 1
    ChanCap = 1
    MainCap = 9
    OverCap = 2
    MaxFails = 0
    MaxDials = 0
    Traffic = FALSE
    Home = 0
    Servers = {0, 1}
    Sources = {src}
    Nothing = nothing
    Cap = 2
    MaxLines = 3
    MaxTickets = 4
    MaxClears = 1
    Server = server
    NL = nl
    Kinds <- MCKinds
    Keep = 2
    AliveMax = 2
    LineMax = 2
    ChunkMax = 4
    LastDay = 2
    MaxRecords = 3
    MaxAppends = 1
INVARIANTS
    RowsKept
    RetryKept
    FileInOrder
    WaitsDurable
    KeptExact
    TokensBacked
    HelperOwned
PROPERTIES
    FairQuitEnds
    ImagesTrue
