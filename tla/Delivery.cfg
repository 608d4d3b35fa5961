SPECIFICATION SuiteSpec
CONSTANTS
    SEND_CAP = 1
    PongTxn = 4
    PongStride = 2
    PongGens = 2
    Word = 8
    Gens <- MCGens
    MaxId = 2
    Endpoints = {a}
    Launch = a
    NoEndpoint = none
    HasSasl = TRUE
    Frames = 0
    Starts = {"boot"}
    CmdCap = 2
    EvtCap = 1
    MaxBatch = 2
    MaxLines = 2
    MaxPings = 0
    PeekCap = 2
    DrainCap = 4
VIEW ActorView
INVARIANTS
    WireInOrder
    NothingLost
    TraceIdsAligned
