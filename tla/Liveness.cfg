SPECIFICATION SuiteSpec
CONSTANTS
    SEND_CAP = 1
    PongTxn = 4
    PongStride = 2
    PongGens = 2
    Word = 8
    Gens <- MCGens
    MaxId = 3
    Endpoints = {a}
    Launch = a
    NoEndpoint = none
    HasSasl = TRUE
    Frames = 0
    Starts = {"boot", "deferred"}
    CmdCap = 1
    EvtCap = 1
    MaxBatch = 3
    MaxLines = 3
    MaxPings = 1
    PeekCap = 2
    DrainCap = 4
    MaxBeats = 1
PROPERTIES
    CloseAcknowledged
    BootAnswered
    QueueDrains
    LoopMovesOn
