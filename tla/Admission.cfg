SPECIFICATION SuiteSpec
CONSTANTS
    SEND_CAP = 2
    PongTxn = 4
    PongStride = 2
    PongGens = 2
    Word = 8
    Gens <- MCGens
    MaxId = 7
    Endpoints = {a, b}
    Launch = a
    NoEndpoint = none
    HasSasl = TRUE
    Frames = 3
    Starts = {"boot", "idle", "deferred"}
    CmdCap = 2
    EvtCap = 1
    MaxBatch = 3
    MaxLines = 7
    MaxPings = 3
    PeekCap = 2
    DrainCap = 4
    MaxBeats = 1
VIEW SuiteView
INVARIANTS
    TypeOK
    NoLostWakeup
    FrameBudget
    RegisteredWanted
    CredentialScope
    NeverOrphaned
PROPERTIES
    RedialOnlyDead
