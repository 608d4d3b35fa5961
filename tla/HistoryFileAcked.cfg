SPECIFICATION Spec
CONSTANTS
    Server = server
    NL = nl
    Kinds <- MCKinds
    Keep = 2
    AliveMax = 2
    LineMax = 2
    ChunkMax = 4
    LastDay = 2
    MaxRecords = 3
    MaxAppends = 1
INVARIANTS
    AckedReadable
CHECK_DEADLOCK FALSE
