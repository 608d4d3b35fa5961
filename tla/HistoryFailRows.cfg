SPECIFICATION Spec
CONSTANTS
    Parts = {0, 1}
    Range44 = 10
    MaxRows = 3
    FirstId = 1
    ChanCap = 2
    MainCap = 3
    OverCap = 6
    MaxFails = 1
    MaxDials = 0
    Traffic = FALSE
INVARIANTS
    NoRowLost
