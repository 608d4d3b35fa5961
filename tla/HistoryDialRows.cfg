SPECIFICATION Spec
CONSTANTS
    Parts = {0, 1}
    Range44 = 10
    MaxRows = 3
    FirstId = 1
    ChanCap = 1
    MainCap = 9
    OverCap = 2
    MaxFails = 0
    MaxDials = 1
    Traffic = FALSE
INVARIANTS
    NoRowLost
