SPECIFICATION PrefSpec
CONSTANTS
    Endpoints = {a, b}
    First = a
    Values = {v0, v1}
    Names = {c1}
    LaunchNames = {}
    None = None
    MaxJobs = 2
    MaxRevision = 2
    MaxActs = 3
INVARIANTS
    ReturnKeepsEdits
CHECK_DEADLOCK FALSE
