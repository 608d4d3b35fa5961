SPECIFICATION SuiteSpec
CONSTANTS
    Helpers = {h1, h2}
    Urls = {u1, u2}
    Trees = {"img", "card"}
    Sizes = {1, 2}
    MaxEntries = 2
    MaxBytes = 3
    MaxFiles = 4
    Procs = {p1, p2}
    Endpoints = {a, b}
    Saves = {s1}
    None = None
    Torn = Torn
    Targets = {ta, tb}
    Paths = {p}
    MaxServers = 2
    MaxIds = 3
    MaxEdits = 1
    MaxCuts = 1
    BatchMax = 2
    FileMax = 2
    Rewrites = 1
    Warnings = 4
SYMMETRY FilesSymmetry
INVARIANTS
    ShowsWhole
    SavesKept
    ReadsUnmixed
    WholeVersion
PROPERTIES
    WithinCaps
    StartWarned
    PostedUnbroken
CHECK_DEADLOCK FALSE
