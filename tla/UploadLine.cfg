SPECIFICATION Spec
CONSTANTS
    Targets = {a, b}
    Paths = {p}
    BatchMax = 2
    FileMax = 2
    Rewrites = 1
    Warnings = 4
PROPERTY SuccessPosted
CHECK_DEADLOCK FALSE
