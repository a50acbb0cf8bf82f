SPECIFICATION Spec
CONSTANTS
    Procs = {p1, p2}
    Files = {f1, f2}
    NoFile = NoFile
    Sizes = {2}
    MaxSize = 3
    TargetSize = 2
    Word = 16
    MaxRequests = 2
    MaxFiles = 2
    MaxFails = 0
    MaxChanges = 1
CHECK_DEADLOCK FALSE
INVARIANTS
    NoDeadlock
