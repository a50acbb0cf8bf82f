SPECIFICATION FairSpec
CONSTANTS
    Procs = {p1, p2}
    Files = {f1, f2}
    NoFile = NoFile
    Sizes = {2}
    MaxSize = 3
    TargetSize = 2
    Word = 16
    MaxRequests = 3
    MaxFiles = 3
    MaxFails = 1
    MaxChanges = 1
CHECK_DEADLOCK FALSE
INVARIANTS
    ReadUndisturbed
    SizeExactAlone
    OnlyPurgeDeadlocks
PROPERTIES
    NewFileStays
    RequestEnds
