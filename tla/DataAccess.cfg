SPECIFICATION PartsSpec
CONSTANTS
    MaxDepth = 3
    MaxRows <- RowsByDepth
    Ranged = {"flat", "top", "inner"}
    Starts = {0, 1}
    Strides = {1, 2}
    Stops = {0, 2}
    MaxPrinted = 6
    MaxElements = 3
    MaxVars = 2
    MaxNesting = 2
    MaxRead = 2
    Threads = {1, 2}
    Urls = {"old", "new"}
    Ids = {1, 2}
    Location <- Moved
    MaxVersions = 2
    MaxStreams = 2
    MaxStuck = 1
CHECK_DEADLOCK FALSE
INVARIANTS
    RowsArrive
    InternAgrees
    BacksUpOnlyInside
    ReadBack
    StartErrorsThrow
    InStep
    AllAndOnlyOnce
    NothingLeft
    Current
    TagFits
