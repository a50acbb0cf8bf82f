SPECIFICATION PartsSpec
CONSTANTS
    MaxDepth = 3
    MaxRows <- RowsByDepth
    Ranged = {}
    Starts = {0}
    Strides = {1}
    Stops = {0}
    MaxPrinted = 2
    MaxElements = 1
    MaxVars = 1
    MaxNesting = 2
    MaxRead = 2
    Threads = {1}
    Urls = {"old", "new"}
    Ids = {1}
    Location <- Moved
    MaxVersions = 2
    MaxStreams = 2
    MaxStuck = 0
CHECK_DEADLOCK FALSE
INVARIANTS
    BodiesClosed
