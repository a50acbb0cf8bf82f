SPECIFICATION FairSpec
CONSTANTS
    BufSize = 2
    ReadSize = 1
    Reads = {1, 3}
    Writes = {1, 5}
    MsgLens = {0, 3}
    MaxBytes = 6
    MaxChunks = 2
    SinkFails = TRUE
INVARIANTS
    NothingTwice
    ChunksFit
    AreaFits
    InOrder
    NothingLost
PROPERTIES
    ReadsReturn
