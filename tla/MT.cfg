SPECIFICATION FairSpec
CONSTANTS
    MaxPuts = 4
    WriteFails = TRUE
    CreateFails = TRUE
    SpuriousWakeups = TRUE
    StreamThrows = TRUE
INVARIANTS
    OneWriter
    NoChildAfterDestroy
    CountTellsChildren
PROPERTIES
    CallsReturn
    BlocksReachStream
    ImplementsOrderedWriter
CHECK_DEADLOCK FALSE
