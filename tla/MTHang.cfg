SPECIFICATION FairSpec
CONSTANTS
    MaxPuts = 4
    WriteFails = FALSE
    CreateFails = TRUE
    SpuriousWakeups = FALSE
    StreamThrows = FALSE
PROPERTIES
    CallsAlwaysReturn
CHECK_DEADLOCK FALSE
