SPECIFICATION FairSpec
CONSTANTS
    Threads = {t1, t2}
    None = None
    Urls = {u1, u2}
    Sizes = {1, 2}
    TotalSize = 2
    Limits = {1}
    Pct = 2
    MaxEntrySize = 1
    DumpFrequency = 1
    MaxEntries = 2
    MaxHits = 1
    MaxReaders = 2
    MaxFails = 1
    MaxCrashes = 1
CHECK_DEADLOCK FALSE
INVARIANTS
    HeldStays
    ReadersExact
    SizeExact
    DiskMatchesTable
    TornOnlyByFailure
    LossBounded
PROPERTIES
    KeepsPromise
    InterfaceFreedOrWedged
