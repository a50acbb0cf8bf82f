SPECIFICATION FairSpec
CONSTANTS
    Threads = {t1, t2}
    None = None
    Urls = {u1}
    Sizes = {1}
    TotalSize = 2
    Limits = {1}
    Pct = 2
    MaxEntrySize = 1
    DumpFrequency = 1
    MaxEntries = 1
    MaxHits = 1
    MaxReaders = 2
    MaxFails = 0
    MaxCrashes = 0
CHECK_DEADLOCK FALSE
PROPERTIES
    InterfaceFreed
