SPECIFICATION Spec
CONSTANTS
    Kinds = {"scalar", "double", "str", "opaque", "bytes", "vec2", "vec4", "vec8"}
    Lens = {0, 1, 2, 3, 4, 5, 7, 8, 9, 12, 13}
    MaxItems = 2
    WBuf = 4
    RBuf = 12
    CounterMod = 8
INVARIANTS
    WireAligned
    PartsAsWhole
    ReaderInStep
    ReadsFitBuffer
    DecodesWhatItRead
CHECK_DEADLOCK FALSE
