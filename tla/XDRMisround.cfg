SPECIFICATION Spec
CONSTANTS
    Kinds = {"bytes"}
    Lens = {1, 2, 3}
    MaxItems = 2
    WBuf = 4
    RBuf = 12
    CounterMod = 8
INVARIANTS
    ReaderAlwaysInStep
CHECK_DEADLOCK FALSE
