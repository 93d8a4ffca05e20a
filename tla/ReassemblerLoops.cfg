SPECIFICATION FairSpec
CONSTANTS
    SizeMax = 1000
    N = 6
    Byte <- MCByte
    Stream <- MCStream
    Capacity = 4
    EdgePushes = {FALSE, TRUE}
INVARIANTS
    TypeOK
    OutputIsStream
    WithinCapacity
    StoredIsStream
    EndsExactly
    LoopsAgree
    CountedOnceInWindow
PROPERTY
    AllDelivered
CHECK_DEADLOCK FALSE
