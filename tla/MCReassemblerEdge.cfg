SPECIFICATION Spec
CONSTANTS
    SizeMax = 1000
    N = 4
    Byte <- MCByte
    Stream <- MCStream
    Capacity = 2
    EdgePushes = {TRUE}
INVARIANTS
    CountedOnce
CHECK_DEADLOCK FALSE
