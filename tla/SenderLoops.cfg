SPECIFICATION Spec
CONSTANTS
    SizeMax = 47
    SeqMod = 16
    MaxPayload = 2
    N = 4
    Byte <- MCByte
    Stream <- MCStream
    Capacity = 3
    Isn = 14
    Rto = 2
    Windows = {0, 1, 3, 5}
    TickSizes = {1, 2}
    MaxRetx = 2
INVARIANTS
    TypeOK
    QueueTilesFlight
    WindowRespected
    PayloadIsStream
    FinIsLast
    BackoffExact
    NeverIdleWithData
    LoopsAgree
CHECK_DEADLOCK FALSE
