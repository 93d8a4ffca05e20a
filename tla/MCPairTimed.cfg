SPECIFICATION TimedSpec
CONSTANTS
    SizeMax = 127
    SeqMod = 32
    MaxPayload = 2
    NClient = 2
    NServer = 0
    Stream <- MCStream
    Isn <- MCIsn
    SendCapacity = 2
    RecvCapacity = 1
    NetCapacity = 20
    MaxFaults = 1
    RtTimeout = 1
    MaxRetxAttempts = 2
    MaxRetx = 3
    LingerFactor = 3
    WinMax = 7
INVARIANT
    SegmentsInWindow
PROPERTY
    BothFinish
CHECK_DEADLOCK FALSE
