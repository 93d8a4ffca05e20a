SPECIFICATION Spec
CONSTANTS
    SizeMax = 127
    SeqMod = 32
    MaxPayload = 1
    NClient = 2
    NServer = 0
    Stream <- MCStream
    Isn <- MCIsn
    SendCapacity = 2
    RecvCapacity = 2
    NetCapacity = 2
    MaxFaults = 2
    MaxRetx = 2
    RtTimeout = 1
    MaxRetxAttempts = 1
    LingerFactor = 1
    WinMax = 7
INVARIANTS
    AckHonest
    CleanCloseIsComplete
    NoLingerIsSafe
    ErrorMeansGaveUp
PROPERTY
    IsReliable
CHECK_DEADLOCK FALSE
