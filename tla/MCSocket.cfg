SPECIFICATION Spec
CONSTANTS
    SizeMax = 127
    SeqMod = 32
    MaxPayload = 2
    NTyped = 1
    NSent = 2
    Typed <- MCTyped
    Sent <- MCSent
    Here <- MCHere
    There <- MCThere
    Strays <- MCStrays
    NoSegment = NoSegment
    SendCapacity = 2
    RecvCapacity = 2
    RtTimeout = 1
    MaxRetxAttempts = 1
    LingerFactor = 1
    WinMax = 7
    MaxCopy = 3
    MaxCopyLength = 2
    CopyBuffer = 1
    PipeCapacity = 1
    MaxFaults = 1
INVARIANTS
    NoThreadDies
    BytesInOrder
    CloseIsComplete
PROPERTY
    ProgramEnds
CHECK_DEADLOCK FALSE
