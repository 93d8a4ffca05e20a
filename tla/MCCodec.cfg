SPECIFICATION Spec
CONSTANTS
    Segments <- MCSegments
    Arps <- MCArps
    Flips = {1, 16, 128, 255}
    Lengths = {0, 13, 14, 33, 34, 54, 60}
    MaxWrite = 60
INVARIANTS
    RoundTrip
    AcceptedIsSent
CHECK_DEADLOCK FALSE
