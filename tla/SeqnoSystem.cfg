SPECIFICATION Spec
CONSTANTS
    SizeMax = 63
    SeqMod = 8
INVARIANTS
    Closest
    Tracks
