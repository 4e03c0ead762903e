SPECIFICATION MCSpec
CONSTANTS
    Byte = {"r", "n", "-", "b"}
    CR = "r"
    LF = "n"
    Marker <- MCMarker
    RingSize = 6
    WrbSize = 2
    MaxInput = 8
INVARIANTS
    RingTypeOK
    RingInv
    ImageExact
    MatcherExact
    FileIsPrefix
CHECK_DEADLOCK FALSE
