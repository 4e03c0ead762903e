SPECIFICATION InputSpec
CONSTANTS
    Byte = {"r", "n", "-", "b", "x", "F", "o", "E", "N"}
    CR = "r"
    LF = "n"
    Marker <- MCMarker
    RingSize = 7
    WrbSize = 2
    Bodies <- MCBodies
    Faults = {"eof"}
    Pieces = FALSE
    InBufSize = 12
    LineMax = 8
    FwLine = "F"
    NoNameLine = "E"
    NotFormLine = "N"
INVARIANTS
    InputTypeOK
    ReadyMeansImage
PROPERTIES
    ImplementsTransfer
CHECK_DEADLOCK FALSE
