SPECIFICATION FairSpec
CONSTANTS
    Procs = {p1, p2}
    Modes = {TRUE}
    SizeCheck = TRUE
    Reboot = TRUE
    BlockSize = 2
    TargetSize = 4
    OutCap = 4
    MaxImage = 3
    Old = Old
    Zero = Zero
INVARIANTS
    RebootsIntoImage
CHECK_DEADLOCK FALSE
