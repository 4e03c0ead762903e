SPECIFICATION FairSpec
CONSTANTS
    Procs = {p1}
    Modes = {TRUE, FALSE}
    SizeCheck = FALSE
    Reboot = TRUE
    BlockSize = 2
    TargetSize = 8
    OutCap = 7
    MaxImage = 7
    Old = Old
    Zero = Zero
INVARIANTS
    TypeOK
    UpgradeInv
    RebootsIntoImage
    FlashUntouchedBeforeImage
    AtMostOneExtraBlock
PROPERTIES
    EndsAfterTransfer
CHECK_DEADLOCK FALSE
