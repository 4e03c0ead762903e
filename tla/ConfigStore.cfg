SPECIFICATION Spec
CONSTANTS
    big = big
    odd = odd
    Configs = {default, odd, big}
    Default = default
    NoFile = NoFile
    Partial = Partial
    Hole = Hole
    Odd = {odd}
    Size <- MCSize
    Room = 1
    Blocks = 2
    Httpd = httpd
    Others = {o1}
    MaxLines = 1
    MaxJobs = 2
    Faults = {"power", "file", "tar", "dd"}
INVARIANTS
    TypeOK
    FlashWhole
    SavedIsStored
PROPERTIES
    RestoreIsStored
CHECK_DEADLOCK FALSE
