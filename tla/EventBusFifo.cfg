SPECIFICATION Spec
CONSTANTS
    Ifaces = {ng0, wan0}
    Wan = wan0
    NoIface = NoIface
    MaxEvents = 2
    MaxLinks = 0
    Backlog = 3
    SlowServer = TRUE
INVARIANTS
    QuietAgreement
CHECK_DEADLOCK FALSE
