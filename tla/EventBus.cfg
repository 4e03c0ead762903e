SPECIFICATION FairSpec
CONSTANTS
    Ifaces = {ng0, wan0}
    Wan = wan0
    NoIface = NoIface
    MaxEvents = 2
    MaxLinks = 2
    Backlog = 3
    SlowServer = FALSE
INVARIANTS
    TypeOK
PROPERTIES
    WanTaskEnds
    AllDelivered
    LinkGetsDhclient
CHECK_DEADLOCK FALSE
