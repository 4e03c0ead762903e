SPECIFICATION Spec
CONSTANTS
    Ifaces = {ng0, wan0}
    Wan = wan0
    NoIface = NoIface
    MaxEvents = 2
    MaxLinks = 2
    Backlog = 3
    SlowServer = TRUE
INVARIANTS
    NoEventLost
    BusInv
    LinkServed
    AgreementUnlessOvertaken
CHECK_DEADLOCK FALSE
