SPECIFICATION FairSpec
CONSTANTS
    Procs = {p1, p2, p3, p4}
    First = p1
    NoProc = NoProc
    Rules = 3
    Broken = {2}
    MaxEvents = 2
INVARIANTS
    TypeOK
    OneActor
    InOrderOnce
    AllRun
PROPERTIES
    AllHandled
CHECK_DEADLOCK FALSE
