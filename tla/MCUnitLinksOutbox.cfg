SPECIFICATION FairSpec
CONSTANTS
    r1 = r1
    r2 = r2
    r3 = r3
    e1 = e1
    p1 = p1
    p2 = p2
    NoRun = NoRun
    Gone = Gone
    NoEvent = NoEvent
    Runs <- ThreeRuns
    Processes <- TwoProcesses
    HostOf <- Placed
    Admins <- OtherProcess
    Mortal <- OneProcess
    May <- Everything
    MaxKinds = 1
    Events <- OneEvent
INVARIANTS
    TypeOK
    OneRun
    SentOnce
    NoneStranded
    DoneWasSent
PROPERTIES
    LockHasOwner
    EventsGetSent
CHECK_DEADLOCK FALSE
