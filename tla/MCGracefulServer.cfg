SPECIFICATION FairSpec
CONSTANTS
    c1 = c1
    c2 = c2
    Sig = Sig
    Server = Server
    Conns <- TwoConns
    Runners <- Nobody
    TerminateFns <- Nobody
    Signals <- AllSignals
    MaxSignals = 3
    HammerTimer = TRUE
    RunnersPanic = FALSE
    AcceptMayFail = TRUE
INVARIANTS
    TypeOK
    ConnsAreServed
    CounterExact
PROPERTIES
    IdleServerEnds
    ImplementsManager
CHECK_DEADLOCK FALSE
