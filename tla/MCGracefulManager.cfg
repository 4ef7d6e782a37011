SPECIFICATION FairManagerSpec
CONSTANTS
    r1 = r1
    r2 = r2
    t1 = t1
    Sig = Sig
    Runners <- TwoRunners
    TerminateFns <- OneFn
    Signals <- AllSignals
    MaxSignals = 3
    HammerTimer = TRUE
    RunnersPanic = TRUE
INVARIANTS
    OneShutdown
    ManagerLast
PROPERTIES
    TerminateAfterServers
    ShutdownCompletes
CHECK_DEADLOCK FALSE
