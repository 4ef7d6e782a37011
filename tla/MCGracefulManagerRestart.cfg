SPECIFICATION FairManagerSpec
CONSTANTS
    r1 = r1
    r2 = r2
    t1 = t1
    Sig = Sig
    Runners <- TwoRunners
    TerminateFns <- OneFn
    Signals <- HupOnly
    MaxSignals = 1
    HammerTimer = TRUE
    RunnersPanic = FALSE
PROPERTIES
    HammerHonoured
CHECK_DEADLOCK FALSE
