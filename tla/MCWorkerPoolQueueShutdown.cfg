SPECIFICATION Spec
CONSTANTS
    i1 = i1
    i2 = i2
    i3 = i3
    w1 = w1
    w2 = w2
    f1 = f1
    Main = Main
    NoFlush = NoFlush
    NoItem = NoItem
    Items <- ThreeItems
    Corrupted <- OneItem
    MayFail <- ThreeItems
    Workers <- TwoWorkers
    Flushers <- OneFlusher
    MaxNums <- FixedTwo
    Length = 3
    BatchLength = 2
    Graceful = FALSE
    PopMayFail = FALSE
INVARIANTS
    DrainIsAlone
    ShutdownKeepsItems
    NothingLostWhileRunning
PROPERTIES
    FlushCompletes
SYMMETRY WorkerSymmetry
CHECK_DEADLOCK FALSE
