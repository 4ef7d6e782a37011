SPECIFICATION Spec
CONSTANTS
    i1 = i1
    i2 = i2
    i3 = i3
    w1 = w1
    w2 = w2
    f1 = f1
    Main = Main
    NoFlush = NoFlush
    NoItem = NoItem
    Items <- TwoItems
    Corrupted <- None
    MayFail <- TwoItems
    Workers <- TwoWorkers
    Flushers <- None
    MaxNums <- FixedTwo
    Length = 2
    BatchLength = 2
    Graceful = TRUE
    PopMayFail = FALSE
INVARIANTS
    ShutdownKeepsItems
CHECK_DEADLOCK FALSE
