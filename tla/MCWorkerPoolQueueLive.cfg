SPECIFICATION FairSpec
CONSTANTS
    i1 = i1
    i2 = i2
    i3 = i3
    w1 = w1
    w2 = w2
    f1 = f1
    Main = Main
    NoFlush = NoFlush
    NoItem = NoItem
    Items <- TwoItems
    Corrupted <- None
    MayFail <- None
    Workers <- OneWorker
    Flushers <- OneFlusher
    MaxNums <- FixedOne
    Length = 2
    BatchLength = 2
    Graceful = FALSE
    PopMayFail = FALSE
PROPERTIES
    ItemsGetHandled
    FlushReturns
    ShutdownReturns
CHECK_DEADLOCK FALSE
