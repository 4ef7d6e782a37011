SPECIFICATION Spec
CONSTANTS
    i1 = i1
    i2 = i2
    i3 = i3
    w1 = w1
    w2 = w2
    f1 = f1
    Main = Main
    NoFlush = NoFlush
    NoItem = NoItem
    Items <- ThreeItems
    Corrupted <- None
    MayFail <- OneItem
    Workers <- TwoWorkers
    Flushers <- None
    MaxNums <- ZeroToTwo
    Length = 3
    BatchLength = 2
    Graceful = TRUE
    PopMayFail = TRUE
INVARIANTS
    TypeOK
    ItemsConserved
    CountersExact
    OfferHasWorker
PROPERTIES
    LastWorkerStays
    ImplementsLedger
CHECK_DEADLOCK FALSE
