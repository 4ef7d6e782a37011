SPECIFICATION LevelSpec
CONSTANTS
    x1 = x1
    x2 = x2
    p1 = p1
    p2 = p2
    NoData = NoData
    LevelItems <- TwoItems
    LevelThreads <- TwoThreads
    LevelRemovers <- OneThread
    LevelLength = 2
    LevelMayCrash = FALSE
    LevelMayFail = FALSE
INVARIANTS
    LevelRefusesNothingLost
