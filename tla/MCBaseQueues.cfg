SPECIFICATION QueueSpec
CONSTANTS
    x1 = x1
    x2 = x2
    x3 = x3
    x4 = x4
    p1 = p1
    p2 = p2
    p3 = p3
    r1 = r1
    m1 = m1
    NoValue = NoValue
    Unlocked = Unlocked
    ChannelItems <- ThreeItems
    Pushers <- TwoProcesses
    Poppers <- OnePopper
    ChannelRemovers <- OneRemover
    Capacity = 2
    IsUnique = TRUE
    NoItem = NoItem
    Items <- FourItems
    Processes <- TwoProcesses
    Removers <- OneProcess
    Length = 2
    MayFail = TRUE
    MayCrash = TRUE
    NoData = NoData
    LevelItems <- ThreeItems
    LevelThreads <- ThreeThreads
    LevelRemovers <- OneProcess
    LevelLength = 2
    LevelMayCrash = TRUE
    LevelMayFail = TRUE
INVARIANTS
    TypeOK
    SetIsTruthful
    RedisRefusesNothingLost
    LevelSetIsTruthful
    ChannelSetIsTruthful
PROPERTIES
    ChannelImplementsQueue
    RedisImplementsQueue
    LevelImplementsQueue
CHECK_DEADLOCK FALSE
