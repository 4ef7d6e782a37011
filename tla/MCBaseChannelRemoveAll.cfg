SPECIFICATION FairChannelSpec
CONSTANTS
    x1 = x1
    x2 = x2
    p1 = p1
    r1 = r1
    m1 = m1
    NoValue = NoValue
    Unlocked = Unlocked
    ChannelItems <- TwoItems
    Pushers <- OnePusher
    Poppers <- OnePopper
    ChannelRemovers <- OneRemover
    Capacity = 2
    IsUnique = TRUE
PROPERTIES
    PushReturns
CHECK_DEADLOCK FALSE
