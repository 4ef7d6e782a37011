SPECIFICATION FairSpec
CONSTANTS
    t1 = t1
    t2 = t2
    t3 = t3
    pr1 = pr1
    pr2 = pr2
    l1 = l1
    l2 = l2
    l3 = l3
    NoLock = NoLock
    Instances <- ThreeInstances
    Identities <- TwoIdentities
    Locks <- ThreeLocks
INVARIANTS
    MutualExclusion
    LockLivesWithUsers
PROPERTIES
    CheckInReturns
