SPECIFICATION FairSpec
CONSTANTS
    n1 = n1
    n2 = n2
    me = me
    k1 = k1
    k2 = k2
    o1 = o1
    o2 = o2
    Node = {n1, n2}
    Self = me
    Key = {k1, k2, o1, o2}
    Owner <- MCOwner
    Distance <- MCDistance
    Given <- MCGiven
    Named <- MCNamed
    Known = {n1, n2}
    Order <- MCOrder
    Limit = 1
    Limits = {0, 1}
    StartCount = 2
    PublishLimit = 1
    MaxThreads = 2
    MaxEvents = 1
INVARIANT Bounded
PROPERTIES LeavesForReason LeftNodesGo Spread
CHECK_DEADLOCK FALSE
