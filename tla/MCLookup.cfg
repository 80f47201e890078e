SPECIFICATION FairSpec
CONSTANTS
    n1 = n1
    n2 = n2
    n3 = n3
    me = me
    Node = {n1, n2, n3}
    Self = me
    Distance <- MCDistance
    Names <- MCNames
    Stored <- MCStored
    Owner = {n3}
    Known = {n2}
    NeighborsLimit = 1
    NeighborsMost = 2
    RefineBorder = 2
    MaxSession = 2
    MaxEvents = 2
INVARIANT AskedNearest
PROPERTIES NewcomersMet PassEnds Fetched
CHECK_DEADLOCK FALSE
