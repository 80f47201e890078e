SPECIFICATION FairSpec
CONSTANTS
    n1 = n1
    n2 = n2
    n3 = n3
    n4 = n4
    m = m
    Node = {n1, n2, n3, n4}
    Message = {m}
    Author <- MCAuthor
    Peers <- MCLasso
    PathLimit = 1
    Unreliable = {n3}
    MaxEvents = 2
INVARIANTS PathsKnow Spread
PROPERTY Settles
CHECK_DEADLOCK FALSE
