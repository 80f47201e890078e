SPECIFICATION Spec
CONSTANTS
    a1 = a1
    a2 = a2
    a3 = a3
    lan = lan
    closed = closed
    nat = nat
    NoAddress = NoAddress
    Bytes = 2
    ByteBits = 2
    SelfID <- MCSelfID
    K = 2
    Limit = 2
    Port0Limit = 1
    Address <- MCAddress
    Private <- MCPrivate
    Closed <- MCClosed
    Candidate <- MCCandidate
    Target <- MCTarget
INVARIANTS TableSound FoundIsNearer NothingMissed
CHECK_DEADLOCK FALSE
