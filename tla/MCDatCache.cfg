SPECIFICATION CacheFairSpec
CONSTANTS
    t1 = t1
    t2 = t2
    d1 = d1
    Dat = {d1}
    Version = {1, 2}
    Current = 1
    Length = 2
    ProxyThread = {t1}
    NodeThread = {t2}
    Quarter = 3
    ClusterSize = 2
    MaxQueue = 2
    MaxRare = 2
INVARIANTS CacheTypeOK StoredAsGiven RowNotAhead NothingForgotten
PROPERTY Recorded
CHECK_DEADLOCK FALSE
CONSTRAINT NotTorn
