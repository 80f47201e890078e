SPECIFICATION FairSpec
CONSTANTS
    a1 = a1
    a2 = a2
    d1 = d1
    d2 = d2
    Dat = {d1, d2}
    Distance <- MCDistance
    Admin = {a1, a2}
    Limits = {1, 2}
    DefaultLimit = 2
    MaxVisits = 2
    MaxEdits = 2
    MaxRare = 2
INVARIANTS Kept StaysOff
PROPERTY Registered
CHECK_DEADLOCK FALSE
