SPECIFICATION Spec
CONSTANTS
    p = p
    j = j
    Parser = {p}
    JobThread = {j}
    MaxEvents = 3
    MaxQueue = 2
INVARIANT StopStops
CHECK_DEADLOCK FALSE
