SPECIFICATION FairSpec
CONSTANTS
    p = p
    j = j
    Parser = {p}
    JobThread = {j}
    MaxEvents = 3
    MaxQueue = 2
INVARIANTS TypeOK ActiveTells
PROPERTIES Resumes ExitEnds MenuReturns
CHECK_DEADLOCK FALSE
