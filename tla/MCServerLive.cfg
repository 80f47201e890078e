SPECIFICATION FairSpec
CONSTANTS
    s1 = s1
    s2 = s2
    t1 = t1
    t2 = t2
    NoSession = NoSession
    Session = {s1}
    Thread = {t1, t2}
    SessionLimit = 1
    Answers503 = TRUE
    ShowsBalloon = TRUE
    MaxStarts = 1
    MaxStops = 1
PROPERTIES EverySessionEnds StopReturns
CHECK_DEADLOCK FALSE
