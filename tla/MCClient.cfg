SPECIFICATION FairSpec
CONSTANTS
    s1 = s1
    s2 = s2
    t1 = t1
    t2 = t2
    NoSession = NoSession
    Session = {s1, s2}
    Thread = {t1}
    HighPriority = {s2}
    Late = {s1}
INVARIANTS OneHolder NoLostWakeUp
PROPERTIES Implements StopReturns EveryRequestAnswered
CHECK_DEADLOCK FALSE
