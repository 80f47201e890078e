SPECIFICATION Spec
CONSTANTS
    s1 = s1
    s2 = s2
    t1 = t1
    t2 = t2
    NoSession = NoSession
    Session = {s1, s2}
    Thread = {t1, t2}
    SessionLimit = 1
    Answers503 = TRUE
    ShowsBalloon = FALSE
    MaxStarts = 2
    MaxStops = 1
SYMMETRY Symmetry
INVARIANTS SessionsOwned ReplyComplete NothingLeftBehind
CHECK_DEADLOCK FALSE
