SPECIFICATION SchedulerFairSpec
CONSTANTS
    g = g
    p = p
    NoJob = NoJob
    Job = {g, p}
    RunStartup = {g}
    SelfStopping = {g}
    MaxLate = 2
    MaxStarts = 2
INVARIANT JobsInHand
PROPERTIES ActiveJobRuns StopReturns
CHECK_DEADLOCK FALSE
