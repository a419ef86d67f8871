CONSTANTS
    w1 = w1
    w2 = w2
    Workers = {w1, w2}
    Schedules = {}
    MaxRequests = 1
    MaxRuns = 0
    MaxAttempts = 1
    MaxConcurrent = 1
    MaxFetch = 1
    Timely = TRUE
    None = None
SPECIFICATION FairSpec
PROPERTIES EveryJobSettles
CHECK_DEADLOCK FALSE
