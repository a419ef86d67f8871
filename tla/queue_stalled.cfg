CONSTANTS
    w1 = w1
    w2 = w2
    nightly = nightly
    Workers = {w1, w2}
    Schedules = {nightly}
    MaxRequests = 0
    MaxRuns = 2
    MaxAttempts = 1
    MaxConcurrent = 1
    MaxFetch = 2
    Timely = FALSE
    None = None
SYMMETRY WorkerSymmetry
SPECIFICATION Spec
INVARIANTS TypeOK AttemptHistory OverlapOnlyAfterEviction NoOrphanedRunningRow DutiesExclusive OneRunPerSchedule
PROPERTIES FinalIsFinal ImplementsContract
CHECK_DEADLOCK FALSE
