CONSTANTS
    h1 = h1
    h2 = h2
    Handlers = {h1, h2}
    NumSessions = 2
    Existing = {1}
    QueueSize = 1
    MaxPending = 1
    PageSize = 1
    TTL = 1
    FlushEvery = 0
    MaxTime = 3
    MaxRecords = 2
    MaxCrons = 1
    MaxMishaps = 1
    None = None
SPECIFICATION FairSpec
INVARIANTS TypeOK NothingLostSilently ExpiredWasIdle
PROPERTIES EveryRecordSettles TasksEnd
CHECK_DEADLOCK FALSE
