CONSTANTS
    r1 = r1
    r2 = r2
    r3 = r3
    Requests = {r1, r2, r3}
    Kinds = {"refresh", "introspect", "revoke"}
    MaxPairs = 4
    Overlap = TRUE
    LongAbsence = TRUE
    AdminScope = FALSE
    None = None
SPECIFICATION FairSpec
INVARIANTS AccessDiesWithRefresh LockedOutOnlyByDuplicate
PROPERTIES SessionStaysFinished EveryRequestEnds
CHECK_DEADLOCK FALSE
