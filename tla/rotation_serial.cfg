CONSTANTS
    r1 = r1
    r2 = r2
    r3 = r3
    r4 = r4
    Requests = {r1, r2, r3, r4}
    Kinds = {"refresh", "introspect", "revoke"}
    MaxPairs = 5
    Overlap = FALSE
    LongAbsence = FALSE
    AdminScope = TRUE
    None = None
SPECIFICATION Spec
SYMMETRY RequestSymmetry
INVARIANTS TypeOK NeverLockedOut SingleChain
CHECK_DEADLOCK FALSE
