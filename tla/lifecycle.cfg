CONSTANTS
    a = a
    b = b
    p1 = p1
    p2 = p2
    Users = {a, b}
    Procs = {p1, p2}
    Kinds = {"patch", "risk", "self", "profile", "claim", "cliReactivate"}
    Patches <- SomePatches
    MaxRequests = 3
    MaxMishaps = 1
    None = None
SPECIFICATION Spec
SYMMETRY LifecycleSymmetry
INVARIANTS TypeOK AdminFlagConverges DeactivationConverges
PROPERTIES LastAdminKept BootstrapOnce
