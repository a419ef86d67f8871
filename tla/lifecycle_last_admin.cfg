CONSTANTS
    a = a
    b = b
    p1 = p1
    p2 = p2
    Users = {a, b}
    Procs = {p1, p2}
    Kinds = {"patch"}
    Patches <- SomePatches
    MaxRequests = 4
    MaxMishaps = 0
    None = None
SPECIFICATION Spec
SYMMETRY LifecycleSymmetry
PROPERTIES NeverWithoutAdmin
CHECK_DEADLOCK FALSE
