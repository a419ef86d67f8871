CONSTANTS
    code = code
    dcode = dcode
    d1 = d1
    d2 = d2
    p1 = p1
    p2 = p2
    AuthCodes = {code}
    DeviceCodes = {dcode}
    AdminGrants = {code}
    Devices = {d1, d2}
    DeviceOf <- GrantDevices
    Procs = {p1, p2}
    MaxSessions = 1
    MaxRequests = 3
    MaxMishaps = 0
    None = None
SPECIFICATION Spec
SYMMETRY ProcSymmetry
INVARIANTS LogoutAllReachesDevices
