CONSTANTS
    alice = alice
    bob = bob
    x = x
    y = y
    e1 = e1
    e2 = e2
    r1 = r1
    r2 = r2
    s1 = s1
    s2 = s2
    q1 = q1
    q2 = q2
    Names = {alice, bob}
    Addresses = {e1, e2}
    Subjects = {x, y}
    LocalpartOf <- Localparts
    Registrations = {r1, r2}
    Sessions = {s1, s2}
    Requests = {q1, q2}
    Deployments <- AllDeployments
    InitialUsers <- NobodyOrAlice
    MaxAuths = 2
    None = None
SPECIFICATION Spec
SYMMETRY Symmetry
INVARIANTS TypeOK CredentialKept OneLinkPerAccount AddressWasProved AddressSharedOnlyByRace
CHECK_DEADLOCK FALSE
