CONSTANTS
    message = message
    p1 = p1
    p2 = p2
    p3 = p3
    Deliveries = {message}
    Procs = {p1, p2, p3}
    MaxEvents = 2
    MaxMishaps = 2
    None = None
SPECIFICATION FairSpec
INVARIANTS TypeOK SentOnce RequestMatchesDelivery
PROPERTIES EveryDeliverySettles
CHECK_DEADLOCK FALSE
