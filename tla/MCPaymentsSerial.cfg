\* One trip, two pushes, one handler at a time on the trip, nothing fails.
\* Deadlock is not checked: once everybody is paid, nobody need do anything.
SPECIFICATION FairSpec
CONSTANTS
    t1 = t1
    t2 = t2
    u1 = u1
    u2 = u2
    u3 = u3
    p1 = p1
    p2 = p2
    i1 = i1
    i2 = i2
    Ids = {i1, i2}
    NoId = NoId
    Trips = {t1}
    CashTrips = {t1}
    Prefix <- OwnPrefix
    Pushes = {u1, u2}
    Procs = {p1, p2}
    None = None
    OnePerTrip = TRUE
    References = {TRUE, FALSE}
    Refusals = TRUE
    Faults = FALSE
PROPERTIES
    PaidSettles
    KeepsRowPromise
CHECK_DEADLOCK FALSE
