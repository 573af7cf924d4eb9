\* Two trips, two pushes, overlapping handlers, calls with and without the stored ids.
\* All calls nest a reference, as those without one find fewer rows.
\* Deadlock is not checked: once everybody is paid, nobody need do anything.
SPECIFICATION Spec
CONSTANTS
    t1 = t1
    t2 = t2
    u1 = u1
    u2 = u2
    u3 = u3
    p1 = p1
    p2 = p2
    i1 = i1
    i2 = i2
    Ids = {i1, i2}
    NoId = NoId
    Trips = {t1, t2}
    CashTrips = {}
    Prefix <- OwnPrefix
    Pushes = {u1, u2}
    Procs = {p1, p2}
    None = None
    OnePerTrip = FALSE
    References = {TRUE}
    Refusals = FALSE
    Faults = TRUE
SYMMETRY TripSymmetry
INVARIANTS
    TypeOK
    CompletedIsReported
PROPERTY
    KeepsRowPromise
CHECK_DEADLOCK FALSE
