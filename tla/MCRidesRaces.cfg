\* One ride, two riders, two requests in flight, any interleaving.
SPECIFICATION Spec
CONSTANTS
    r1 = r1
    r2 = r2
    k1 = k1
    k2 = k2
    p1 = p1
    p2 = p2
    Rides = {r1}
    Riders = {k1, k2}
    Procs = {p1, p2}
    NoOne = NoOne
    Fare <- MCFare
    Percentages = {15}
    MaxCompletions = 2
    OnePerRide = FALSE
    Regress = FALSE
    Faults = TRUE
SYMMETRY Symmetry
INVARIANTS
    TypeOK
    AssignedWhenUnderWay
    CompletedIsPaid
    ChatHasRider
PROPERTY
    KeepsTripPromise
