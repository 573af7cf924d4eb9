\* Two rides of one rider, one request at a time on each, the commission changing meanwhile.
SPECIFICATION Spec
CONSTANTS
    r1 = r1
    r2 = r2
    k1 = k1
    k2 = k2
    p1 = p1
    p2 = p2
    Rides = {r1, r2}
    Riders = {k1}
    Procs = {p1, p2}
    NoOne = NoOne
    Fare <- MCFare
    Percentages = {10, 20}
    MaxCompletions = 2
    OnePerRide = TRUE
    Regress = FALSE
    Faults = FALSE
SYMMETRY Symmetry
INVARIANTS
    CreditedExactly
    ClosedChatMeansEnded
PROPERTY
    KeepsTripPromise
