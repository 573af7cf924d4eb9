\* The dashboard: one ride, two calls of getNearby in flight, two switches.
\* The active trips: two parcels, two requests and an upload in flight.
\* Deadlock is not checked: once every request is gone nobody need do anything.
SPECIFICATION AppFairSpec
CONSTANTS
    r1 = r1
    k1 = k1
    k2 = k2
    p1 = p1
    none = none
    Rides = {r1}
    Parcels = {}
    Handlers = {p1}
    MaxLoads = 2
    MaxSwitches = 2
    Overlap = FALSE
    TripRides = {}
    TripParcels = {k1, k2}
    NoTrip = none
    MaxRequests = 2
    MaxUploads = 1
    OneParcel = TRUE
    OneUpload = TRUE
    Overtake = FALSE
    AppFaults = TRUE
CHECK_DEADLOCK FALSE
INVARIANTS
    AvailabilityAgrees
    ProofBeforeDelivery
PROPERTIES
    ListCatchesUp
    ActiveCatchesUp
