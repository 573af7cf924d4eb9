\* One trip, ride or parcel, two requests in flight, the socket dropping, replies in order.
SPECIFICATION PageFairSpec
CONSTANTS
    t = t
    Trip = t
    Kinds = {"ride"}
    MaxRequests = 2
    MaxEvents = 1
    MaxRidePolls = 1
    MayFail = {"initiate", "resend", "recover"}
    SocketLoss = TRUE
    Overtake = FALSE
CHECK_DEADLOCK FALSE
INVARIANTS
    FailureIsOfLastPrompt
PROPERTY
    AwaitingEnds
