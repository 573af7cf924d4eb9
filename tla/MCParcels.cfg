\* Two parcels of one rider, the requests on the first in turn, those on the second overlapping and failing.
SPECIFICATION Spec
CONSTANTS
    a = a
    b = b
    k1 = k1
    k2 = k2
    p1 = p1
    p2 = p2
    Parcels = {a, b}
    InTurn = {a}
    Riders = {k1}
    Procs = {p1, p2}
    NoOne = NoOne
    Fee <- MCFee
    Methods <- MCMethods
    Percentages = {15}
    Scores <- MCScores
    WithProof = {a}
    MaxEarned = 430
    Regress = FALSE
    Faults = {b}
SYMMETRY Symmetry
INVARIANTS
    DeliveredIsPaid
    AverageOfOwnRatings
    ChatFollowsParcel
PROPERTY
    KeepsTripPromise
