SPECIFICATION FairSpec
CONSTANTS
    Payers = {p1}
    Requests = {q1, q2}
    None = None
    Window = 1
    MaxFailed = 2
    FailedWindow = 2
    Threshold = 2
    Timeout = 1
INVARIANT BreakerAgrees
PROPERTIES LockoutEnds OutageEnds
