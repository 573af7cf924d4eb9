\* One account, whose requests come in turn or overlap, two of them at a time, failures.
SPECIFICATION Spec
CONSTANTS
    a1 = a1
    c1 = c1
    c2 = c2
    p1 = p1
    p2 = p2
    Accounts = {a1}
    Procs = {p1, p2}
    NoOne = NoOne
    Codes = {c1, c2}
    MaxPasswords = 2
    MaxTokens = 2
    Faults = TRUE
CHECK_DEADLOCK FALSE
SYMMETRY Symmetry
INVARIANTS
    VerifiedByCode
    LinkWorksOnce
PROPERTY
    KeepsSessionPromise
