\* Two riders, three withdrawals and the updates of two admins that overlap, handlers
\* that die anywhere.
\* Deadlock is not checked: once everything earned is paid out, nothing need happen.
SPECIFICATION Spec
CONSTANTS
    k1 = k1
    k2 = k2
    o1 = o1
    o2 = o2
    o3 = o3
    p1 = p1
    p2 = p2
    Riders = {k1, k2}
    Ids = {o1, o2, o3}
    Amounts = {1, 2}
    MaxEarned = 3
    Procs = {p1, p2}
    None = None
    LostAnswers = FALSE
    Faults = TRUE
SYMMETRY Symmetry
INVARIANTS
    TypeOK
    NobodyLoses
    SentIsNotGivenBack
PROPERTIES
    BooksBalance
    KeepsWithdrawalPromise
CHECK_DEADLOCK FALSE
