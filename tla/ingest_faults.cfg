SPECIFICATION Spec
CONSTANTS
    t1 = t1  t2 = t2
    a1 = a1  a2 = a2
    c1 = c1  c2 = c2  c3 = c3
    None = None
    Txns = {t1, t2}
    Credits = {t1}
    Accounts = {a1}
    Dest <- SameDest
    Calls = {c1, c2, c3}
    TxnOf <- TwoTries
    LookBack = 1
    PageLimit = 2
    OnTime = FALSE
    FaultKinds = {"db", "commit", "reject", "lost", "crash"}
    MaxFaults = 2
INVARIANTS
    HookBooksOnce
    CreditQueued
    BookingsBounded
    LossNeedsStrike
PROPERTIES
    PromiseKept
    BooksKept
    ClosedGetsNoCredit
