SPECIFICATION FairSpec
CONSTANTS
    t1 = t1  t2 = t2
    a1 = a1  a2 = a2
    c1 = c1  c2 = c2  c3 = c3
    None = None
    Txns = {t1, t2}
    Credits = {t1, t2}
    Accounts = {a1, a2}
    Dest <- OwnDest
    Calls = {c1}
    TxnOf <- NoWebhookForT2
    LookBack = 2
    PageLimit = 2
    OnTime = TRUE
    FaultKinds = {"lost"}
    MaxFaults = 1
PROPERTY EventuallyBooked
