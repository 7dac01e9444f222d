SPECIFICATION Spec
CONSTANTS
    a1 = a1  a2 = a2
    r1 = r1  r2 = r2  r3 = r3
    x = x  y = y
    Opening <- Ones
    Amount <- Twos
    Requests = {r1, r2, r3}
    Accounts = {a1, a2}
    AccountOf <- TwoOnOne
    Ref <- Resent
    MaxBalance = 3
    Serial = FALSE
    FaultKinds = {"db", "commit", "timeout", "cancel", "crash"}
    MaxFaults = 2
INVARIANTS
    RefChargedOnce
    UnstruckIsExact
    OverdraftBounded
PROPERTY PayoutKept
CHECK_DEADLOCK FALSE
