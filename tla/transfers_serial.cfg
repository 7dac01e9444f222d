SPECIFICATION FairSpec
CONSTANTS
    a1 = a1  a2 = a2
    r1 = r1  r2 = r2  r3 = r3
    x = x  y = y
    Opening <- Threes
    Amount <- Twos
    Requests = {r1, r2, r3}
    Accounts = {a1, a2}
    AccountOf <- TwoOnOne
    Ref <- Resent
    MaxBalance = 3
    Serial = TRUE
    FaultKinds = {"timeout"}
    MaxFaults = 2
INVARIANT NoOverdraft
PROPERTY DebitResolved
CHECK_DEADLOCK FALSE
