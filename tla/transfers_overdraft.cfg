SPECIFICATION Spec
CONSTANTS
    a1 = a1  a2 = a2
    r1 = r1  r2 = r2  r3 = r3
    x = x  y = y
    Opening <- Threes
    Amount <- Twos
    Requests = {r1, r2}
    Accounts = {a1}
    AccountOf <- AllOnOne
    Ref <- OwnRef
    MaxBalance = 3
    Serial = FALSE
    FaultKinds = {}
    MaxFaults = 0
INVARIANT NoOverdraft
