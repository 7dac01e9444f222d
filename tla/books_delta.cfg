SPECIFICATION Spec
CONSTANTS
    p1 = p1  p2 = p2  t1 = t1  r1 = r1  s1 = s1
    Payments = {p1, p2}
    Transfers = {t1}
    Readers = {r1, s1}
    KindOf <- Kinds
    Limit <- Limits
    Offset <- Offsets
    MaxLimit = 2
    DefaultLimit = 2
    CreatedAt <- Times
    MaxFaults = 1
INVARIANT BalancedIsOk
CHECK_DEADLOCK FALSE
