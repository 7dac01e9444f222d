SPECIFICATION Spec
CONSTANTS
    k1 = k1  n1 = n1  p1 = p1  p2 = p2  r1 = r1  r2 = r2
    x1 = x1  u1 = u1  u2 = u2
    NoCall = NoCall
    People = {k1}
    Calls = {n1, p1, p2, r1, r2, x1, u1, u2}
    KindOf <- Endpoint
    CustomerOf <- AllOnK1
    TierOf <- Bodies
    Named = {}
    FaultKinds = {"db", "commit", "nomba", "crash"}
    MaxFaults = 1
INVARIANTS
    OneAccount
    OrphanNeedsTorn
    NamedUnlessTorn
    ExtraNameNeedsFork
PROPERTY RegistryKept
CHECK_DEADLOCK FALSE
