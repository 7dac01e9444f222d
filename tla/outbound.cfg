SPECIFICATION FairSpec
CONSTANTS
    o1 = o1  o2 = o2
    Deliveries = {1, 2, 3}
    Orgs = {o1, o2}
    OrgOf <- TwoOrgs
    MaxAttempts = 2
    Backoff <- Doubling
    BatchLimit = 1
    FaultKinds = {"list", "config", "update", "lost_ack", "crash"}
    MaxFaults = 1
INVARIANTS
    PostsBounded
    AcksBounded
    StatusTruthful
PROPERTIES
    QueueKept
    EventuallySettled
