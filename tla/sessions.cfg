SPECIFICATION FairSpec
CHECK_DEADLOCK FALSE
CONSTANTS
    s1 = s1  s2 = s2  l1 = l1  c1 = c1  c2 = c2  n1 = n1  n2 = n2
    Signups = {s1, s2}
    Logins = {l1}
    Clients = {c1, c2}
    Slugs = {n1, n2}
    Spellings = {"Ada", "ada"}
    Normal <- Lower
    FaultKinds = {"db", "commit", "crash"}
    MaxFaults = 1
INVARIANTS
    AccountWhole
    OrphanNeedsCause
    OwnerLogsIn
    LoggedOutIsDead
PROPERTIES
    SessionEnds
