SPECIFICATION FairSpec
CONSTANTS
    r1 = r1  r2 = r2  w1 = w1  w2 = w2
    Readers = {r1, r2}
    Writers = {w1, w2}
    Fallback = TRUE
    TTL = 2
    MaxGap = 1
    FaultKinds = {"db", "commit", "decrypt", "crash"}
    MaxFaults = 1
INVARIANTS
    StaleNeedsStraddle
    StaleExpires
PROPERTIES
    KeyDiesForGood
    EventuallyCurrent
