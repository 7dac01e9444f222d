SPECIFICATION FairSpec
CONSTANTS
    c1 = c1  c2 = c2  o1 = o1  o2 = o2  k1 = k1  k2 = k2  k3 = k3
    Credits = {c1, c2}
    Others = {o1, o2}
    Conns = {k1, k2, k3}
    None = None
INVARIANTS
    OnlyCreditsBlock
    RoomForAll
PROPERTIES
    EventuallyAnswered
