SPECIFICATION FairSpec
CONSTANTS
    i1 = i1
    i2 = i2
    g1 = g1
    g2 = g2
    l1 = l1
    l2 = l2
    None = None
    Ips <- TwoIps
    Reqs <- TwoReqs
    Limiters <- TwoLimiters
    Burst = 2
    Refill = 2
    IdleTicks = 2
INVARIANTS
    TypeOK
    AdmittedBounded
PROPERTIES
    SweptIsFull
    IdleForgotten
