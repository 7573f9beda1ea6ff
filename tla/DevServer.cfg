SPECIFICATION Spec
CONSTANTS
    c1 = c1
    c2 = c2
    u1 = u1
    u2 = u2
    r1 = r1
    r2 = r2
    r3 = r3
    NoExpiry = NoExpiry
    NoLink = NoLink
    NoCode = NoCode
    Codes <- TwoCodes
    Urls <- TwoUrls
    Expiries <- ExpireAtOne
    Reqs <- ThreeReqs
    MaxAttempts = 2
    MaxTime = 2
CHECK_DEADLOCK FALSE
INVARIANTS
    TypeOK
    OneLinkPerShorten
