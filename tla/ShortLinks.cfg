SPECIFICATION FairSpec
CONSTANTS
    c1 = c1
    c2 = c2
    u1 = u1
    u2 = u2
    r1 = r1
    r2 = r2
    Codes <- TwoCodes
    Urls <- TwoUrls
    Reqs <- TwoReqs
    Expiries <- ExpireAtTwo
    DefaultTtl = 1
    MaxAttempts = 2
    MaxTime = 3
    NoExpiry = NoExpiry
    NoRow = NoRow
    NoCode = NoCode
    Absent = Absent
    Forever = Forever
INVARIANTS
    TypeOK
    CacheCoherent
    OneRowPerShorten
    LookupsAreCounted
PROPERTIES
    ImplementsDirectory
    EventuallyAnswered
