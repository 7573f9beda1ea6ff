SPECIFICATION Spec
CONSTANTS
    Keys <- TheKeys
    GrantableBy <- TheRegistry
    Needs <- TheNeeds
    alice = alice
    bob = bob
    charlie = charlie
    dave = dave
    ha = ha
    hb = hb
    r1 = r1
    r2 = r2
    r3 = r3
    r4 = r4
    q1 = q1
    q2 = q2
    q3 = q3
    NoRow = NoRow
    Deleted = Deleted
    Seeded = Seeded
    NoReq = NoReq
    Houses <- TwoHouses
    Users <- FourUsers
    Actors <- TwoActors
    SeedHome <- HomeOfAll
    RoleIds <- FourRoles
    Reqs <- TwoReqs
    Bodies <- SomeBodies
    NestedRoles <- NoneOrOwner
    SeedRoles <- RolesOfTwoHouses
    SeedHolders <- HoldersOfTwoHouses
SYMMETRY Symmetry
CHECK_DEADLOCK FALSE
INVARIANTS
    TypeOK
    
    

    
