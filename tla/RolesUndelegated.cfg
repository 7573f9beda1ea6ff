SPECIFICATION Spec
CONSTANTS
    Keys <- TheKeys
    GrantableBy <- TheRegistry
    Needs <- TheNeeds
    alice = alice
    bob = bob
    charlie = charlie
    dave = dave
    ha = ha
    hb = hb
    r1 = r1
    r2 = r2
    r3 = r3
    r4 = r4
    q1 = q1
    q2 = q2
    q3 = q3
    NoRow = NoRow
    Deleted = Deleted
    Seeded = Seeded
    NoReq = NoReq
    Houses <- OneHouse
    Users <- OneUser
    Actors <- OneUser
    SeedHome <- HomeOfBob
    RoleIds <- TwoRoles
    Reqs <- ThreeReqs
    Bodies <- FewBodies
    NestedRoles <- OnlyNone
    SeedRoles <- RolesOfOneHouse
    SeedHolders <- HoldersOfOneHouse
SYMMETRY Symmetry
CHECK_DEADLOCK FALSE
INVARIANTS
    NoUndelegatedGrant
