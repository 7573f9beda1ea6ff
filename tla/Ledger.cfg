SPECIFICATION Spec
CONSTANTS
    h1 = h1
    h2 = h2
    a1 = a1
    a2 = a2
    c1 = c1
    c2 = c2
    b1 = b1
    b2 = b2
    q1 = q1
    q2 = q2
    NoRow = NoRow
    Present = Present
    Deleted = Deleted
    NoCategory = NoCategory
    NoBudget = NoBudget
    NoReq = NoReq
    Houses <- TwoHouses
    Modules <- OnForTheFirst
    Accounts <- TwoAccounts
    SeedOwner <- FirstOwner
    Batch = 2
    Categories <- TwoCategories
    SeedCategory <- FirstThere
    Budgets <- TwoBudgets
    SeedBudgets <- OldBudget
    Amounts <- OneAmount
    Figures <- OnlyTwo
    Reqs <- TwoReqs
SYMMETRY Symmetry
CONSTRAINT AloneOrUnedited
CHECK_DEADLOCK FALSE
INVARIANTS
    TypeOK
    SpentIsCounted
    CountedAwayOnlyIfMoved
    
    StrayOnlyIfMoved
    FailedIsNotCounted
    ReplyMatchesRows
