---------------------------- MODULE Ledger_proofs ----------------------------
(***************************************************************************)
(* For any households, accounts, categories, budgets, requests and bodies: *)
(* types, what a budget adds up to, where transactions and counted amounts *)
(* belong as long as no body moves them, what a switched-off module keeps  *)
(* out, and what an answer says of the tables.                             *)
(***************************************************************************)
EXTENDS Ledger, FiniteSetTheorems, TLAPS

\* Budget b is one of household h, or was.
WasOf(b, h) ==
    /\ b \in Budgets
    /\ \/ budgets[b] = Deleted
       \/ BudgetExists(b) /\ (budgets[b].house = h \/ b \in moved)

\* What a request has found, stored and been told when it has come this far.
Progress(r) ==
    /\ pc[r] # "idle" => req[r] \in Request
    /\ pc[r] # "done" => reply[r] = "none" /\ counted[r] = NoBudget
    /\ pc[r] \in {"idle", "account"} \/ reply[r] = "404" =>
           stored[r] = 0 /\ \A n \in 1..Batch : txs[<<r, n>>] = NoRow
    /\ pc[r] = "insert" => /\ stored[r] < Batch
                           /\ owner[req[r].acc] \in {req[r].house, Deleted} \/ req[r].acc \in moved
    /\ pc[r] \in {"flag", "find", "increment"} => req[r].op = "create" /\ stored[r] >= 1
    /\ pc[r] \in {"find", "increment"} => "budgets" \in Modules[req[r].house]
    /\ pc[r] = "increment" => WasOf(budget[r], req[r].house)
    /\ \A n \in 1..stored[r] : txs[<<r, n>>] # NoRow
    /\ reply[r] = "201" => stored[r] >= (IF req[r].op = "sync" THEN Batch ELSE 1)
    /\ counted[r] # NoBudget => /\ req[r] \in Request /\ req[r].op = "create"
                                /\ WasOf(counted[r], req[r].house)

\* Who has the module switched off moves no budget.
OffUnmoved ==
    \A b \in Budgets : SeedBudgets[b] # NoRow /\ "budgets" \notin Modules[SeedBudgets[b].house] =>
        b \notin moved

Inv ==
    /\ TypeOK
    /\ SpentIsCounted
    /\ \A r \in Reqs : Progress(r)
    /\ StrayOnlyIfMoved
    /\ SwitchedOffIsUntouched /\ OffUnmoved
    /\ FailedIsNotCounted

\* As many pairs as there are numbers.
LEMMA Pairs ==
    ASSUME NEW q, NEW n \in Nat
    PROVE  IsFiniteSet({q} \X (1..n)) /\ Cardinality({q} \X (1..n)) = n
  <1>1. IsFiniteSet(1..n) /\ Cardinality(1..n) = n
    BY FS_Interval
  <1>2. IsFiniteSet({q}) /\ Cardinality({q}) = 1
    BY FS_Singleton
  <1>3. IsFiniteSet({q} \X (1..n)) /\ Cardinality({q} \X (1..n)) = 1 * n
    BY <1>1, <1>2, FS_Product
  <1> QED
    BY <1>3

USE BatchAssumption, HouseAssumption, SeedAssumption, FiniteAssumption, SentinelAssumption

LEMMA Fields ==
    ASSUME NEW x \in Request
    PROVE  /\ x.op \in {"create", "sync"} /\ x.house \in Houses /\ x.acc \in Accounts
           /\ x.op = "create" => x.cat \in Categories \cup {NoCategory} /\ x.amount \in Nat
  BY DEF Request

-----------------------------------------------------------------------------
(* Sums.                                                                    *)

LEMMA SumType ==
    ASSUME NEW rs \in SUBSET Reqs, \A r \in rs : req[r].amount \in Nat
    PROVE  /\ IsFiniteSet(UNION {{r} \X (1..req[r].amount) : r \in rs})
           /\ Sum(rs) \in Nat
  <1> DEFINE Units == {{r} \X (1..req[r].amount) : r \in rs}
             f == [r \in rs |-> {r} \X (1..req[r].amount)]
  <1>1. IsFiniteSet(Units)
    <2>1. IsFiniteSet(rs)
      BY FS_Subset
    <2>2. f \in Surjection(rs, Units)
      BY DEF Surjection
    <2> HIDE DEF f, Units
    <2> QED
      BY <2>1, <2>2, FS_Surjection
  <1>2. ASSUME NEW r \in rs PROVE IsFiniteSet({r} \X (1..req[r].amount))
    <2>1. req[r].amount \in Nat
      OBVIOUS
    <2> QED
      BY <2>1, Pairs
  <1>3. \A u \in Units : IsFiniteSet(u)
    BY <1>2
  <1>4. IsFiniteSet(UNION Units)
    <2> HIDE DEF Units
    <2> QED
      BY <1>1, <1>3, FS_UNION
  <1> QED
    BY <1>4, FS_CardinalityType DEF Sum

LEMMA SumOfNone == Sum({}) = 0
  <1>1. UNION {{r} \X (1..req[r].amount) : r \in {}} = {}
    OBVIOUS
  <1> QED
    BY <1>1, FS_EmptySet DEF Sum

\* One more request adds its amount.
LEMMA SumOfOneMore ==
    ASSUME NEW rs \in SUBSET Reqs, NEW q \in Reqs, q \notin rs,
           \A r \in rs \cup {q} : req[r].amount \in Nat
    PROVE  Sum(rs \cup {q}) = Sum(rs) + req[q].amount
  <1> DEFINE Old == UNION {{r} \X (1..req[r].amount) : r \in rs}
             Mine == {q} \X (1..req[q].amount)
  <1>1. IsFiniteSet(Old) /\ Cardinality(Old) \in Nat
    BY SumType DEF Sum
  <1>2. IsFiniteSet(Mine) /\ Cardinality(Mine) = req[q].amount
    <2>1. req[q].amount \in Nat
      OBVIOUS
    <2> QED
      BY <2>1, Pairs
  <1>3. Cardinality(Old \cap Mine) = 0
    <2>1. Old \cap Mine = {}
      OBVIOUS
    <2> QED
      BY <2>1, FS_EmptySet
  <1>4. UNION {{r} \X (1..req[r].amount) : r \in rs \cup {q}} = Old \cup Mine
    OBVIOUS
  <1> HIDE DEF Old, Mine
  <1>5. Cardinality(Old \cup Mine) = Cardinality(Old) + Cardinality(Mine) - Cardinality(Old \cap Mine)
    BY <1>1, <1>2, FS_Union
  <1>6. Cardinality(Old \cup Mine) = Cardinality(Old) + req[q].amount
    BY <1>1, <1>2, <1>3, <1>5
  <1> QED
    BY <1>4, <1>6 DEF Sum, Old

\* Statements that neither count, reset nor create.
LEMMA SumsKept ==
    ASSUME Inv, counted' = counted, base' = base,
           \A r \in Reqs : counted[r] # NoBudget => req'[r] = req[r],
           \A b \in Budgets : BudgetExists(b)' => BudgetExists(b) /\ budgets'[b].spent = budgets[b].spent
    PROVE  SpentIsCounted'
  <1>1. ASSUME NEW b \in Budgets
        PROVE  Sum(CountedIn(b))' = Sum(CountedIn(b))
    <2>1. \A r \in CountedIn(b) : req'[r] = req[r]
      BY DEF CountedIn
    <2>2. CountedIn(b)' = CountedIn(b)
      BY DEF CountedIn
    <2>3. {{r} \X (1..req'[r].amount) : r \in CountedIn(b)} = {{r} \X (1..req[r].amount) : r \in CountedIn(b)}
      BY <2>1
    <2> QED
      BY <2>2, <2>3 DEF Sum
  <1> QED
    BY <1>1 DEF Inv, SpentIsCounted

LEMMA InitInv == Init => Inv
  <1> SUFFICES ASSUME Init PROVE Inv
    OBVIOUS
  <1>1. TypeOK
    <2>1. base \in [Budgets -> Nat]
      BY DEF Init, BudgetRow
    <2> QED
      BY <2>1 DEF Init, TypeOK
  <1>4. SpentIsCounted
    <2>1. ASSUME NEW b \in Budgets PROVE Sum(CountedIn(b)) = 0
      <3>1. CountedIn(b) = {}
        BY DEF Init, CountedIn
      <3> QED
        BY <3>1, SumOfNone
    <2>2. ASSUME NEW b \in Budgets, BudgetExists(b) PROVE budgets[b].spent = base[b] /\ base[b] \in Nat
      BY <2>2 DEF Init, BudgetExists, BudgetRow
    <2> QED
      BY <2>1, <2>2 DEF Init, SpentIsCounted
  <1>2. StrayOnlyIfMoved /\ SwitchedOffIsUntouched /\ OffUnmoved /\ FailedIsNotCounted
    BY DEF Init, StrayOnlyIfMoved, SwitchedOffIsUntouched, OffUnmoved, FailedIsNotCounted,
           BudgetExists, BudgetRow
  <1>3. ASSUME NEW r \in Reqs PROVE Progress(r)
    <2>1. \A n \in 1..Batch : <<r, n>> \in TxIds
      BY DEF TxIds
    <2> QED
      BY <2>1 DEF Init, Progress
  <1> QED
    BY <1>1, <1>2, <1>3, <1>4 DEF Inv

-----------------------------------------------------------------------------
\* Rows keep their household until they are moved or deleted, and then stay so.
TablesKept ==
    /\ \A x \in Accounts : owner[x] # NoRow => owner'[x] \in {owner[x], Deleted} \/ x \in moved'
    /\ moved \subseteq moved'
    /\ \A b \in Budgets, h \in Houses : WasOf(b, h) => WasOf(b, h)'
    /\ \A t \in TxIds : txs[t] # NoRow => txs'[t] # NoRow

\* What others do leaves a request where it is.
LEMMA OthersProgress ==
    ASSUME Inv, TablesKept, NEW r \in Reqs,
           pc'[r] = pc[r], req'[r] = req[r], stored'[r] = stored[r], budget'[r] = budget[r],
           reply'[r] = reply[r], counted'[r] \in {counted[r], NoBudget},
           \A n \in 1..Batch : txs[<<r, n>>] = NoRow => txs'[<<r, n>>] = NoRow
    PROVE  Progress(r)'
  <1>1. Progress(r) /\ stored[r] \in 0..Batch
    BY DEF Inv, TypeOK
  <1>2. \A n \in 1..Batch : <<r, n>> \in TxIds
    BY DEF TxIds
  <1>3. \A n \in 1..stored[r] : txs'[<<r, n>>] # NoRow
    BY <1>1, <1>2 DEF Progress, TablesKept
  <1>4. req[r] \in Request => req[r].house \in Houses /\ req[r].acc \in Accounts
    BY Fields
  <1>5. pc[r] = "insert" => owner'[req[r].acc] \in {req[r].house, Deleted} \/ req[r].acc \in moved'
    BY <1>1, <1>4 DEF Progress, TablesKept
  <1>6. pc[r] = "increment" => WasOf(budget[r], req[r].house)'
    BY <1>1, <1>4 DEF Progress, TablesKept, WasOf
  <1>7. counted'[r] # NoBudget => /\ req[r] \in Request /\ req[r].op = "create"
                                  /\ WasOf(counted[r], req[r].house)'
    BY <1>1, <1>4 DEF Progress, TablesKept, WasOf
  <1> QED
    BY <1>1, <1>3, <1>5, <1>6, <1>7 DEF Progress

LEMMA SameTablesKept ==
    ASSUME owner' = owner, budgets' = budgets, txs' = txs, moved' = moved
    PROVE  TablesKept
  BY DEF TablesKept, WasOf, BudgetExists

-----------------------------------------------------------------------------
\* Steps of one request that leave the tables alone.
Looks(r) == \/ FindAccount(r) \/ RejectAccount(r) \/ Publish(r) \/ FindBudget(r)
            \/ ListenerEnds(r) \/ Fail(r) \/ \E q \in Request : Arrive(r, q)

LEMMA LooksKeepInv ==
    ASSUME Inv, NEW r \in Reqs, Looks(r)
    PROVE  Inv'
  <1>1. /\ owner' = owner /\ category' = category /\ budgets' = budgets /\ txs' = txs
        /\ stored' = stored /\ base' = base /\ counted' = counted /\ moved' = moved
    BY DEF Looks, FindAccount, RejectAccount, Publish, FindBudget, ListenerEnds, Fail, Arrive
  <1>2. /\ \E to : pc' = [pc EXCEPT ![r] = to]
        /\ \E to : req' = [req EXCEPT ![r] = to]
        /\ \E to : reply' = [reply EXCEPT ![r] = to]
        /\ \E to : budget' = [budget EXCEPT ![r] = to]
    <2>1. \E to : pc' = [pc EXCEPT ![r] = to]
      BY DEF Looks, FindAccount, RejectAccount, Publish, FindBudget, ListenerEnds, Fail, Arrive, Respond
    <2>2. req' = req \/ \E to : req' = [req EXCEPT ![r] = to]
      BY DEF Looks, FindAccount, RejectAccount, Publish, FindBudget, ListenerEnds, Fail, Arrive, Respond
    <2>3. reply' = reply \/ \E to : reply' = [reply EXCEPT ![r] = to]
      BY DEF Looks, FindAccount, RejectAccount, Publish, FindBudget, ListenerEnds, Fail, Arrive, Respond
    <2>4. budget' = budget \/ \E to : budget' = [budget EXCEPT ![r] = to]
      BY DEF Looks, FindAccount, RejectAccount, Publish, FindBudget, ListenerEnds, Fail, Arrive, Respond
    <2>5. /\ req = [req EXCEPT ![r] = req[r]] /\ reply = [reply EXCEPT ![r] = reply[r]]
          /\ budget = [budget EXCEPT ![r] = budget[r]]
      BY DEF Inv, TypeOK
    <2> QED
      BY <2>1, <2>2, <2>3, <2>4, <2>5
  <1>3. TypeOK'
    <2> USE <1>1 DEF Inv, TypeOK, Looks, Respond
    <2>1. pc' \in [Reqs -> {"idle", "account", "insert", "flag", "find", "increment", "done"}]
      BY DEF FindAccount, RejectAccount, Publish, FindBudget, ListenerEnds, Fail, Arrive
    <2>2. reply' \in [Reqs -> {"none", "201", "404", "500", "lost"}]
      BY DEF FindAccount, RejectAccount, Publish, FindBudget, ListenerEnds, Fail, Arrive
    <2>3. req' \in [Reqs -> Request \cup {NoReq}]
      BY DEF FindAccount, RejectAccount, Publish, FindBudget, ListenerEnds, Fail, Arrive
    <2>4. budget' \in [Reqs -> Budgets \cup {NoBudget}]
      BY DEF FindAccount, RejectAccount, Publish, FindBudget, ListenerEnds, Fail, Arrive, Matching
    <2> QED
      BY <2>1, <2>2, <2>3, <2>4
  <1>4. Progress(r)'
    <2>0. Progress(r) /\ (pc[r] # "idle" => req[r].acc \in Accounts /\ req[r].house \in Houses)
      BY Fields DEF Inv, Progress
    <2>1. (pc[r] # "idle" => req'[r] = req[r]) /\ (pc[r] = "idle" => req'[r] \in Request)
      BY DEF Looks, FindAccount, RejectAccount, Publish, FindBudget, ListenerEnds, Fail, Arrive, Respond,
             Inv, TypeOK
    <2>2. \A h \in Houses : WasOf(counted[r], h) => WasOf(counted[r], h)'
      BY <1>1 DEF WasOf, BudgetExists
    <2> USE <1>1, <2>0, <2>1, <2>2 DEF Inv, TypeOK, Progress
    <2>3. CASE FindAccount(r)
      <3>1. owner[req[r].acc] = req[r].house
        BY <2>3 DEF FindAccount, AccountFound
      <3> QED
        BY <2>3, <3>1 DEF FindAccount
    <2>4. CASE RejectAccount(r) \/ Fail(r)
      BY <2>4 DEF RejectAccount, Fail, Respond
    <2>5. CASE Publish(r)
      BY <2>5 DEF Publish, Respond
    <2>6. CASE FindBudget(r)
      <3>1. PICK b \in Matching(r) : budget' = [budget EXCEPT ![r] = b]
        BY <2>6 DEF FindBudget
      <3>2. b \in Budgets /\ BudgetExists(b) /\ budgets[b].house = req[r].house /\ budget'[r] = b
        BY <3>1 DEF Matching
      <3>3. WasOf(budget[r], req[r].house)'
        BY <2>6, <3>2 DEF WasOf, BudgetExists, FindBudget
      <3> QED
        BY <2>6, <3>3 DEF FindBudget
    <2>7. CASE ListenerEnds(r)
      BY <2>7 DEF ListenerEnds, Respond
    <2>8. ASSUME NEW q \in Request, Arrive(r, q) PROVE Progress(r)'
      BY <2>8 DEF Arrive
    <2> QED
      BY <2>3, <2>4, <2>5, <2>6, <2>7, <2>8 DEF Looks
  <1>5. ASSUME NEW r2 \in Reqs PROVE Progress(r2)'
    <2>1. CASE r2 = r
      BY <2>1, <1>4
    <2>2. CASE r2 # r
      BY <2>2, <1>1, <1>2, SameTablesKept, OthersProgress DEF Inv, TypeOK
    <2> QED
      BY <2>1, <2>2
  <1>6. StrayOnlyIfMoved' /\ SwitchedOffIsUntouched' /\ OffUnmoved'
    BY <1>1 DEF Inv, StrayOnlyIfMoved, SwitchedOffIsUntouched, OffUnmoved, AccountExists, BudgetExists
  <1>7. FailedIsNotCounted'
    <2>1. \A x \in Reqs : reply'[x] = "500" => counted[x] = NoBudget
      <3>1. (reply'[r] # reply[r]) => pc[r] # "done"
        BY DEF Looks, FindAccount, RejectAccount, Publish, FindBudget, ListenerEnds, Fail, Arrive,
               Inv, TypeOK
      <3>2. pc[r] # "done" => counted[r] = NoBudget
        BY DEF Inv, Progress
      <3> QED
        BY <1>2, <3>1, <3>2 DEF Inv, TypeOK, FailedIsNotCounted
    <2> QED
      BY <1>1, <2>1 DEF FailedIsNotCounted
  <1>8. SpentIsCounted'
    <2>1. counted[r] # NoBudget => req'[r] = req[r]
      <3>1. pc[r] = "idle" => counted[r] = NoBudget
        BY DEF Inv, Progress
      <3>2. pc[r] # "idle" => req' = req
        BY DEF Looks, FindAccount, RejectAccount, Publish, FindBudget, ListenerEnds, Fail, Arrive
      <3> QED
        BY <3>1, <3>2
    <2>2. \A x \in Reqs : counted[x] # NoBudget => req'[x] = req[x]
      BY <1>2, <2>1 DEF Inv, TypeOK
    <2> QED
      BY <1>1, <2>2, SumsKept DEF BudgetExists
  <1> QED
    BY <1>3, <1>5, <1>6, <1>7, <1>8 DEF Inv

-----------------------------------------------------------------------------
\* Steps of one request that write a row.
LEMMA InsertsKeepInv ==
    ASSUME Inv, NEW r \in Reqs, Insert(r) \/ InsertUnacknowledged(r)
    PROVE  Inv'
  <1> DEFINE t == <<r, stored[r] + 1>>
  <1>1. /\ pc[r] = "insert" /\ Progress(r) /\ req[r] \in Request
        /\ owner' = owner /\ category' = category /\ moved' = moved
        /\ budgets' = budgets /\ req' = req /\ budget' = budget
        /\ base' = base /\ counted' = counted /\ counted[r] = NoBudget /\ reply[r] = "none"
        /\ txs' = [txs EXCEPT ![t] = Row(r)]
        /\ AccountExists(Row(r).acc)
    BY DEF Insert, InsertUnacknowledged, Store, Inv, Progress
  <1>2. /\ req[r].acc \in Accounts /\ req[r].house \in Houses
        /\ req[r].op \in {"create", "sync"}
        /\ req[r].op = "create" => req[r].cat \in Categories \cup {NoCategory}
    BY <1>1, Fields
  <1>3. Row(r) \in TxRow /\ Row(r) # NoRow /\ Row(r).house = req[r].house /\ Row(r).acc = req[r].acc
    BY <1>2 DEF Row, TxRow
  <1>4. owner[req[r].acc] \in Houses /\ (owner[req[r].acc] = req[r].house \/ req[r].acc \in moved)
    BY <1>1, <1>2, <1>3 DEF Progress, AccountExists
  <1>5. stored[r] \in 0..Batch /\ stored[r] < Batch /\ t \in TxIds
    BY <1>1 DEF Inv, TypeOK, TxIds, Progress
  <1>6. /\ \E to : stored' = [stored EXCEPT ![r] = to]
        /\ \E to : pc' = [pc EXCEPT ![r] = to]
        /\ \E to : reply' = [reply EXCEPT ![r] = to]
    <2>1. stored' = stored \/ \E to : stored' = [stored EXCEPT ![r] = to]
      BY DEF Insert, InsertUnacknowledged
    <2>2. pc' = pc \/ \E to : pc' = [pc EXCEPT ![r] = to]
      BY DEF Insert, InsertUnacknowledged, Respond
    <2>3. reply' = reply \/ \E to : reply' = [reply EXCEPT ![r] = to]
      BY DEF Insert, InsertUnacknowledged, Respond
    <2>4. /\ stored = [stored EXCEPT ![r] = stored[r]] /\ pc = [pc EXCEPT ![r] = pc[r]]
          /\ reply = [reply EXCEPT ![r] = reply[r]]
      BY DEF Inv, TypeOK
    <2> QED
      BY <2>1, <2>2, <2>3, <2>4
  <1>7. TypeOK'
    <2> USE <1>1 DEF Inv, TypeOK
    <2>1. txs' \in [TxIds -> TxRow \cup {NoRow, Deleted}]
      BY <1>3, <1>5
    <2>2. stored' \in [Reqs -> 0..Batch]
      BY <1>5 DEF Insert, InsertUnacknowledged
    <2>3. pc' \in [Reqs -> {"idle", "account", "insert", "flag", "find", "increment", "done"}]
      BY DEF Insert, InsertUnacknowledged, Respond
    <2>4. reply' \in [Reqs -> {"none", "201", "404", "500", "lost"}]
      BY DEF Insert, InsertUnacknowledged, Respond
    <2> QED
      BY <2>1, <2>2, <2>3, <2>4
  <1>8. \A u \in TxIds : txs'[u] = IF u = t THEN Row(r) ELSE txs[u]
    BY <1>1, <1>5 DEF Inv, TypeOK
  <1>9. TablesKept
    BY <1>1, <1>3, <1>8 DEF TablesKept, WasOf, BudgetExists
  <1>10. Progress(r)'
    <2>1. \A n \in 1..(stored[r] + 1) : txs'[<<r, n>>] # NoRow
      <3>1. \A n \in 1..Batch : <<r, n>> \in TxIds
        BY DEF TxIds
      <3> QED
        BY <1>1, <1>3, <1>5, <1>8, <3>1 DEF Progress
    <2> USE <1>1, <1>2, <1>4, <1>5, <2>1, BatchAssumption DEF Inv, TypeOK
    <2>2. CASE InsertUnacknowledged(r)
      BY <2>2 DEF InsertUnacknowledged, Respond, Progress
    <2>3. CASE Insert(r) /\ req[r].op = "create"
      BY <2>3 DEF Insert, Progress
    <2>4. CASE Insert(r) /\ req[r].op = "sync"
      <3>1. CASE stored[r] + 1 < Batch
        BY <2>4, <3>1 DEF Insert, Progress
      <3>2. CASE ~(stored[r] + 1 < Batch)
        BY <2>4, <3>2 DEF Insert, Respond, Progress
      <3> QED
        BY <3>1, <3>2
    <2> QED
      BY <2>2, <2>3, <2>4
  <1>11. ASSUME NEW r2 \in Reqs PROVE Progress(r2)'
    <2>1. CASE r2 # r
      <3>1. \A n \in 1..Batch : <<r2, n>> \in TxIds /\ <<r2, n>> # t
        BY <2>1 DEF TxIds
      <3> QED
        BY <2>1, <3>1, <1>1, <1>6, <1>8, <1>9, OthersProgress DEF Inv, TypeOK
    <2> QED
      BY <2>1, <1>10
  <1>12. StrayOnlyIfMoved'
    BY <1>1, <1>3, <1>4, <1>8 DEF Inv, StrayOnlyIfMoved, AccountExists
  <1>13. SwitchedOffIsUntouched' /\ OffUnmoved' /\ FailedIsNotCounted'
    BY <1>1, <1>6 DEF Inv, TypeOK, SwitchedOffIsUntouched, OffUnmoved, FailedIsNotCounted, BudgetExists
  <1>14. SpentIsCounted'
    BY <1>1, SumsKept DEF BudgetExists
  <1> QED
    BY <1>7, <1>11, <1>12, <1>13, <1>14 DEF Inv

LEMMA IncrementKeepsInv ==
    ASSUME Inv, NEW r \in Reqs, Increment(r)
    PROVE  Inv'
  <1> DEFINE b == budget[r]
             sum == budgets[b].spent + req[r].amount
  <1>1. /\ pc[r] = "increment" /\ Progress(r) /\ req[r] \in Request /\ req[r].op = "create"
        /\ BudgetExists(b) /\ WasOf(b, req[r].house) /\ "budgets" \in Modules[req[r].house]
        /\ budgets' = [budgets EXCEPT ![b].spent = sum]
        /\ counted' = [counted EXCEPT ![r] = b]
        /\ pc' = [pc EXCEPT ![r] = "done"] /\ reply' = [reply EXCEPT ![r] = "201"]
        /\ owner' = owner /\ category' = category /\ txs' = txs /\ req' = req /\ stored' = stored
        /\ budget' = budget /\ base' = base /\ moved' = moved
    BY DEF Increment, Count, Respond, Inv, Progress
  <1>2. b \in Budgets /\ budgets[b] \in BudgetRow /\ (budgets[b].house = req[r].house \/ b \in moved)
    BY <1>1 DEF WasOf, BudgetExists
  <1>3. sum \in Nat
    BY <1>1, <1>2, Fields DEF BudgetRow
  <1>4. budgets' = [budgets EXCEPT ![b] = [budgets[b] EXCEPT !.spent = sum]]
    BY <1>1
  <1>5. /\ [budgets[b] EXCEPT !.spent = sum] \in BudgetRow
        /\ [budgets[b] EXCEPT !.spent = sum].house = budgets[b].house
    BY <1>2, <1>3 DEF BudgetRow
  <1> HIDE DEF sum
  <1>6. \A c \in Budgets :
            budgets'[c] = IF c = b THEN [budgets[b] EXCEPT !.spent = sum] ELSE budgets[c]
    BY <1>4 DEF Inv, TypeOK
  <1>7. TypeOK'
    BY <1>1, <1>2, <1>4, <1>5 DEF Inv, TypeOK
  <1>8. TablesKept
    <2>1. ASSUME NEW c \in Budgets, NEW h \in Houses, WasOf(c, h) PROVE WasOf(c, h)'
      BY <1>1, <2>1, <1>2, <1>5, <1>6 DEF WasOf, BudgetExists
    <2> QED
      BY <2>1, <1>1 DEF TablesKept
  <1>9. Progress(r)'
    <2>1. WasOf(b, req[r].house)'
      BY <1>1, <1>2, <1>5, <1>6 DEF WasOf, BudgetExists
    <2> QED
      BY <2>1, <1>1, <1>2 DEF Inv, TypeOK, Progress, WasOf, BudgetExists
  <1>10. ASSUME NEW r2 \in Reqs PROVE Progress(r2)'
    <2>1. CASE r2 # r
      BY <2>1, <1>1, <1>8, OthersProgress DEF Inv, TypeOK
    <2> QED
      BY <2>1, <1>9
  <1>11. SwitchedOffIsUntouched' /\ OffUnmoved'
    <2>1. ASSUME NEW c \in Budgets, SeedBudgets[c] # NoRow, "budgets" \notin Modules[SeedBudgets[c].house]
          PROVE  c # b
      <3>1. c \notin moved /\ budgets[c].house = SeedBudgets[c].house
        BY <2>1 DEF Inv, OffUnmoved, SwitchedOffIsUntouched, BudgetRow
      <3> QED
        BY <1>1, <1>2, <2>1, <3>1
    <2> QED
      BY <1>1, <1>6, <2>1 DEF Inv, SwitchedOffIsUntouched, OffUnmoved, BudgetExists
  <1>12. StrayOnlyIfMoved' /\ FailedIsNotCounted'
    BY <1>1 DEF Inv, TypeOK, StrayOnlyIfMoved, FailedIsNotCounted, AccountExists
  <1>13. SpentIsCounted'
    <2>1. counted[r] = NoBudget /\ b # NoBudget /\ r \notin CountedIn(b)
      BY <1>1, <1>2 DEF Progress, CountedIn
    <2>2. CountedIn(b)' = CountedIn(b) \cup {r}
      BY <1>1 DEF CountedIn, Inv, TypeOK
    <2>3. \A x \in CountedIn(b) \cup {r} : req[x].amount \in Nat
      BY <1>1, <1>2, Fields DEF CountedIn, Inv, Progress
    <2>4. CountedIn(b) \in SUBSET Reqs
      BY DEF CountedIn
    <2>5. Sum(CountedIn(b) \cup {r}) = Sum(CountedIn(b)) + req[r].amount /\ Sum(CountedIn(b)) \in Nat
      BY <2>1, <2>3, <2>4, SumOfOneMore, SumType
    <2>6. \A rs : Sum(rs)' = Sum(rs)
      BY <1>1 DEF Sum
    <2>7. budgets'[b].spent = base'[b] + Sum(CountedIn(b))'
      <3>1. budgets[b].spent = base[b] + Sum(CountedIn(b))
        BY <1>1, <1>2 DEF Inv, SpentIsCounted
      <3>2. budgets'[b].spent = budgets[b].spent + req[r].amount
        BY <1>2, <1>6 DEF sum, BudgetRow
      <3>3. Sum(CountedIn(b))' = Sum(CountedIn(b)) + req[r].amount
        BY <2>2, <2>5, <2>6
      <3>4. base[b] \in Nat /\ req[r].amount \in Nat
        BY <1>2, <2>3 DEF Inv, TypeOK
      <3> QED
        BY <1>1, <2>5, <3>1, <3>2, <3>3, <3>4
    <2>8. ASSUME NEW c \in Budgets, c # b, BudgetExists(c)'
          PROVE  budgets'[c].spent = base'[c] + Sum(CountedIn(c))'
      <3>1. CountedIn(c)' = CountedIn(c)
        BY <1>1, <2>1, <2>8 DEF CountedIn, Inv, TypeOK
      <3>2. budgets'[c] = budgets[c] /\ BudgetExists(c)
        BY <1>6, <2>8 DEF BudgetExists
      <3> QED
        BY <1>1, <2>6, <3>1, <3>2 DEF Inv, SpentIsCounted
    <2>9. budget'[r] = b
      BY <1>1
    <2> QED
      BY <2>7, <2>8, <2>9 DEF SpentIsCounted
  <1> QED
    BY <1>7, <1>10, <1>11, <1>12, <1>13 DEF Inv

-----------------------------------------------------------------------------
LEMMA ResetKeepsSums ==
    ASSUME Inv, NEW b \in Budgets, NEW n \in Figures, ResetBudget(b, n)
    PROVE  SpentIsCounted'
  <1>1. /\ BudgetExists(b) /\ budgets[b] \in BudgetRow /\ b # NoBudget
        /\ budgets' = [budgets EXCEPT ![b] = [budgets[b] EXCEPT !.spent = n]]
        /\ base' = [base EXCEPT ![b] = n]
        /\ counted' = [r \in Reqs |-> IF counted[r] = b THEN NoBudget ELSE counted[r]]
        /\ \A rs : Sum(rs)' = Sum(rs)
    BY DEF ResetBudget, MayChange, BudgetExists, Aside, Sum
  <1>2. CountedIn(b)' = {} /\ \A c \in Budgets \ {b} : CountedIn(c)' = CountedIn(c)
    BY <1>1 DEF CountedIn
  <1>3. Sum(CountedIn(b))' = 0
    BY <1>1, <1>2, SumOfNone
  <1>4. budgets'[b].spent = n /\ base'[b] = n
    BY <1>1 DEF Inv, TypeOK, BudgetRow
  <1>5. ASSUME NEW c \in Budgets \ {b}, BudgetExists(c)'
        PROVE  budgets'[c].spent = base'[c] + Sum(CountedIn(c))'
    <2>1. budgets'[c] = budgets[c] /\ base'[c] = base[c]
      BY <1>1 DEF Inv, TypeOK
    <2> QED
      BY <1>1, <1>2, <1>5, <2>1 DEF Inv, SpentIsCounted, BudgetExists
  <1> QED
    BY <1>3, <1>4, <1>5 DEF SpentIsCounted

LEMMA CreateKeepsSums ==
    ASSUME Inv, NEW b \in Budgets, NEW row \in BudgetRow, CreateBudget(b, row)
    PROVE  SpentIsCounted'
  <1>1. /\ budgets[b] = NoRow /\ counted' = counted
        /\ base' = [base EXCEPT ![b] = row.spent]
        /\ budgets' = [budgets EXCEPT ![b] = row]
        /\ \A rs : Sum(rs)' = Sum(rs)
    BY DEF CreateBudget, Aside, Sum
  <1>2. CountedIn(b) = {}
    <2>1. \A x \in Houses : ~WasOf(b, x)
      BY <1>1 DEF WasOf, BudgetExists
    <2>2. \A r \in Reqs : counted[r] = b => req[r] \in Request /\ WasOf(b, req[r].house)
      BY DEF Inv, Progress
    <2> QED
      BY <2>1, <2>2, Fields DEF CountedIn
  <1>3. Sum(CountedIn(b))' = 0
    <2>1. CountedIn(b)' = {}
      BY <1>1, <1>2 DEF CountedIn
    <2> QED
      BY <1>1, <2>1, SumOfNone
  <1>4. budgets'[b].spent = row.spent /\ base'[b] = row.spent /\ row.spent \in Nat
    BY <1>1 DEF Inv, TypeOK, BudgetRow
  <1>5. ASSUME NEW d \in Budgets \ {b}, BudgetExists(d)'
        PROVE  budgets'[d].spent = base'[d] + Sum(CountedIn(d))'
    <2>1. budgets'[d] = budgets[d] /\ base'[d] = base[d] /\ CountedIn(d)' = CountedIn(d)
      BY <1>1 DEF Inv, TypeOK, CountedIn
    <2> QED
      BY <1>1, <1>5, <2>1 DEF Inv, SpentIsCounted, BudgetExists
  <1> QED
    BY <1>3, <1>4, <1>5 DEF SpentIsCounted

LEMMA EditsKeepSums ==
    ASSUME Inv, EditTables
    PROVE  SpentIsCounted'
  <1> USE DEF BudgetExists, Aside
  <1>1. CASE UNCHANGED <<budgets, base, counted, req>>
    BY <1>1, SumsKept
  <1>2. ASSUME NEW b \in Budgets, RemoveBudget(b) PROVE SpentIsCounted'
    <2>1. \A c \in Budgets : budgets'[c] = IF c = b THEN Deleted ELSE budgets[c]
      BY <1>2 DEF RemoveBudget, Inv, TypeOK
    <2> QED
      BY <1>2, <2>1, SumsKept DEF RemoveBudget
  <1>3. ASSUME NEW b \in Budgets, NEW h \in Houses, NEW c \in Categories, MoveBudget(b, h, c)
        PROVE  SpentIsCounted'
    <2>1. budgets[b] \in BudgetRow
      BY <1>3 DEF MoveBudget, MayChange
    <2>2. \A d \in Budgets :
              budgets'[d] = IF d = b THEN [house |-> h, cat |-> c, spent |-> budgets[b].spent] ELSE budgets[d]
      BY <1>3 DEF MoveBudget, Inv, TypeOK
    <2>3. [house |-> h, cat |-> c, spent |-> budgets[b].spent] \in BudgetRow
      BY <2>1 DEF BudgetRow
    <2> QED
      BY <1>3, <2>1, <2>2, <2>3, SumsKept DEF MoveBudget
  <1>4. ASSUME NEW c \in Categories, NEW bs \in SUBSET Budgets, CreateCategory(c, bs)
        PROVE  SpentIsCounted'
    <2>1. \A d \in bs : /\ budgets[d] \in BudgetRow /\ [budgets[d] EXCEPT !.cat = c] \in BudgetRow
                        /\ [budgets[d] EXCEPT !.cat = c].spent = budgets[d].spent
      BY <1>4 DEF CreateCategory, BudgetRow
    <2>2. \A d \in Budgets : budgets'[d] = IF d \in bs THEN [budgets[d] EXCEPT !.cat = c] ELSE budgets[d]
      BY <1>4 DEF CreateCategory
    <2> QED
      BY <1>4, <2>1, <2>2, SumsKept DEF CreateCategory
  <1>5. ASSUME NEW b \in Budgets, NEW h \in Houses, NEW c \in Categories, NEW n \in Figures,
               CreateBudget(b, [house |-> h, cat |-> c, spent |-> n])
        PROVE  SpentIsCounted'
    <2>1. [house |-> h, cat |-> c, spent |-> n] \in BudgetRow
      BY DEF BudgetRow
    <2> QED
      BY <1>5, <2>1, CreateKeepsSums
  <1> QED
    BY <1>1, <1>2, <1>3, <1>4, <1>5, ResetKeepsSums
       DEF EditTables, RemoveTransaction, EditTransaction, CreateAccount, MoveAccount, RemoveAccount,
           RemoveCategory

\* Statements of other requests, which move none of those above.
LEMMA EditsKeepInv ==
    ASSUME Inv, EditTables
    PROVE  Inv'
  <1>1. /\ pc' = pc /\ req' = req /\ stored' = stored /\ budget' = budget /\ reply' = reply
        /\ \A r \in Reqs : counted'[r] \in {counted[r], NoBudget}
    BY DEF EditTables, RemoveTransaction, EditTransaction, CreateAccount, MoveAccount, RemoveAccount,
           CreateCategory, RemoveCategory, RemoveBudget, ResetBudget, MoveBudget, CreateBudget, Aside
  <1> DEFINE Rest == /\ TypeOK' /\ TablesKept /\ StrayOnlyIfMoved'
                     /\ SwitchedOffIsUntouched' /\ OffUnmoved'
                     /\ \A t \in TxIds : txs[t] = NoRow => txs'[t] = NoRow
  <1>0. ASSUME NEW b \in Budgets, MayChange(b)
        PROVE  /\ budgets[b] \in BudgetRow
               /\ SeedBudgets[b] # NoRow => "budgets" \in Modules[SeedBudgets[b].house]
    BY <1>0 DEF MayChange, BudgetExists, Inv, SwitchedOffIsUntouched, BudgetRow
  <1> USE DEF Inv, TypeOK, TablesKept, StrayOnlyIfMoved, SwitchedOffIsUntouched, OffUnmoved, WasOf,
              BudgetExists, AccountExists, Aside
  <1>2. ASSUME NEW t \in TxIds, RemoveTransaction(t) PROVE Rest
    BY <1>2 DEF RemoveTransaction
  <1>3. ASSUME NEW t \in TxIds, NEW row \in TxRow, EditTransaction(t, row) PROVE Rest
    <2>1. /\ row.acc \in Accounts /\ owner[row.acc] \in Houses
          /\ t \in moved' \/ (row.acc = txs[t].acc /\ row.house = txs[t].house)
      BY <1>3 DEF EditTransaction, TxRow
    <2>2. \A u \in TxIds : txs'[u] = IF u = t THEN row ELSE txs[u]
      BY <1>3 DEF EditTransaction
    <2>3. moved' \subseteq moved \cup {t} /\ moved \subseteq moved' /\ owner' = owner /\ budgets' = budgets
      BY <1>3 DEF EditTransaction
    <2>4. ASSUME NEW u \in TxIds, txs'[u] \in TxRow
          PROVE  /\ owner'[txs'[u].acc] \in Houses
                 /\ owner'[txs'[u].acc] = txs'[u].house \/ {u, txs'[u].acc} \cap moved' # {}
      <3>1. CASE u # t
        BY <2>2, <2>3, <2>4, <3>1
      <3>2. CASE u = t
        <4>1. txs'[u] = row /\ txs[u] \in TxRow
          BY <1>3, <2>2, <3>2 DEF EditTransaction
        <4> QED
          BY <2>1, <2>3, <3>2, <4>1
      <3> QED
        BY <3>1, <3>2
    <2>5. TypeOK' /\ TablesKept
      BY <1>3, <2>2, <2>3 DEF EditTransaction
    <2>6. SwitchedOffIsUntouched' /\ OffUnmoved'
      <3>1. \A b \in Budgets : b \in moved' => b \in moved
        BY <2>3, KindAssumption DEF TxIds
      <3> QED
        BY <2>3, <3>1
    <2>7. txs[t] # NoRow
      BY <1>3 DEF EditTransaction
    <2> QED
      BY <2>2, <2>4, <2>5, <2>6, <2>7
  <1>4. ASSUME NEW a \in Accounts, NEW h \in Houses, CreateAccount(a, h) PROVE Rest
    <2>1. \A t \in TxIds : txs[t] \in TxRow => txs[t].acc # a
      BY <1>4 DEF CreateAccount
    <2> QED
      BY <1>4, <2>1 DEF CreateAccount, TxRow
  <1>5. ASSUME NEW a \in Accounts, RemoveAccount(a) PROVE Rest
    BY <1>5 DEF RemoveAccount, TxRow
  <1>6. ASSUME NEW c \in Categories, RemoveCategory(c) PROVE Rest
    <2>1. \A t \in TxIds : txs[t] \in TxRow =>
              /\ [txs[t] EXCEPT !.cat = NoCategory] \in TxRow
              /\ [txs[t] EXCEPT !.cat = NoCategory].acc = txs[t].acc
              /\ [txs[t] EXCEPT !.cat = NoCategory].house = txs[t].house
      BY DEF TxRow
    <2>2. \A t \in TxIds :
              txs'[t] = IF txs[t] \in TxRow /\ txs[t].cat = c
                        THEN [txs[t] EXCEPT !.cat = NoCategory] ELSE txs[t]
      BY <1>6 DEF RemoveCategory
    <2>3. txs' \in [TxIds -> TxRow \cup {NoRow, Deleted}]
      BY <1>6, <2>1 DEF RemoveCategory
    <2>4. \A t \in TxIds : txs'[t] \in TxRow =>
              txs[t] \in TxRow /\ txs'[t].acc = txs[t].acc /\ txs'[t].house = txs[t].house
      BY <2>1, <2>2
    <2> QED
      BY <1>6, <2>1, <2>2, <2>3, <2>4 DEF RemoveCategory
  <1>7. ASSUME NEW b \in Budgets, RemoveBudget(b) PROVE Rest
    BY <1>0, <1>7 DEF RemoveBudget
  <1>8. ASSUME NEW b \in Budgets, NEW n \in Figures, ResetBudget(b, n) PROVE Rest
    BY <1>0, <1>8 DEF ResetBudget, MayChange, BudgetRow
  <1>9. ASSUME NEW b \in Budgets, NEW h \in Houses, NEW c \in Categories, MoveBudget(b, h, c) PROVE Rest
    <2>1. MayChange(b) /\ budgets[b] \in BudgetRow
      BY <1>9, <1>0 DEF MoveBudget
    <2>2. [house |-> h, cat |-> c, spent |-> budgets[b].spent] \in BudgetRow
      BY <2>1 DEF BudgetRow
    <2>3. \A d \in Budgets :
              budgets'[d] = IF d = b THEN [house |-> h, cat |-> c, spent |-> budgets[b].spent] ELSE budgets[d]
      BY <1>9 DEF MoveBudget
    <2>4. moved \subseteq moved' /\ moved' \subseteq moved \cup {b} /\ (h # budgets[b].house => b \in moved')
      BY <1>9 DEF MoveBudget
    <2>5. TypeOK'
      BY <1>9, <2>2, <2>4 DEF MoveBudget
    <2>6. TablesKept /\ StrayOnlyIfMoved'
      BY <1>9, <2>1, <2>2, <2>3, <2>4 DEF MoveBudget
    <2>7. SwitchedOffIsUntouched' /\ OffUnmoved'
      BY <1>0, <2>1, <2>3, <2>4
    <2> QED
      BY <1>9, <2>5, <2>6, <2>7 DEF MoveBudget
  <1>10. ASSUME NEW b \in Budgets, NEW h \in Houses, NEW c \in Categories, NEW n \in Figures,
                CreateBudget(b, [house |-> h, cat |-> c, spent |-> n])
         PROVE  Rest
    BY <1>10 DEF CreateBudget, BudgetRow
  <1>11. ASSUME NEW a \in Accounts, NEW h \in Houses, MoveAccount(a, h) PROVE Rest
    <2>1. moved' = moved \cup {a} /\ owner' = [owner EXCEPT ![a] = h] /\ txs' = txs /\ budgets' = budgets
      BY <1>11 DEF MoveAccount
    <2>2. TypeOK' /\ TablesKept
      BY <1>11, <2>1 DEF MoveAccount
    <2>3. ASSUME NEW u \in TxIds, txs[u] \in TxRow
          PROVE  /\ owner'[txs[u].acc] \in Houses
                 /\ owner'[txs[u].acc] = txs[u].house \/ {u, txs[u].acc} \cap moved' # {}
      <3>1. txs[u].acc \in Accounts /\ owner[txs[u].acc] \in Houses
        BY <2>3 DEF TxRow
      <3>2. CASE txs[u].acc = a
        BY <2>1, <3>1, <3>2
      <3>3. CASE txs[u].acc # a
        BY <2>1, <2>3, <3>1, <3>3
      <3> QED
        BY <3>2, <3>3
    <2>4. SwitchedOffIsUntouched' /\ OffUnmoved'
      BY <2>1, KindAssumption
    <2> QED
      BY <2>1, <2>2, <2>3, <2>4
  <1>12. ASSUME NEW c \in Categories, NEW bs \in SUBSET Budgets, CreateCategory(c, bs) PROVE Rest
    <2>1. \A d \in bs : /\ budgets[d] \in BudgetRow /\ [budgets[d] EXCEPT !.cat = c] \in BudgetRow
                        /\ [budgets[d] EXCEPT !.cat = c].house = budgets[d].house
      BY <1>12 DEF CreateCategory, BudgetRow
    <2>2. \A d \in Budgets : budgets'[d] = IF d \in bs THEN [budgets[d] EXCEPT !.cat = c] ELSE budgets[d]
      BY <1>12 DEF CreateCategory
    <2>3. budgets' \in [Budgets -> BudgetRow \cup {NoRow, Deleted}]
      BY <1>12, <2>1 DEF CreateCategory
    <2>4. TypeOK'
      BY <1>12, <2>3 DEF CreateCategory
    <2>5. TablesKept /\ StrayOnlyIfMoved' /\ OffUnmoved'
      BY <1>12, <2>1, <2>2 DEF CreateCategory
    <2>6. ASSUME NEW d \in Budgets, SeedBudgets[d] # NoRow,
                 "budgets" \notin Modules[SeedBudgets[d].house]
          PROVE  budgets'[d] \in BudgetRow /\ budgets'[d] = [SeedBudgets[d] EXCEPT !.cat = budgets'[d].cat]
      <3>1. budgets[d] \in BudgetRow /\ budgets[d] = [SeedBudgets[d] EXCEPT !.cat = budgets[d].cat]
        BY <2>6
      <3>2. SeedBudgets[d] \in BudgetRow
        BY <2>6
      <3>3. [budgets[d] EXCEPT !.cat = c] = [SeedBudgets[d] EXCEPT !.cat = c]
        BY <3>1, <3>2 DEF BudgetRow
      <3>4. [budgets[d] EXCEPT !.cat = c].cat = c
        BY <3>1 DEF BudgetRow
      <3>5. CASE d \in bs
        BY <2>1, <2>2, <3>3, <3>4, <3>5
      <3>6. CASE d \notin bs
        BY <2>2, <3>1, <3>6
      <3> QED
        BY <3>5, <3>6
    <2> QED
      BY <1>12, <2>4, <2>5, <2>6 DEF CreateCategory
  <1>13. Rest
    BY <1>2, <1>3, <1>4, <1>5, <1>6, <1>7, <1>8, <1>9, <1>10, <1>11, <1>12 DEF EditTables
  <1>14. ASSUME NEW r \in Reqs PROVE Progress(r)'
    <2>1. \A n \in 1..Batch : <<r, n>> \in TxIds
      BY DEF TxIds
    <2> QED
      BY <1>1, <1>13, <2>1, OthersProgress
  <1>15. FailedIsNotCounted'
    BY <1>1 DEF FailedIsNotCounted
  <1> QED
    BY <1>13, <1>14, <1>15, EditsKeepSums

LEMMA CrashKeepsInv ==
    ASSUME Inv, Crash
    PROVE  Inv'
  <1>1. /\ \A r \in Reqs : /\ pc'[r] = (IF Active(r) THEN "done" ELSE pc[r])
                           /\ reply'[r] = (IF Active(r) THEN "lost" ELSE reply[r])
        /\ owner' = owner /\ category' = category /\ budgets' = budgets /\ txs' = txs /\ req' = req
        /\ stored' = stored /\ budget' = budget /\ base' = base /\ counted' = counted /\ moved' = moved
    BY DEF Crash
  <1>2. TypeOK'
    BY DEF Crash, Inv, TypeOK
  <1>3. ASSUME NEW r \in Reqs PROVE Progress(r)'
    <2>1. Progress(r)
      BY DEF Inv
    <2> QED
      BY <1>1, <2>1 DEF Active, Progress, WasOf, BudgetExists
  <1>4. StrayOnlyIfMoved' /\ SwitchedOffIsUntouched' /\ OffUnmoved' /\ FailedIsNotCounted'
    BY <1>1 DEF Inv, StrayOnlyIfMoved, SwitchedOffIsUntouched, OffUnmoved, FailedIsNotCounted,
                AccountExists, BudgetExists
  <1>5. SpentIsCounted'
    BY <1>1, SumsKept DEF BudgetExists
  <1> QED
    BY <1>2, <1>3, <1>4, <1>5 DEF Inv

LEMMA NextKeepsInv ==
    ASSUME Inv, [Next]_vars
    PROVE  Inv'
  <1>1. ASSUME NEW r \in Reqs, Serve(r) \/ \E q \in Request : Arrive(r, q) PROVE Inv'
    BY <1>1, LooksKeepInv, InsertsKeepInv, IncrementKeepsInv DEF Serve, Looks
  <1>2. CASE UNCHANGED vars
    <2>1. SpentIsCounted'
      BY <1>2, SumsKept DEF vars, BudgetExists
    <2> QED
      BY <1>2, <2>1 DEF vars, Inv, TypeOK, Progress, WasOf, BudgetExists, AccountExists,
                        StrayOnlyIfMoved, SwitchedOffIsUntouched, OffUnmoved, FailedIsNotCounted
  <1> QED
    BY <1>1, <1>2, EditsKeepInv, CrashKeepsInv DEF Next

LEMMA Invariance == Spec => []Inv
  <1> QED
    BY InitInv, NextKeepsInv, PTL DEF Spec

-----------------------------------------------------------------------------
\* Every variable stays within its type, for any tables and any batch size.
THEOREM TypeCorrect == Spec => []TypeOK
  <1>1. Inv => TypeOK
    BY DEF Inv
  <1> QED
    BY <1>1, Invariance, PTL

\* However listeners, resets, moves and removals come together, a budget holds
\* what a client last set and the amounts of the requests counted since.
THEOREM SpentAddsUp == Spec => []SpentIsCounted
  <1>1. Inv => SpentIsCounted
    BY DEF Inv
  <1> QED
    BY <1>1, Invariance, PTL

\* No removal between the check and the INSERT leaves a transaction with a missing
\* account, and none but bodies that move the one or the other leaves it with an
\* account of another household.
THEOREM StraysWereMoved == Spec => []StrayOnlyIfMoved
  <1>1. Inv => StrayOnlyIfMoved
    BY DEF Inv
  <1> QED
    BY <1>1, Invariance, PTL

\* A listener never adds to the budget of another household, however budgets are
\* removed, created and put in other categories between its two statements, unless a
\* body moved the budget there.
THEOREM CountsFollowMoves == Spec => []CountedAwayOnlyIfMoved
  <1>1. Inv => CountedAwayOnlyIfMoved
    BY DEF Inv, Progress, CountedAwayOnlyIfMoved, WasOf, BudgetExists
  <1> QED
    BY <1>1, Invariance, PTL

\* Nothing reaches the budgets of a household that has the module switched off.
THEOREM OffStaysUntouched == Spec => []SwitchedOffIsUntouched
  <1>1. Inv => SwitchedOffIsUntouched
    BY DEF Inv
  <1> QED
    BY <1>1, Invariance, PTL

\* A request that is answered 500 has been added to no budget.
THEOREM FailedStaysUncounted == Spec => []FailedIsNotCounted
  <1>1. Inv => FailedIsNotCounted
    BY DEF Inv
  <1> QED
    BY <1>1, Invariance, PTL

\* What 201 and 404 say of the table of transactions, for any batch size.
THEOREM RepliesMatch == Spec => []ReplyMatchesRows
  <1>1. Inv => ReplyMatchesRows
    <2> SUFFICES ASSUME Inv, NEW r \in Reqs
                 PROVE  /\ reply[r] = "201" => \A n \in 1..(IF req[r].op = "sync" THEN Batch ELSE 1) :
                                                   txs[<<r, n>>] # NoRow
                        /\ reply[r] = "404" => \A n \in 1..Batch : txs[<<r, n>>] = NoRow
      BY DEF ReplyMatchesRows
    <2>1. Progress(r) /\ stored[r] \in 0..Batch
      BY DEF Inv, TypeOK
    <2> QED
      BY <2>1 DEF Progress
  <1> QED
    BY <1>1, Invariance, PTL
=============================================================================
