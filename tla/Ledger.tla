------------------------------- MODULE Ledger -------------------------------
(***************************************************************************)
(* Transactions and what hangs on them in the finance-tracker: POST        *)
(* /transactions with the event that lets the budgets module add to        *)
(* currentSpent, POST /accounts/:id/sync, and the single statements on     *)
(* transactions, budgets, accounts and categories that run between the     *)
(* steps of the two.                                                       *)
(*                                                                         *)
(* Every await is a step, every statement may fail, and a failing INSERT   *)
(* or UPDATE may have been committed.  Who may send what is the matter of  *)
(* Roles.  Dates, texts, limits and balances, and whose a category is,     *)
(* decide nothing and are left out; of an amount only what the event       *)
(* carries is kept.  Ids are never used twice.                             *)
(*                                                                         *)
(* Nothing strips a body of the fields its handler does not declare, and   *)
(* every update hands the whole of it to Prisma: with householdId it moves *)
(* an account, a budget or a transaction to another household, with        *)
(* accountId a transaction to another account, and with budgets POST       *)
(* /categories takes budgets along.  A body with several such fields does  *)
(* here what several bodies do.                                            *)
(***************************************************************************)
EXTENDS Naturals, FiniteSets

CONSTANTS Houses,
          Modules,     \* household -> the optional modules switched on
          Accounts,
          Batch,       \* number of transactions a bank returns
          Categories,
          Budgets,
          SeedOwner, SeedCategory, SeedBudgets, \* the tables at the start
          Amounts,     \* of transactions
          Figures,     \* values of currentSpent in bodies
          Reqs,        \* requests with more than one statement
          NoRow, Present, Deleted, NoCategory, NoBudget, NoReq

VARIABLES owner,    \* Account: id -> household
          category, \* Category: id -> is there a row
          budgets,  \* Budget: id -> household, category, currentSpent
          txs,      \* Transaction: request, number -> household, account, category
          pc,       \* per request, what it awaits
          req,      \* per request, what it asks
          stored,   \* per request, the transactions it has inserted (synced)
          budget,   \* per request, the budget its listener has found
          reply,    \* per request, the status of its response
          base,     \* history: per budget, the currentSpent last set by a client
          counted,  \* history: per request, the budget it was added to since
          moved     \* history: the rows that bodies have put elsewhere

vars == <<owner, category, budgets, txs, pc, req, stored, budget, reply, base, counted, moved>>

BudgetRow == [house : Houses, cat : Categories, spent : Nat]
TxRow == [house : Houses, acc : Accounts, cat : Categories \cup {NoCategory}]
TxIds == Reqs \X (1..Batch)

Request == [op : {"create"}, house : Houses, acc : Accounts,
            cat : Categories \cup {NoCategory}, amount : Amounts]
           \cup [op : {"sync"}, house : Houses, acc : Accounts]

ASSUME BatchAssumption == Batch \in Nat \ {0} /\ Amounts \subseteq Nat /\ Figures \subseteq Nat
ASSUME HouseAssumption == Modules \in [Houses -> SUBSET {"budgets", "bank-sync"}]
ASSUME SeedAssumption == /\ SeedOwner \in [Accounts -> Houses \cup {NoRow}]
                         /\ SeedCategory \in [Categories -> {NoRow, Present}]
                         /\ SeedBudgets \in [Budgets -> BudgetRow \cup {NoRow}]
ASSUME FiniteAssumption == IsFiniteSet(Reqs)
ASSUME KindAssumption == Budgets \cap (Accounts \cup TxIds) = {}
ASSUME SentinelAssumption ==
    /\ {NoRow, Deleted} \cap (Houses \cup BudgetRow \cup TxRow) = {} /\ NoRow # Deleted
    /\ Present \notin {NoRow, Deleted} /\ NoCategory \notin Categories /\ NoBudget \notin Budgets /\ NoReq \notin Request

TypeOK ==
    /\ owner \in [Accounts -> Houses \cup {NoRow, Deleted}]
    /\ category \in [Categories -> {NoRow, Present, Deleted}]
    /\ budgets \in [Budgets -> BudgetRow \cup {NoRow, Deleted}]
    /\ txs \in [TxIds -> TxRow \cup {NoRow, Deleted}]
    /\ pc \in [Reqs -> {"idle", "account", "insert", "flag", "find", "increment", "done"}]
    /\ req \in [Reqs -> Request \cup {NoReq}]
    /\ stored \in [Reqs -> 0..Batch]
    /\ budget \in [Reqs -> Budgets \cup {NoBudget}]
    /\ reply \in [Reqs -> {"none", "201", "404", "500", "lost"}]
    /\ base \in [Budgets -> Nat]
    /\ counted \in [Reqs -> Budgets \cup {NoBudget}]
    /\ moved \subseteq Accounts \cup Budgets \cup TxIds

Init ==
    /\ owner = SeedOwner
    /\ category = SeedCategory
    /\ budgets = SeedBudgets
    /\ txs = [t \in TxIds |-> NoRow]
    /\ pc = [r \in Reqs |-> "idle"]
    /\ req = [r \in Reqs |-> NoReq]
    /\ stored = [r \in Reqs |-> 0]
    /\ budget = [r \in Reqs |-> NoBudget]
    /\ reply = [r \in Reqs |-> "none"]
    /\ base = [b \in Budgets |-> IF SeedBudgets[b] = NoRow THEN 0 ELSE SeedBudgets[b].spent]
    /\ counted = [r \in Reqs |-> NoBudget]
    /\ moved = {}

BudgetExists(b) == budgets[b] \in BudgetRow

AccountExists(a) == owner[a] \in Houses

CategoryExists(c) == category[c] = Present

-----------------------------------------------------------------------------
(* Requests.                                                                *)

\* FeatureFlagGuard: the controllers of the optional modules name their module.
Allowed(q) == q.op = "sync" => "bank-sync" \in Modules[q.house]

Arrive(r, q) ==
    /\ pc[r] = "idle"
    /\ Allowed(q)
    /\ req' = [req EXCEPT ![r] = q]
    /\ pc' = [pc EXCEPT ![r] = "account"]
    /\ UNCHANGED <<owner, category, budgets, txs, stored, budget, reply, base, counted, moved>>

\* The request ends with this response.
Respond(r, status) ==
    /\ pc' = [pc EXCEPT ![r] = "done"]
    /\ reply' = [reply EXCEPT ![r] = status]

SwallowedInsertFault(r) ==
    /\ pc[r] \in {"account", "insert", "flag"}
    /\ IF pc[r] = "insert" /\ req[r].op = "sync" /\ stored[r] + 1 < Batch
       THEN stored' = [stored EXCEPT ![r] = @ + 1] /\ UNCHANGED <<pc, reply>>
       ELSE Respond(r, "500") /\ UNCHANGED stored
    /\ UNCHANGED <<owner, category, budgets, txs, req, budget, base, counted, moved>>

\* A statement or an adapter fails outside every try.
Fail(r) ==
    /\ pc[r] \in {"account", "insert", "flag"}
    /\ Respond(r, "500")
    /\ UNCHANGED <<owner, category, budgets, txs, req, stored, budget, base, counted, moved>>

\* findFirst by id and household.
AccountFound(r) == owner[req[r].acc] = req[r].house

UnscopedAccountFault(r) ==
    /\ pc[r] = "account"
    /\ AccountExists(req[r].acc)
    /\ pc' = [pc EXCEPT ![r] = "insert"]
    /\ UNCHANGED <<owner, category, budgets, txs, req, stored, budget, reply, base, counted, moved>>

\* A sync goes on to fetch what the adapter of the bank returns.
FindAccount(r) ==
    /\ pc[r] = "account"
    /\ AccountFound(r)
    /\ pc' = [pc EXCEPT ![r] = "insert"]
    /\ UNCHANGED <<owner, category, budgets, txs, req, stored, budget, reply, base, counted, moved>>

\* No account of the household, no bank name (400 in the code), or no adapter for
\* it: bodies set it to anything.
RejectAccount(r) ==
    /\ pc[r] = "account"
    /\ ~AccountFound(r) \/ req[r].op = "sync"
    /\ Respond(r, "404")
    /\ UNCHANGED <<owner, category, budgets, txs, req, stored, budget, base, counted, moved>>

-----------------------------------------------------------------------------
(* The INSERTs: one for create, one after the other for sync.               *)

Row(r) == [house |-> req[r].house, acc |-> req[r].acc,
           cat |-> IF req[r].op = "create" THEN req[r].cat ELSE NoCategory]

\* The row goes in unless a foreign key leads nowhere.
Store(r) ==
    /\ pc[r] = "insert"
    /\ AccountExists(Row(r).acc) /\ (Row(r).cat # NoCategory => CategoryExists(Row(r).cat))
    /\ txs' = [txs EXCEPT ![<<r, stored[r] + 1>>] = Row(r)]
    /\ UNCHANGED <<owner, category, budgets, req, budget, base, counted, moved>>

OneTooManyFault(r) ==
    /\ Store(r)
    /\ stored' = [stored EXCEPT ![r] = @ + 1]
    /\ CASE req[r].op = "create" ->
              pc' = [pc EXCEPT ![r] = "flag"] /\ UNCHANGED reply
         [] req[r].op = "sync" /\ stored[r] < Batch -> UNCHANGED <<pc, reply>>
         [] OTHER -> Respond(r, "201")

Insert(r) ==
    /\ Store(r)
    /\ stored' = [stored EXCEPT ![r] = @ + 1]
    /\ CASE req[r].op = "create" ->
              pc' = [pc EXCEPT ![r] = "flag"] /\ UNCHANGED reply
         [] req[r].op = "sync" /\ stored[r] + 1 < Batch -> UNCHANGED <<pc, reply>>
         [] OTHER -> Respond(r, "201")

InsertUnacknowledged(r) ==
    /\ Store(r)
    /\ Respond(r, "500")
    /\ UNCHANGED stored

-----------------------------------------------------------------------------
(* EventBus.publish and TransactionCreatedListener.handle.                  *)

UngatedFault(r) ==
    /\ pc[r] = "flag"
    /\ IF req[r].cat # NoCategory
       THEN pc' = [pc EXCEPT ![r] = "find"] /\ UNCHANGED reply
       ELSE Respond(r, "201")
    /\ UNCHANGED <<owner, category, budgets, txs, req, stored, budget, base, counted, moved>>

\* The listener is called if the module is on, and returns at once without a category.
Publish(r) ==
    /\ pc[r] = "flag"
    /\ IF "budgets" \in Modules[req[r].house] /\ req[r].cat # NoCategory
       THEN pc' = [pc EXCEPT ![r] = "find"] /\ UNCHANGED reply
       ELSE Respond(r, "201")
    /\ UNCHANGED <<owner, category, budgets, txs, req, stored, budget, base, counted, moved>>

UnscopedMatchFault(r) == {b \in Budgets : BudgetExists(b) /\ budgets[b].cat = req[r].cat}

Matching(r) == {b \in Budgets : /\ BudgetExists(b)
                                /\ budgets[b].house = req[r].house
                                /\ budgets[b].cat = req[r].cat}

\* findFirst without an order: any of them.
FindBudget(r) ==
    /\ pc[r] = "find"
    /\ \E b \in Matching(r) : budget' = [budget EXCEPT ![r] = b]
    /\ pc' = [pc EXCEPT ![r] = "increment"]
    /\ UNCHANGED <<owner, category, budgets, txs, req, stored, reply, base, counted, moved>>

\* There is no budget, a statement fails, or the budget has been deleted since:
\* publish swallows it.
ListenerEnds(r) ==
    /\ \/ pc[r] = "find"
       \/ pc[r] = "increment"
    /\ Respond(r, "201")
    /\ UNCHANGED <<owner, category, budgets, txs, req, stored, budget, base, counted, moved>>

\* The UPDATE is carried out.
Count(r, spent) ==
    /\ pc[r] = "increment"
    /\ BudgetExists(budget[r])
    /\ budgets' = [budgets EXCEPT ![budget[r]].spent = spent]
    /\ counted' = [counted EXCEPT ![r] = budget[r]]
    /\ UNCHANGED <<owner, category, txs, req, stored, budget, base, moved>>

SetInsteadOfIncrementFault(r) == Count(r, req[r].amount) /\ Respond(r, "201")

UncaughtFault(r) ==
    /\ Count(r, budgets[budget[r]].spent + req[r].amount)
    /\ Respond(r, "201") \/ Respond(r, "500")

\* Acknowledged or not, the response is the same.
Increment(r) ==
    /\ Count(r, budgets[budget[r]].spent + req[r].amount)
    /\ Respond(r, "201")

-----------------------------------------------------------------------------
(* Requests of one statement.                                               *)

\* What requests of one statement leave alone.
Aside == UNCHANGED <<pc, req, stored, budget, reply>>

\* PUT /transactions/:id; DELETE /transactions/:id.
EditTransaction(t, row) ==
    /\ txs[t] \in TxRow
    /\ AccountExists(row.acc) /\ (row.cat # NoCategory => CategoryExists(row.cat))
    /\ txs' = [txs EXCEPT ![t] = row]
    /\ moved' = IF [row EXCEPT !.cat = txs[t].cat] = txs[t] THEN moved ELSE moved \cup {t}
    /\ Aside /\ UNCHANGED <<owner, category, budgets, base, counted>>

RemoveTransaction(t) ==
    /\ txs[t] \in TxRow
    /\ txs' = [txs EXCEPT ![t] = Deleted]
    /\ Aside /\ UNCHANGED <<owner, category, budgets, base, counted, moved>>

CreateAccount(a, h) ==
    /\ owner[a] = NoRow
    /\ owner' = [owner EXCEPT ![a] = h]
    /\ Aside /\ UNCHANGED <<category, budgets, txs, base, counted, moved>>

\* PUT /accounts/:id, to another household.
MoveAccount(a, h) ==
    /\ AccountExists(a) /\ owner[a] # h
    /\ owner' = [owner EXCEPT ![a] = h]
    /\ moved' = moved \cup {a}
    /\ Aside /\ UNCHANGED <<category, budgets, txs, base, counted>>

\* Transactions refer to accounts ON DELETE RESTRICT.
RemoveAccount(a) ==
    /\ AccountExists(a)
    /\ \A t \in TxIds : txs[t] \in TxRow => txs[t].acc # a
    /\ owner' = [owner EXCEPT ![a] = Deleted]
    /\ Aside /\ UNCHANGED <<category, budgets, txs, base, counted, moved>>

\* The new category may take budgets along: CategoriesController asks for no module.
CreateCategory(c, bs) ==
    /\ category[c] = NoRow
    /\ category' = [category EXCEPT ![c] = Present]
    /\ \A b \in bs : BudgetExists(b)
    /\ budgets' = [b \in Budgets |-> IF b \in bs THEN [budgets[b] EXCEPT !.cat = c] ELSE budgets[b]]
    /\ Aside /\ UNCHANGED <<owner, txs, base, counted, moved>>

\* Budgets refer to categories ON DELETE RESTRICT, transactions ON DELETE SET NULL.
RemoveCategory(c) ==
    /\ CategoryExists(c)
    /\ \A b \in Budgets : BudgetExists(b) => budgets[b].cat # c
    /\ category' = [category EXCEPT ![c] = Deleted]
    /\ txs' = [t \in TxIds |-> IF txs[t] \in TxRow /\ txs[t].cat = c
                               THEN [txs[t] EXCEPT !.cat = NoCategory] ELSE txs[t]]
    /\ Aside /\ UNCHANGED <<owner, budgets, base, counted, moved>>

\* BudgetsController stands behind the flag of its module.
CreateBudget(b, row) ==
    /\ "budgets" \in Modules[row.house]
    /\ budgets[b] = NoRow /\ CategoryExists(row.cat)
    /\ budgets' = [budgets EXCEPT ![b] = row]
    /\ base' = [base EXCEPT ![b] = row.spent]
    /\ Aside /\ UNCHANGED <<owner, category, txs, counted, moved>>

MayChange(b) == BudgetExists(b) /\ "budgets" \in Modules[budgets[b].house]

\* PUT /budgets/:id: the household and the category, ...
MoveBudget(b, h, c) ==
    /\ MayChange(b) /\ CategoryExists(c)
    /\ budgets' = [budgets EXCEPT ![b] = [house |-> h, cat |-> c, spent |-> @.spent]]
    /\ moved' = IF h = budgets[b].house THEN moved ELSE moved \cup {b}
    /\ Aside /\ UNCHANGED <<owner, category, txs, base, counted>>

\* ... and currentSpent, which starts anew.
ResetBudget(b, spent) ==
    /\ MayChange(b)
    /\ budgets' = [budgets EXCEPT ![b].spent = spent]
    /\ base' = [base EXCEPT ![b] = spent]
    /\ counted' = [r \in Reqs |-> IF counted[r] = b THEN NoBudget ELSE counted[r]]
    /\ Aside /\ UNCHANGED <<owner, category, txs, moved>>

RemoveBudget(b) ==
    /\ MayChange(b)
    /\ budgets' = [budgets EXCEPT ![b] = Deleted]
    /\ Aside /\ UNCHANGED <<owner, category, txs, base, counted, moved>>

-----------------------------------------------------------------------------
Active(r) == pc[r] \notin {"idle", "done"}

\* The process dies and is started again; the tables remain.
Crash ==
    /\ \E r \in Reqs : Active(r)
    /\ pc' = [r \in Reqs |-> IF Active(r) THEN "done" ELSE pc[r]]
    /\ reply' = [r \in Reqs |-> IF Active(r) THEN "lost" ELSE reply[r]]
    /\ UNCHANGED <<owner, category, budgets, txs, req, stored, budget, base, counted, moved>>

Serve(r) == \/ FindAccount(r) \/ RejectAccount(r) \/ Insert(r) \/ InsertUnacknowledged(r)
            \/ Publish(r) \/ FindBudget(r) \/ ListenerEnds(r) \/ Increment(r) \/ Fail(r)

EditTables ==
    \/ \E t \in TxIds : RemoveTransaction(t) \/ \E row \in TxRow : EditTransaction(t, row)
    \/ \E a \in Accounts : \/ RemoveAccount(a)
                           \/ \E h \in Houses : CreateAccount(a, h) \/ MoveAccount(a, h)
    \/ \E c \in Categories : RemoveCategory(c) \/ \E bs \in SUBSET Budgets : CreateCategory(c, bs)
    \/ \E b \in Budgets :
           \/ RemoveBudget(b)
           \/ \E n \in Figures : ResetBudget(b, n)
           \/ \E h \in Houses, c \in Categories :
                  \/ MoveBudget(b, h, c)
                  \/ \E n \in Figures : CreateBudget(b, [house |-> h, cat |-> c, spent |-> n])

Next ==
    \/ \E r \in Reqs : Serve(r) \/ \E q \in Request : Arrive(r, q)
    \/ EditTables
    \/ Crash

Spec == Init /\ [][Next]_vars

-----------------------------------------------------------------------------
(* Properties.                                                              *)

\* What the amounts of some requests add up to, a unit of each at a time.
Sum(rs) == Cardinality(UNION {{r} \X (1..req[r].amount) : r \in rs})

CountedIn(b) == {r \in Reqs : counted[r] = b}

\* No increment is lost or counted twice: a budget holds what a client last set
\* and the amounts of the requests counted since, however listeners, resets,
\* moves and removals come together (the increment of handle).
SpentIsCounted ==
    \A b \in Budgets : BudgetExists(b) =>
        budgets[b].spent = base[b] + Sum(CountedIn(b))

\* GUIDE.md: every query must be scoped.  Of counting, the code keeps this: it is in a
\* budget of the transaction's household, although the transaction may carry a category
\* of another and budgets move between categories.  Where the two households differ, a
\* body took the budget there, before the increment or after it.
CountedAwayOnlyIfMoved ==
    \A r \in Reqs : counted[r] # NoBudget /\ BudgetExists(counted[r]) =>
        budgets[counted[r]].house = req[r].house \/ counted[r] \in moved

\* GUIDE.md: the event trap.  The budgets of a household that has the module switched
\* off stay, with what is spent, whatever requests and the events of other modules
\* do (FeatureFlagGuard and publish).  Their category may change: POST /categories
\* takes any budget along.
SwitchedOffIsUntouched ==
    \A b \in Budgets : SeedBudgets[b] # NoRow /\ "budgets" \notin Modules[SeedBudgets[b].house] =>
        BudgetExists(b) /\ budgets[b] = [SeedBudgets[b] EXCEPT !.cat = budgets[b].cat]

\* GUIDE.md: transactions are scoped to an account, and therefore to a household.  The
\* code keeps this: a transaction belongs to an account that exists, and to the same
\* household, although accounts are removed between the check and the INSERT.  Where the
\* two differ, a body moved the one or the other, before the INSERT or after it.
StrayOnlyIfMoved ==
    \A t \in TxIds : txs[t] \in TxRow =>
        /\ AccountExists(txs[t].acc)
        /\ owner[txs[t].acc] = txs[t].house \/ {t, txs[t].acc} \cap moved # {}

\* Who is told 500 may try again without being counted twice: nothing that
\* happens after the event reaches the budget makes create fail.
FailedIsNotCounted == \A r \in Reqs : reply[r] = "500" => counted[r] = NoBudget

\* Who is told 201 has all its transactions in the table (or had: another request
\* may have deleted them), and who is told 404 has none.
ReplyMatchesRows ==
    \A r \in Reqs :
        /\ reply[r] = "201" => \A n \in 1..(IF req[r].op = "sync" THEN Batch ELSE 1) :
                                   txs[<<r, n>>] # NoRow
        /\ reply[r] = "404" => \A n \in 1..Batch : txs[<<r, n>>] = NoRow
=============================================================================
