------------------------------ MODULE MCLedger ------------------------------
(* Ledger on a small instance. *)
EXTENDS Ledger, TLC

CONSTANTS h1, h2, a1, a2, c1, c2, b1, b2, q1, q2

TwoHouses == {h1, h2}
TwoAccounts == {a1, a2}
TwoCategories == {c1, c2}
TwoBudgets == {b1, b2}
TwoReqs == {q1, q2}
OneAmount == {1}
OnlyTwo == {2}

\* One account and one category, and one of each still to come.  As in the seed, the
\* first household has every module and the second none; it has a budget from before.
FirstOwner == (a1 :> h1) @@ (a2 :> NoRow)
FirstThere == (c1 :> Present) @@ (c2 :> NoRow)
OnForTheFirst == (h1 :> {"budgets", "bank-sync"}) @@ (h2 :> {})
OldBudget == (b1 :> NoRow) @@ (b2 :> [house |-> h2, cat |-> c1, spent |-> 1])

\* Accounts, categories and stored transactions are as requests have left them.
Unedited == /\ owner = SeedOwner /\ category = SeedCategory
            /\ \A t \in TxIds : txs[t] # Deleted /\ t \notin moved

\* BOUND: one request meets every statement there is, two meet each other and
\* whatever happens to budgets.
AloneOrUnedited == Cardinality({r \in Reqs : pc[r] # "idle"}) <= 1 \/ Unedited

\* No two households, accounts, categories or budgets are alike.
Symmetry == Permutations(Reqs)
=============================================================================
