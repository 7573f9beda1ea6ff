----------------------------- MODULE MCStartup -----------------------------
(* Startup of the program as it is, and of programs with one module more. *)
EXTENDS Startup, TLC

reportsPermissions == CrudDescriptor("reports", {"read"}, {"read"})

\* A second module named accounts, and one that declares another's permission.
Namesake == [reportsPermissions EXCEPT !.module = "accounts"]
Claimant == [reportsPermissions EXCEPT !.permissions = @ \cup Of("accounts", {"read"})]

\* A module that also has a rule for another's permission, which register accepts.
Meddler == [reportsPermissions EXCEPT
               !.delegation = OwnRules("reports", {"read"}) @@ OwnRules("accounts", {"read", "edit"})]

TheBuilds == {AppModule} \cup {AppModule \cup {d} : d \in {Namesake, Claimant, Meddler}}
TheNames == {d.module : d \in AppModule \cup {reportsPermissions}}
TheKeys == ALL_PERMISSIONS \cup Of("reports", {"read"})
=============================================================================
