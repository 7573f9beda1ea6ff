------------------------------- MODULE MCRoles -------------------------------
(* Roles on small instances. *)
EXTENDS Roles, TLC

CONSTANTS alice, bob, charlie, dave, ha, hb, r1, r2, r3, r4, q1, q2, q3

TwoReqs == {q1, q2}
ThreeReqs == {q1, q2, q3}
TwoHouses == {ha, hb}
OneHouse == {ha}
FourUsers == {alice, bob, charlie, dave}
OneUser == {bob}
FourRoles == {r1, r2, r3, r4}
TwoRoles == {r1, r2}

\* manage stands for the permissions of the routes, each of which one may pass
\* on; edit is granted by those who may delete; nobody has audit; ghost is in no
\* descriptor.
TheKeys == {"manage", "edit", "delete", "audit", "ghost"}
TheRegistry == [manage |-> "manage", edit |-> "delete", delete |-> "delete", audit |-> "audit"]
TheNeeds == [o \in Ops |-> "manage"]

\* Bob has no role, and dave is still to come.
HomeOfAll == (alice :> ha) @@ (bob :> ha) @@ (charlie :> hb) @@ (dave :> NoRow)
HomeOfBob == (bob :> ha)
TwoActors == {alice, charlie}

Owner(h) == [house |-> h, perms |-> {"manage", "edit", "delete"}]
Editor(h) == [house |-> h, perms |-> {"manage", "edit"}]
Member(h) == [house |-> h, perms |-> {"manage"}]

\* Household A without an owner, household B with one, and an id to spare.
RolesOfTwoHouses == (r1 :> Editor(ha)) @@ (r2 :> Member(ha)) @@ (r3 :> Owner(hb)) @@ (r4 :> NoRow)
HoldersOfTwoHouses == (r1 :> {}) @@ (r2 :> {alice}) @@ (r3 :> {charlie}) @@ (r4 :> {})

\* A role nobody holds, with a permission nobody may grant.
RolesOfOneHouse == (r1 :> [house |-> ha, perms |-> {"edit"}]) @@ (r2 :> Member(ha))
HoldersOfOneHouse == (r1 :> {}) @@ (r2 :> {bob})

SomeBodies == {{}, {"delete"}, {"audit"}, {"ghost"}}
FewBodies == {{}, {"edit"}}

\* A new user comes with nothing, or with the owner's role of household B.
NoneOrOwner == {{}, {r3}}
OnlyNone == {{}}

Symmetry == Permutations(Reqs)
=============================================================================
