-------------------------------- MODULE Roles --------------------------------
(***************************************************************************)
(* Custom roles and users of the finance-tracker: RolesService and         *)
(* UsersService behind the PermissionsGuard, over the tables CustomRole,   *)
(* User and UserRoleAssignment.                                            *)
(*                                                                         *)
(* Every request is a chain of awaited statements; other requests run      *)
(* between any two of them, and any statement may fail.  Reading a user's  *)
(* assignments and their roles is one statement, and ids are never used    *)
(* twice.                                                                  *)
(*                                                                         *)
(* Nothing strips a body of the fields its handler does not declare, and   *)
(* UsersService hands the whole of it to Prisma: with householdId, PUT     *)
(* /users moves the user, and with roleAssignments, POST /users assigns    *)
(* roles that exist already.                                               *)
(***************************************************************************)
EXTENDS Naturals

CONSTANTS Keys,         \* strings a client may send as a permission
          GrantableBy,  \* the registry: a known permission -> who may grant it
          Needs,        \* operation -> the permission its route requires
          Houses, Users,
          Actors,       \* the users requests come from (FakeAuthMiddleware)
          RoleIds,
          Reqs,         \* requests
          Bodies,       \* permission sets requests may carry
          NestedRoles,  \* role sets that bodies of POST /users may carry
          SeedHome,     \* User at the start, and the household in an actor's token
          SeedRoles,    \* CustomRole at the start
          SeedHolders,  \* role -> users who hold it at the start
          NoRow,        \* no row
          Deleted,      \* what is left of a deleted one
          Seeded,       \* identity of the assignments made by the seed
          NoReq         \* no request yet

VARIABLES home,      \* User: id -> household
          role,      \* CustomRole: id -> household and permissions
          assigned,  \* UserRoleAssignment: user, role -> who inserted the row
          pc,        \* per request, the statement it waits for
          req,       \* per request, what it asks
          seen,      \* per request, the permissions findOne returned
          row        \* per request, the assignment findFirst returned

vars == <<home, role, assigned, pc, req, seen, row>>

Known == DOMAIN GrantableBy

Ops == {"create", "update", "remove", "assign", "unassign",
        "addUser", "editUser", "removeUser"}

UserOps == {"addUser", "editUser", "removeUser"}

RoleRow == [house : Houses, perms : SUBSET Known]

Request == [op : {"create"}, actor : Actors, perms : Bodies]
           \cup [op : {"update"}, actor : Actors, role : RoleIds, perms : Bodies]
           \cup [op : {"remove"}, actor : Actors, role : RoleIds]
           \cup [op : {"assign", "unassign"}, actor : Actors, role : RoleIds, user : Users]
           \cup [op : {"addUser"}, actor : Actors, roles : NestedRoles]
           \cup [op : {"editUser"}, actor : Actors, user : Users, to : Houses]
           \cup [op : {"removeUser"}, actor : Actors, user : Users]

ASSUME RegistryAssumption == /\ Known \subseteq Keys
                             /\ GrantableBy \in [Known -> Known]
                             /\ Needs \in [Ops -> Known]
                             /\ Bodies \subseteq SUBSET Keys
                             /\ NestedRoles \subseteq SUBSET RoleIds
ASSUME PeopleAssumption ==
    /\ SeedHome \in [Users -> Houses \cup {NoRow}]
    /\ Actors \subseteq Users /\ \A u \in Actors : SeedHome[u] \in Houses
ASSUME SeedAssumption ==
    /\ SeedRoles \in [RoleIds -> RoleRow \cup {NoRow}]
    /\ SeedHolders \in [RoleIds -> SUBSET Users]
    /\ \A r \in RoleIds : \A u \in SeedHolders[r] :
           SeedRoles[r] \in RoleRow /\ SeedHome[u] = SeedRoles[r].house
ASSUME SentinelAssumption ==
    /\ {NoRow, Deleted} \cap RoleRow = {} /\ {NoRow, Deleted} \cap Houses = {} /\ NoRow # Deleted
    /\ {NoRow, Seeded} \cap Reqs = {} /\ NoRow # Seeded
    /\ NoReq \notin Request

TypeOK ==
    /\ home \in [Users -> Houses \cup {NoRow, Deleted}]
    /\ role \in [RoleIds -> RoleRow \cup {NoRow, Deleted}]
    /\ assigned \in [Users \X RoleIds -> Reqs \cup {Seeded, NoRow}]
    /\ pc \in [Reqs -> {"idle", "guard", "find", "findUser", "delegate", "write",
                     "drop", "done"}]
    /\ req \in [Reqs -> Request \cup {NoReq}]
    /\ seen \in [Reqs -> SUBSET Known]
    /\ row \in [Reqs -> Reqs \cup {Seeded, NoRow}]

Init ==
    /\ home = SeedHome
    /\ role = SeedRoles
    /\ assigned = [a \in Users \X RoleIds |->
                      IF a[1] \in SeedHolders[a[2]] THEN Seeded ELSE NoRow]
    /\ pc = [q \in Reqs |-> "idle"]
    /\ req = [q \in Reqs |-> NoReq]
    /\ seen = [q \in Reqs |-> {}]
    /\ row = [q \in Reqs |-> NoRow]

-----------------------------------------------------------------------------
(* What the handlers read.                                                  *)

Exists(r) == role[r] \in RoleRow

\* getEffectivePermissions: the union over the user's roles.
Effective(u) == {p \in Known : \E r \in RoleIds :
                    assigned[<<u, r>>] # NoRow /\ Exists(r) /\ p \in role[r].perms}

\* canDelegate: no rule, no delegation.
CanDelegate(u, p) == p \in Known /\ GrantableBy[p] \in Effective(u)

House(q) == SeedHome[req[q].actor]

\* The body holds a field that its handler does not declare, and that changes rows.
Undeclared(q) ==
    /\ pc[q] # "idle"
    /\ \/ req[q].op = "addUser" /\ req[q].roles # {}
       \/ req[q].op = "editUser" /\ req[q].to # House(q)

InHousehold(q) == Exists(req[q].role) /\ role[req[q].role].house = House(q)

\* Faults the runs must catch are named ...Fault; no action uses them.
NothingToGrantFault(q) == IF req[q].op = "assign" THEN seen[q] ELSE {}

\* The permissions checkDelegation is asked about.
ToGrant(q) == CASE req[q].op = "create" -> req[q].perms
                [] req[q].op = "update" -> req[q].perms \ seen[q]
                [] OTHER -> seen[q]

Goes(q, from, to) == pc[q] = from /\ pc' = [pc EXCEPT ![q] = to]

-----------------------------------------------------------------------------
(* The steps of a request.                                                  *)

Arrive(q) ==
    /\ Goes(q, "idle", "guard")
    /\ \E x \in Request : req' = [req EXCEPT ![q] = x]
    /\ UNCHANGED <<home, role, assigned, seen, row>>

\* validatePermissionKeys; the other operations carry no keys.
Valid(q) == req[q].op \in {"create", "update"} => req[q].perms \subseteq Known

\* PermissionsGuard, and what create does before its first await.
Guard(q) ==
    /\ pc[q] = "guard"
    /\ \/ /\ Needs[req[q].op] \notin Effective(req[q].actor)
          /\ Goes(q, "guard", "done")
       \/ /\ Needs[req[q].op] \in Effective(req[q].actor)
          /\ \/ req[q].op = "create" /\ Valid(q) /\ Goes(q, "guard", "delegate")
             \/ req[q].op = "create" /\ ~Valid(q) /\ Goes(q, "guard", "done")
             \/ req[q].op \in UserOps /\ Goes(q, "guard", "write")
             \/ req[q].op \notin UserOps \cup {"create"} /\ Goes(q, "guard", "find")
    /\ UNCHANGED <<home, role, assigned, req, seen, row>>

UnscopedFindFault(q) ==
    /\ pc[q] = "find" /\ req[q].op \in {"update", "remove", "assign"}
    /\ Exists(req[q].role)
    /\ Goes(q, "find", IF req[q].op = "assign" THEN "findUser" ELSE "write")
    /\ seen' = [seen EXCEPT ![q] = role[req[q].role].perms]
    /\ UNCHANGED <<home, role, assigned, req, row>>

UncheckedUpdateFault(q) ==
    /\ pc[q] = "find" /\ InHousehold(q)
    /\ seen' = [seen EXCEPT ![q] = role[req[q].role].perms]
    /\ req[q].op = "update" /\ Goes(q, "find", "write")
    /\ UNCHANGED <<home, role, assigned, req, row>>

\* findOne succeeds; update filters the added keys.
FindRole(q) ==
    /\ pc[q] = "find" /\ InHousehold(q)
    /\ seen' = [seen EXCEPT ![q] = role[req[q].role].perms]
    /\ \/ /\ req[q].op = "update" /\ Valid(q)
          /\ \/ req[q].perms \subseteq seen'[q] /\ Goes(q, "find", "write")
             \/ ~(req[q].perms \subseteq seen'[q]) /\ Goes(q, "find", "delegate")
       \/ req[q].op = "remove" /\ Goes(q, "find", "write")
       \/ req[q].op = "assign" /\ Goes(q, "find", "findUser")
    /\ UNCHANGED <<home, role, assigned, req, row>>

\* assignRole looks for the user in the household of the request.
FindUser(q) ==
    /\ Goes(q, "findUser", "delegate")
    /\ home[req[q].user] = House(q)
    /\ UNCHANGED <<home, role, assigned, req, seen, row>>

\* 404 for the role or the user, 400 for an unknown key.
FindNothing(q) ==
    /\ \/ /\ pc[q] = "find" /\ req[q].op \in {"update", "remove", "assign"}
          /\ ~InHousehold(q) \/ ~Valid(q)
       \/ pc[q] = "findUser" /\ home[req[q].user] # House(q)
    /\ Goes(q, pc[q], "done")
    /\ UNCHANGED <<home, role, assigned, req, seen, row>>

\* unassignRole looks for the assignment whatever its household.
FindAssignment(q) ==
    /\ pc[q] = "find" /\ req[q].op = "unassign"
    /\ row' = [row EXCEPT ![q] = assigned[<<req[q].user, req[q].role>>]]
    /\ Goes(q, "find", IF row'[q] = NoRow THEN "done" ELSE "write")
    /\ UNCHANGED <<home, role, assigned, req, seen>>

\* checkDelegation, on the permissions the actor has now.
CheckDelegation(q) ==
    /\ pc[q] = "delegate"
    /\ \/ /\ \A p \in ToGrant(q) : CanDelegate(req[q].actor, p)
          /\ Goes(q, "delegate", "write")
       \/ /\ \E p \in ToGrant(q) : ~CanDelegate(req[q].actor, p)
          /\ Goes(q, "delegate", "done")
    /\ UNCHANGED <<home, role, assigned, req, seen, row>>

Create(q) ==
    /\ pc[q] = "write" /\ req[q].op = "create"
    /\ Goes(q, "write", "done")
    /\ \E r \in RoleIds :
           /\ role[r] = NoRow
           /\ role' = [role EXCEPT ![r] = [house |-> House(q), perms |-> req[q].perms]]
    /\ UNCHANGED <<home, assigned, req, seen, row>>

\* UPDATE ... WHERE id: the list is replaced as a whole.
Update(q) ==
    /\ pc[q] = "write" /\ req[q].op = "update"
    /\ Goes(q, "write", "done")
    /\ Exists(req[q].role)
    /\ role' = [role EXCEPT ![req[q].role].perms = req[q].perms]
    /\ UNCHANGED <<home, assigned, req, seen, row>>

\* INSERT under the unique key and the foreign keys.
Assign(q) ==
    /\ pc[q] = "write" /\ req[q].op = "assign"
    /\ Goes(q, "write", "done")
    /\ Exists(req[q].role) /\ home[req[q].user] \in Houses
    /\ assigned[<<req[q].user, req[q].role>>] = NoRow
    /\ assigned' = [assigned EXCEPT ![<<req[q].user, req[q].role>>] = q]
    /\ UNCHANGED <<home, role, req, seen, row>>

\* DELETE by the id of the row found, which may be gone or another by now.
Unassign(q) ==
    /\ pc[q] = "write" /\ req[q].op = "unassign"
    /\ Goes(q, "write", "done")
    /\ assigned[<<req[q].user, req[q].role>>] = row[q]
    /\ assigned' = [assigned EXCEPT ![<<req[q].user, req[q].role>>] = NoRow]
    /\ UNCHANGED <<home, role, req, seen, row>>

\* remove: first every assignment of the role, ...
ClearRole(q) ==
    /\ pc[q] = "write" /\ req[q].op = "remove"
    /\ Goes(q, "write", "drop")
    /\ assigned' = [a \in Users \X RoleIds |-> IF a[2] = req[q].role THEN NoRow
                                                                    ELSE assigned[a]]
    /\ UNCHANGED <<home, role, req, seen, row>>

\* ... then the role, unless an assignment has come in between.
DropRole(q) ==
    /\ Goes(q, "drop", "done")
    /\ Exists(req[q].role)
    /\ \A u \in Users : assigned[<<u, req[q].role>>] = NoRow
    /\ role' = [role EXCEPT ![req[q].role] = Deleted]
    /\ UNCHANGED <<home, assigned, req, seen, row>>

\* UsersService.create, a single transaction whatever the body nests.
AddUser(q) ==
    /\ pc[q] = "write" /\ req[q].op = "addUser"
    /\ Goes(q, "write", "done")
    /\ \A r \in req[q].roles : Exists(r)
    /\ \E u \in Users :
           /\ home[u] = NoRow
           /\ home' = [home EXCEPT ![u] = House(q)]
           /\ assigned' = [a \in Users \X RoleIds |->
                              IF a[1] = u /\ a[2] \in req[q].roles THEN q ELSE assigned[a]]
    /\ UNCHANGED <<role, req, seen, row>>

\* UsersService.update: updateMany where the id and the household are the request's.
EditUser(q) ==
    /\ pc[q] = "write" /\ req[q].op = "editUser"
    /\ Goes(q, "write", "done")
    /\ home[req[q].user] = House(q)
    /\ home' = [home EXCEPT ![req[q].user] = req[q].to]
    /\ UNCHANGED <<role, assigned, req, seen, row>>

CascadeFault(q) ==
    /\ pc[q] = "write" /\ req[q].op = "removeUser"
    /\ Goes(q, "write", "done")
    /\ home[req[q].user] = House(q)
    /\ home' = [home EXCEPT ![req[q].user] = Deleted]
    /\ UNCHANGED <<role, assigned, req, seen, row>>

\* UsersService.remove; assignments refer to users ON DELETE RESTRICT.
RemoveUser(q) ==
    /\ pc[q] = "write" /\ req[q].op = "removeUser"
    /\ Goes(q, "write", "done")
    /\ home[req[q].user] = House(q)
    /\ \A r \in RoleIds : assigned[<<req[q].user, r>>] = NoRow
    /\ home' = [home EXCEPT ![req[q].user] = Deleted]
    /\ UNCHANGED <<role, assigned, req, seen, row>>

\* The statement finds no row or fails: a constraint, a row that is gone, a lost connection.
Fail(q) ==
    /\ pc[q] \notin {"idle", "done"}
    /\ pc' = [pc EXCEPT ![q] = "done"]
    /\ UNCHANGED <<home, role, assigned, req, seen, row>>

Step(q) ==
    \/ Guard(q) \/ FindRole(q) \/ FindUser(q) \/ FindNothing(q) \/ FindAssignment(q)
    \/ CheckDelegation(q) \/ Create(q) \/ Update(q) \/ Assign(q) \/ Unassign(q) \/ ClearRole(q) \/ DropRole(q)
    \/ AddUser(q) \/ EditUser(q) \/ RemoveUser(q) \/ Fail(q)

Next == \E q \in Reqs : Arrive(q) \/ Step(q)

Spec == Init /\ [][Next]_vars

-----------------------------------------------------------------------------
(* Properties.                                                              *)

\* Some PUT /users carried another household for the user.
Carried(u) == \E q \in Reqs : Undeclared(q) /\ req[q].op = "editUser" /\ req[q].user = u

\* The assignment came with the body of a POST /users.
Nested(u, r) == assigned[<<u, r>>] \in Reqs /\ req[assigned[<<u, r>>]].op = "addUser"

\* GUIDE.md: roles are assigned within a household.  Of that the code keeps this: an
\* assignment always leads to a role and a user that exist, and their households differ
\* for two reasons only: the user was moved, or the assignment came with the user.  No
\* race of assignRole with the removals of the role or the user is a third.
AssignmentsRefer ==
    \A u \in Users, r \in RoleIds : assigned[<<u, r>>] # NoRow =>
        /\ Exists(r) /\ home[u] \in Houses
        /\ home[u] = role[r].house \/ Carried(u) \/ Nested(u, r)

\* What a step of q may change.
StaysAtHome(q) ==
    /\ \A r \in RoleIds : role'[r] # role[r] =>
           House(q) = IF Exists(r) THEN role[r].house ELSE role'[r].house
    /\ \A u \in Users : home'[u] # home[u] => House(q) \in {home[u], home'[u]}
    /\ \A u \in Users, r \in RoleIds : assigned'[<<u, r>>] \notin {assigned[<<u, r>>], NoRow} =>
           /\ House(q) = home'[u] \/ Carried(u)
           /\ House(q) = role[r].house \/ req[q].op = "addUser"

\* GUIDE.md: every query must be scoped.  A request changes roles and users of its
\* own household only, and assigns roles of that household only, although the
\* writes go by id alone and come after awaits.  Two things are left out, because
\* the code does them: unassignRole deletes in any household, and POST /users
\* assigns whatever roles its body nests.
TenantsApart == [][\A q \in Reqs : pc'[q] # pc[q] => StaysAtHome(q)]_vars

\* A set of permissions from which delegation does not lead out.
Closed(S) == \A p \in Known : GrantableBy[p] \in S => p \in S

SeedPerms(h) == {p \in Known : \E r \in RoleIds :
                    SeedRoles[r] # NoRow /\ SeedRoles[r].house = h /\ p \in SeedRoles[r].perms}

\* The households whose permissions may reach the roles of h: only once a user was
\* moved, or came with roles, may an actor hold those of another.
Sources(h) == IF \E q \in Reqs : Undeclared(q) THEN Houses ELSE {h}

\* However requests race, the roles of a household never hold a permission that
\* delegation cannot produce from those its roles held at the start
\* (checkDelegation in create and update, on snapshots that may be stale).
NoPermissionFromNowhere ==
    \A h \in Houses, S \in SUBSET Known :
        Closed(S) /\ (\A g \in Sources(h) : SeedPerms(g) \subseteq S) =>
            \A r \in RoleIds : Exists(r) /\ role[r].house = h => role[r].perms \subseteq S

SeedHeld(h) == {p \in Known : \E r \in RoleIds :
                    p \in UNION {SeedRoles[r].perms : u \in {v \in SeedHolders[r] : SeedHome[v] = h}}}

\* GUIDE.md: to grant a permission one is not authorized to delegate is rejected.
\* What the users of a household hold is what they held, or what delegation makes of it.
NoUndelegatedGrant ==
    \A h \in Houses, S \in SUBSET Known :
        Closed(S) /\ SeedHeld(h) \subseteq S =>
            \A u \in Users : home[u] = h => Effective(u) \subseteq S
=============================================================================
