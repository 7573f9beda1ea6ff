---------------------------- MODULE Roles_proofs ----------------------------
(***************************************************************************)
(* For any registry, households, users, roles, requests and bodies: types, *)
(* the foreign keys of assignments, and the closure of permissions under   *)
(* delegation: of what roles hold always, and of what users hold if no two *)
(* requests are at work on one role and no body holds a field that its     *)
(* handler does not declare.                                               *)
(***************************************************************************)
EXTENDS Roles, TLAPS

\* What a request has been found to be when it has come this far.
Checked(q) ==
    /\ pc[q] # "idle" => req[q] \in Request
    /\ pc[q] \in {"delegate", "write"} /\ req[q].op \in {"create", "update"} =>
           req[q].perms \subseteq Known
    /\ pc[q] = "find" => req[q].op \notin UserOps \cup {"create"}
    /\ pc[q] = "findUser" => req[q].op = "assign"
    /\ pc[q] = "drop" => req[q].op = "remove"
    /\ pc[q] = "delegate" => req[q].op \in {"create", "update", "assign"}
    /\ pc[q] \in {"findUser", "delegate", "write", "drop"}
       /\ req[q].op \in {"update", "remove", "assign"} =>
           role[req[q].role] = Deleted \/ InHousehold(q)
    /\ pc[q] \in {"delegate", "write"} /\ req[q].op = "assign" =>
           home[req[q].user] \in {House(q), Deleted} \/ Carried(req[q].user)

\* An actor's token names the household of its row, as long as there is one and
\* nobody has moved it.
ActorsAtHome == \A a \in Actors : home[a] \in {SeedHome[a], Deleted} \/ Carried(a)

\* Who inserted a row has come so far, and a new user has the roles of its body only.
Inserted ==
    \A u \in Users, r \in RoleIds : assigned[<<u, r>>] \in Reqs =>
        /\ pc[assigned[<<u, r>>]] # "idle"
        /\ req[assigned[<<u, r>>]].op = "addUser" => r \in req[assigned[<<u, r>>]].roles

Inv == TypeOK /\ AssignmentsRefer /\ ActorsAtHome /\ Inserted /\ \A q \in Reqs : Checked(q)

\* The households in H, and what their requests are about to write, stay within S.
Within(H, S) ==
    /\ \A r \in RoleIds : Exists(r) /\ role[r].house \in H => role[r].perms \subseteq S
    /\ \A q \in Reqs : pc[q] \in {"delegate", "write"} /\ House(q) \in H /\ req[q].op = "update" =>
           seen[q] \subseteq S
    /\ \A q \in Reqs : pc[q] = "write" /\ House(q) \in H /\ req[q].op \in {"create", "update"} =>
           req[q].perms \subseteq S

\* No body so far held a field that its handler does not declare.
Declared == \A q \in Reqs : ~Undeclared(q)

USE RegistryAssumption, PeopleAssumption, SentinelAssumption

\* What the members of Request have in common, and what each kind has.
LEMMA Fields ==
    ASSUME NEW x \in Request
    PROVE  /\ x.op \in Ops /\ x.actor \in Actors /\ SeedHome[x.actor] \in Houses
           /\ x.op \in {"create", "update"} => x.perms \in SUBSET Keys
           /\ x.op \notin UserOps \cup {"create"} => x.role \in RoleIds
           /\ x.op \in {"assign", "unassign", "editUser", "removeUser"} => x.user \in Users
           /\ x.op = "addUser" => x.roles \in SUBSET RoleIds
           /\ x.op = "editUser" => x.to \in Houses
  BY DEF Request, Ops, UserOps

\* A role that exists has a household and known permissions.
LEMMA RoleFields ==
    ASSUME TypeOK, NEW r \in RoleIds, Exists(r)
    PROVE  role[r].house \in Houses /\ role[r].perms \in SUBSET Known
  BY DEF TypeOK, Exists, RoleRow

LEMMA InitInv == Init => Inv
  <1> SUFFICES ASSUME Init PROVE Inv
    OBVIOUS
  <1>1. TypeOK
    BY SeedAssumption DEF Init, TypeOK
  <1>2. AssignmentsRefer
    BY SeedAssumption DEF Init, AssignmentsRefer, Exists, RoleRow
  <1>3. \A q \in Reqs : Checked(q)
    BY DEF Init, Checked
  <1>4. Inserted
    BY DEF Init, Inserted
  <1> QED
    BY <1>1, <1>2, <1>3, <1>4 DEF Inv, ActorsAtHome, Init

LEMMA InitWithin ==
    ASSUME NEW H \in SUBSET Houses, NEW S \in SUBSET Known,
           \A g \in H : SeedPerms(g) \subseteq S, Init
    PROVE  Within(H, S)
  <1>1. ASSUME NEW r \in RoleIds, Exists(r), role[r].house \in H
        PROVE  role[r].perms \subseteq S
    BY <1>1, SeedAssumption DEF Init, Exists, RoleRow, SeedPerms
  <1> QED
    BY <1>1 DEF Init, Within

-----------------------------------------------------------------------------
\* A field that is not declared, once there, is there for good.
Lasting == \A x \in Reqs : Undeclared(x) => Undeclared(x)' /\ req'[x] = req[x]

\* A role keeps its household until it is deleted, and then stays deleted; so does a
\* user, unless a request moves it.
Kept ==
    /\ \A r \in RoleIds :
           /\ role[r] = Deleted => role'[r] = Deleted
           /\ Exists(r) => role'[r] = Deleted \/ (Exists(r)' /\ role'[r].house = role[r].house)
    /\ \A u \in Users : home[u] # NoRow => home'[u] \in {home[u], Deleted} \/ Carried(u)'

LEMMA CarriedLasts ==
    ASSUME Lasting, NEW u \in Users, Carried(u)
    PROVE  Carried(u)'
  <1>1. PICK x \in Reqs : Undeclared(x) /\ req[x].op = "editUser" /\ req[x].user = u
    BY DEF Carried
  <1>2. Undeclared(x)' /\ req'[x] = req[x]
    BY <1>1 DEF Lasting
  <1> QED
    BY <1>1, <1>2 DEF Carried

LEMMA DeclaredBefore == Lasting /\ Declared' => Declared
  BY DEF Lasting, Declared

\* A step of q that is not Arrive leaves what the others have been found to be.
LEMMA OthersStayChecked ==
    ASSUME Inv, Kept, Lasting, NEW q \in Reqs, NEW to, pc' = [pc EXCEPT ![q] = to], req' = req,
           NEW q2 \in Reqs, q2 # q
    PROVE  Checked(q2)'
  <1>1. Checked(q2) /\ pc'[q2] = pc[q2] /\ req'[q2] = req[q2]
    BY DEF Inv, TypeOK
  <1>2. House(q2)' = House(q2)
    BY <1>1 DEF House
  <1>3. ASSUME pc[q2] # "idle", req[q2].op \in {"update", "remove", "assign"}
        PROVE  /\ InHousehold(q2) => InHousehold(q2)' \/ role'[req[q2].role] = Deleted
               /\ role[req[q2].role] = Deleted => role'[req[q2].role] = Deleted
    <2>1. req[q2].role \in RoleIds
      BY <1>1, <1>3, Fields DEF Checked, UserOps
    <2> QED
      BY <2>1, <1>1, <1>2 DEF Kept, InHousehold
  <1>4. ASSUME pc[q2] \in {"delegate", "write"}, req[q2].op = "assign"
        PROVE  home'[req[q2].user] \in {House(q2), Deleted} \/ Carried(req[q2].user)'
    <2> DEFINE u == req[q2].user
    <2>1. u \in Users /\ House(q2) \in Houses
      BY <1>1, <1>4, Fields DEF Checked, House
    <2>2. u' = u
      BY <1>1
    <2>3. home[u] \in {House(q2), Deleted} \/ Carried(u)
      BY <1>1, <1>4 DEF Checked
    <2>4. Carried(u) => (\A v \in Users : v = u => Carried(v)')
      BY CarriedLasts
    <2>5. home[u] # NoRow => home'[u] \in {home[u], Deleted} \/ (\A v \in Users : v = u => Carried(v)')
      BY <2>1 DEF Kept
    <2>6. home'[u] \in {House(q2), Deleted} \/ (\A v \in Users : v = u => Carried(v)')
      BY <2>1, <2>3, <2>4, <2>5
    <2> QED
      BY <2>1, <2>2, <2>6
  <1> QED
    BY <1>1, <1>2, <1>3, <1>4 DEF Checked

LEMMA SameRowsKept == Inv /\ role' = role /\ home' = home => Kept
  BY DEF Kept, Exists, Inv, TypeOK

LEMMA KeptAtHome == ASSUME Inv, Kept, Lasting PROVE ActorsAtHome'
  <1> SUFFICES ASSUME NEW a \in Actors PROVE home'[a] \in {SeedHome[a], Deleted} \/ Carried(a)'
    BY DEF ActorsAtHome
  <1>1. a \in Users /\ SeedHome[a] \in Houses /\ (home[a] \in {SeedHome[a], Deleted} \/ Carried(a))
    BY DEF Inv, ActorsAtHome
  <1>2. Carried(a) => Carried(a)'
    BY <1>1, CarriedLasts
  <1>3. home[a] # NoRow => home'[a] \in {home[a], Deleted} \/ Carried(a)'
    BY <1>1 DEF Kept
  <1> QED
    BY <1>1, <1>2, <1>3

\* As long as rows are only deleted, those that inserted them are the same.
LEMMA FewerInserted ==
    ASSUME Inv, \A x \in Reqs : pc[x] # "idle" => pc'[x] # "idle" /\ req'[x] = req[x],
           \A u \in Users, r \in RoleIds : assigned'[<<u, r>>] \in {assigned[<<u, r>>], NoRow}
    PROVE  Inserted'
  <1> SUFFICES ASSUME NEW u \in Users, NEW r \in RoleIds, assigned'[<<u, r>>] \in Reqs
               PROVE  /\ pc'[assigned'[<<u, r>>]] # "idle"
                      /\ req'[assigned'[<<u, r>>]].op = "addUser" =>
                             r \in req'[assigned'[<<u, r>>]].roles
    BY DEF Inserted
  <1>1. assigned'[<<u, r>>] = assigned[<<u, r>>]
    OBVIOUS
  <1> QED
    BY <1>1 DEF Inv, Inserted

\* The same rows refer to the same rows.
LEMMA SameRowsRefer ==
    ASSUME Inv, Lasting, \A x \in Reqs : pc[x] # "idle" => pc'[x] # "idle" /\ req'[x] = req[x],
           role' = role, home' = home,
           \A u \in Users, r \in RoleIds : assigned'[<<u, r>>] \in {assigned[<<u, r>>], NoRow}
    PROVE  AssignmentsRefer'
  <1> SUFFICES ASSUME NEW u \in Users, NEW r \in RoleIds, assigned'[<<u, r>>] # NoRow
               PROVE  /\ Exists(r)' /\ home'[u] \in Houses
                      /\ home'[u] = role'[r].house \/ Carried(u)' \/ Nested(u, r)'
    BY DEF AssignmentsRefer
  <1>1. assigned'[<<u, r>>] = assigned[<<u, r>>] /\ assigned[<<u, r>>] # NoRow
    OBVIOUS
  <1>2. /\ Exists(r) /\ home[u] \in Houses
        /\ home[u] = role[r].house \/ Carried(u) \/ Nested(u, r)
    BY <1>1 DEF Inv, AssignmentsRefer
  <1>3. Carried(u) => Carried(u)'
    BY CarriedLasts
  <1>4. Nested(u, r) => Nested(u, r)'
    BY <1>1 DEF Nested, Inv, Inserted
  <1> QED
    BY <1>2, <1>3, <1>4 DEF Exists

LEMMA ArriveLasts ==
    ASSUME Inv, NEW q \in Reqs, Arrive(q)
    PROVE  /\ Lasting
           /\ \A x \in Reqs : pc[x] # "idle" => pc'[x] # "idle" /\ req'[x] = req[x]
  <1>1. ASSUME NEW x \in Reqs, pc[x] # "idle" PROVE pc'[x] = pc[x] /\ req'[x] = req[x]
    BY <1>1 DEF Inv, TypeOK, Arrive, Goes
  <1>2. Lasting
    BY <1>1 DEF Lasting, Undeclared, House
  <1> QED
    BY <1>1, <1>2

LEMMA ArriveKeepsInv ==
    ASSUME Inv, NEW q \in Reqs, Arrive(q)
    PROVE  Inv'
  <1>1. PICK x \in Request : req' = [req EXCEPT ![q] = x]
    BY DEF Arrive
  <1>2. TypeOK'
    BY <1>1 DEF Inv, TypeOK, Arrive, Goes
  <1>3. role' = role /\ home' = home /\ assigned' = assigned
    BY DEF Arrive
  <1>4. AssignmentsRefer' /\ Inserted'
    BY <1>3, ArriveLasts, SameRowsRefer, FewerInserted
  <1>5. ASSUME NEW q2 \in Reqs PROVE Checked(q2)'
    <2>1. CASE q2 = q
      BY <2>1, <1>1 DEF Inv, TypeOK, Checked, Arrive, Goes
    <2>2. CASE q2 # q
      <3>1. Checked(q2) /\ pc'[q2] = pc[q2] /\ req'[q2] = req[q2]
        BY <2>2, <1>1 DEF Inv, TypeOK, Arrive, Goes
      <3>2. House(q2)' = House(q2) /\ InHousehold(q2)' = InHousehold(q2)
        BY <3>1, <1>3 DEF House, InHousehold, Exists
      <3>3. ASSUME pc[q2] # "idle", req[q2].op = "assign", Carried(req[q2].user)
            PROVE  Carried(req[q2].user)'
        <4>1. req[q2].user \in Users
          BY <3>1, <3>3, Fields DEF Checked
        <4>2. \A v \in Users : Carried(v) => Carried(v)'
          BY ArriveLasts, CarriedLasts
        <4>3. \A v \in Users : v = req[q2].user => Carried(v)'
          BY <3>3, <4>2
        <4>4. req'[q2].user = req[q2].user
          BY <3>1
        <4> QED
          BY <4>1, <4>3, <4>4
      <3> QED
        BY <3>1, <3>2, <3>3, <1>3 DEF Checked
    <2> QED
      BY <2>1, <2>2
  <1>6. ActorsAtHome'
    BY <1>3, SameRowsKept, KeptAtHome, ArriveLasts
  <1> QED
    BY <1>2, <1>4, <1>5, <1>6 DEF Inv

\* The steps that read: they leave the tables alone.
Reads(q) == Guard(q) \/ FindRole(q) \/ FindUser(q) \/ FindNothing(q) \/ FindAssignment(q)
            \/ CheckDelegation(q) \/ Fail(q)

LEMMA ReadsKeepTypes ==
    ASSUME Inv, NEW q \in Reqs, Reads(q)
    PROVE  TypeOK'
  <1> USE DEF Inv, TypeOK, Goes
  <1>0. pc[q] # "idle" => req[q] \in Request
    BY DEF Checked
  <1>1. CASE Guard(q)
    BY <1>1 DEF Guard
  <1>2. CASE FindRole(q)
    <2>1. role[req[q].role].perms \in SUBSET Known
      <3>1. /\ req[q] \in Request /\ Exists(req[q].role)
            /\ req[q].op \notin UserOps \cup {"create"}
        BY <1>0, <1>2 DEF FindRole, InHousehold, Checked
      <3> QED
        BY <3>1, Fields, RoleFields
    <2>2. seen' \in [Reqs -> SUBSET Known]
      BY <2>1, <1>2 DEF FindRole
    <2>3. pc' \in [Reqs -> {"idle", "guard", "find", "findUser", "delegate", "write", "drop", "done"}]
      BY <1>2 DEF FindRole
    <2> QED
      BY <2>2, <2>3, <1>2 DEF FindRole
  <1>3. CASE FindNothing(q)
    BY <1>3 DEF FindNothing
  <1>4. CASE FindAssignment(q)
    <2>1. <<req[q].user, req[q].role>> \in Users \X RoleIds
      BY <1>0, <1>4, Fields DEF FindAssignment, UserOps
    <2>2. assigned[<<req[q].user, req[q].role>>] \in Reqs \cup {Seeded, NoRow}
      BY <2>1
    <2>3. row' \in [Reqs -> Reqs \cup {Seeded, NoRow}]
      BY <2>2, <1>4 DEF FindAssignment
    <2>4. pc' \in [Reqs -> {"idle", "guard", "find", "findUser", "delegate", "write", "drop", "done"}]
      BY <1>4 DEF FindAssignment
    <2> QED
      BY <2>3, <2>4, <1>4 DEF FindAssignment
  <1>5. CASE CheckDelegation(q)
    BY <1>5 DEF CheckDelegation
  <1>6. CASE Fail(q)
    BY <1>6 DEF Fail
  <1>7. CASE FindUser(q)
    BY <1>7 DEF FindUser
  <1> QED
    BY <1>1, <1>2, <1>3, <1>4, <1>5, <1>6, <1>7 DEF Reads

LEMMA ReadsLast ==
    ASSUME Inv, NEW q \in Reqs, Reads(q)
    PROVE  /\ Lasting
           /\ \A x \in Reqs : pc[x] # "idle" => pc'[x] # "idle" /\ req'[x] = req[x]
  <1>1. req' = req
    BY DEF Reads, Guard, FindRole, FindUser, FindNothing, FindAssignment, CheckDelegation, Fail
  <1>2. ASSUME NEW x \in Reqs, pc[x] # "idle" PROVE pc'[x] # "idle"
    BY <1>2 DEF Inv, TypeOK, Reads, Guard, FindRole, FindUser, FindNothing, FindAssignment,
                CheckDelegation, Fail, Goes
  <1>3. Lasting
    BY <1>1, <1>2 DEF Lasting, Undeclared, House
  <1> QED
    BY <1>1, <1>2, <1>3

LEMMA ReadsKeepInv ==
    ASSUME Inv, NEW q \in Reqs, Reads(q)
    PROVE  Inv'
  <1>1. role' = role /\ home' = home /\ assigned' = assigned /\ req' = req
    BY DEF Reads, Guard, FindRole, FindUser, FindNothing, FindAssignment, CheckDelegation, Fail
  <1>2. \E to : pc' = [pc EXCEPT ![q] = to]
    BY DEF Reads, Guard, FindRole, FindUser, FindNothing, FindAssignment, CheckDelegation, Fail, Goes
  <1>3. AssignmentsRefer' /\ Inserted'
    BY <1>1, ReadsLast, SameRowsRefer, FewerInserted
  <1>4. Checked(q)'
    <2>0. Checked(q) /\ pc \in [Reqs -> {"idle", "guard", "find", "findUser", "delegate", "write", "drop", "done"}]
      BY DEF Inv, TypeOK
    <2>1. House(q)' = House(q) /\ InHousehold(q)' = InHousehold(q)
      BY <1>1 DEF House, InHousehold, Exists
    <2>2. CASE Guard(q)
      BY <2>0, <2>2, <1>1 DEF Guard, Goes, Checked, Valid, UserOps
    <2>3. CASE FindRole(q)
      BY <2>0, <2>1, <2>3, <1>1 DEF FindRole, Goes, Checked, Valid
    <2>4. CASE FindNothing(q)
      BY <2>0, <2>4, <1>1 DEF FindNothing, Goes, Checked
    <2>5. CASE FindAssignment(q)
      BY <2>0, <2>5, <1>1 DEF FindAssignment, Goes, Checked
    <2>6. CASE CheckDelegation(q)
      <3>1. ASSUME req[q].op = "assign", Carried(req[q].user)
            PROVE  Carried(req[q].user)'
        <4>1. req[q].user \in Users
          BY <2>0, <2>6, <3>1, Fields DEF CheckDelegation, Checked
        <4>2. \A v \in Users : v = req[q].user => Carried(v)'
          BY <3>1, CarriedLasts, ReadsLast
        <4>3. req'[q].user = req[q].user
          BY <1>1
        <4> QED
          BY <4>1, <4>2, <4>3
      <3> QED
        BY <2>0, <2>1, <2>6, <3>1, <1>1 DEF CheckDelegation, Goes, Checked
    <2>7. CASE Fail(q)
      BY <2>0, <2>7, <1>1 DEF Fail, Checked
    <2>8. CASE FindUser(q)
      BY <2>0, <2>1, <2>8, <1>1 DEF FindUser, Goes, Checked
    <2> QED
      BY <2>2, <2>3, <2>4, <2>5, <2>6, <2>7, <2>8 DEF Reads
  <1>5. ASSUME NEW q2 \in Reqs PROVE Checked(q2)'
    BY <1>1, <1>2, <1>4, SameRowsKept, OthersStayChecked, ReadsLast
  <1> QED
    BY <1>1, <1>3, <1>5, ReadsKeepTypes, SameRowsKept, KeptAtHome, ReadsLast DEF Inv

-----------------------------------------------------------------------------
\* The steps that write.
Writes(q) == Create(q) \/ Update(q) \/ Assign(q) \/ Unassign(q) \/ ClearRole(q) \/ DropRole(q)
             \/ AddUser(q) \/ EditUser(q) \/ RemoveUser(q)

LEMMA AtWrite ==
    ASSUME Inv, NEW q \in Reqs, pc[q] \in {"write", "drop"}
    PROVE  /\ req[q] \in Request /\ House(q) \in Houses /\ Checked(q)
           /\ req[q].op \notin UserOps \cup {"create"} => req[q].role \in RoleIds
           /\ req[q].op \in {"editUser", "removeUser"} => req[q].user \in Users
           /\ req[q].op = "editUser" => req[q].to \in Houses
           /\ req[q].op \in {"assign", "unassign"} =>
                  <<req[q].user, req[q].role>> \in Users \X RoleIds
  BY Fields DEF Inv, Checked, House, UserOps

LEMMA WritesLast ==
    ASSUME Inv, NEW q \in Reqs, Writes(q)
    PROVE  /\ Lasting
           /\ \A x \in Reqs : pc[x] # "idle" => pc'[x] # "idle" /\ req'[x] = req[x]
  <1>1. req' = req
    BY DEF Writes, Create, Update, Assign, Unassign, ClearRole, DropRole, AddUser, EditUser, RemoveUser
  <1>2. ASSUME NEW x \in Reqs, pc[x] # "idle" PROVE pc'[x] # "idle"
    BY <1>2 DEF Inv, TypeOK, Writes, Create, Update, Assign, Unassign, ClearRole, DropRole,
                AddUser, EditUser, RemoveUser, Goes
  <1>3. Lasting
    BY <1>1, <1>2 DEF Lasting, Undeclared, House
  <1> QED
    BY <1>1, <1>2, <1>3

LEMMA WritesKeepTypes ==
    ASSUME Inv, NEW q \in Reqs, Writes(q)
    PROVE  /\ TypeOK' /\ Kept
           /\ ~DropRole(q) => \A r \in RoleIds : role'[r] = Deleted => role[r] = Deleted
  <1> USE DEF Inv, TypeOK, Goes
  <1>1. CASE Create(q)
    <2>1. PICK r \in RoleIds : role[r] = NoRow /\
              role' = [role EXCEPT ![r] = [house |-> House(q), perms |-> req[q].perms]]
      BY <1>1 DEF Create
    <2>2. [house |-> House(q), perms |-> req[q].perms] \in RoleRow
      BY <1>1, AtWrite DEF Create, Checked, RoleRow
    <2>3. role' \in [RoleIds -> RoleRow \cup {NoRow, Deleted}]
      BY <2>1, <2>2
    <2>4. Kept /\ \A x \in RoleIds : role'[x] = Deleted => role[x] = Deleted
      BY <1>1, <2>1, <2>2 DEF Kept, Exists, Create
    <2> QED
      BY <1>1, <2>3, <2>4 DEF Create
  <1>2. CASE Update(q)
    <2> DEFINE x == req[q].role
    <2>1. x \in RoleIds /\ role[x] \in RoleRow /\ req[q].perms \in SUBSET Known
      BY <1>2, AtWrite DEF Update, Checked, Exists, UserOps
    <2>2. /\ [role[x] EXCEPT !.perms = req[q].perms] \in RoleRow
          /\ [role[x] EXCEPT !.perms = req[q].perms].house = role[x].house
      BY <2>1 DEF RoleRow
    <2>3. role' = [role EXCEPT ![x] = [role[x] EXCEPT !.perms = req[q].perms]]
      BY <1>2, Zenon DEF Update
    <2>4. role' \in [RoleIds -> RoleRow \cup {NoRow, Deleted}]
      BY <2>1, <2>2, <2>3
    <2>5. Kept /\ \A r \in RoleIds : role'[r] = Deleted => role[r] = Deleted
      BY <1>2, <2>1, <2>2, <2>3 DEF Kept, Exists, Update
    <2> QED
      BY <1>2, <2>4, <2>5 DEF Update
  <1>3. CASE Assign(q)
    BY <1>3, AtWrite, SameRowsKept DEF Assign
  <1>4. CASE Unassign(q)
    BY <1>4, AtWrite, SameRowsKept DEF Unassign
  <1>5. CASE ClearRole(q)
    BY <1>5, SameRowsKept DEF ClearRole
  <1>6. CASE DropRole(q)
    <2>1. req[q].op = "remove" /\ req[q].role \in RoleIds
      BY <1>6, AtWrite DEF DropRole, Checked, UserOps
    <2>2. Kept
      BY <1>6, <2>1 DEF DropRole, Kept, Exists
    <2> QED
      BY <1>6, <2>1, <2>2 DEF DropRole
  <1>7. CASE AddUser(q)
    <2>1. House(q) \in Houses
      BY <1>7, AtWrite DEF AddUser
    <2> QED
      BY <1>7, <2>1 DEF AddUser, Kept, Exists
  <1>8. CASE RemoveUser(q)
    BY <1>8, AtWrite DEF RemoveUser, Kept, Exists
  <1>9. CASE EditUser(q)
    <2>1. /\ req[q].user \in Users /\ req[q].to \in Houses
          /\ home[req[q].user] = House(q) /\ req[q].op = "editUser"
          /\ role' = role /\ req' = req /\ pc'[q] = "done"
          /\ home' = [home EXCEPT ![req[q].user] = req[q].to]
      BY <1>9, AtWrite DEF EditUser
    <2>2. ASSUME NEW u \in Users, u = req[q].user, req[q].to # House(q)
          PROVE  Carried(u)'
      <3>1. House(q)' = House(q)
        BY <2>1 DEF House
      <3>2. Undeclared(q)'
        BY <2>1, <2>2, <3>1 DEF Undeclared
      <3>3. req'[q].op = "editUser" /\ req'[q].user = u
        BY <2>1, <2>2
      <3> QED
        BY <3>2, <3>3 DEF Carried
    <2>3. Kept
      BY <2>1, <2>2 DEF Kept, Exists
    <2>4. TypeOK'
      BY <1>9, <2>1 DEF EditUser
    <2> QED
      BY <2>1, <2>3, <2>4
  <1> QED
    BY <1>1, <1>2, <1>3, <1>4, <1>5, <1>6, <1>7, <1>8, <1>9 DEF Writes

LEMMA WritesKeepReferences ==
    ASSUME Inv, NEW q \in Reqs, Writes(q)
    PROVE  AssignmentsRefer' /\ Inserted'
  <1>1. Kept /\ Lasting /\ \A x \in Reqs : pc[x] # "idle" => pc'[x] # "idle" /\ req'[x] = req[x]
    BY WritesKeepTypes, WritesLast
  <1>0. \A u \in Users : Carried(u) => Carried(u)'
    BY <1>1, CarriedLasts
  <1> USE DEF Inv
  <1>2. CASE Assign(q)
    <2> DEFINE v == req[q].user
               x == req[q].role
    <2>1. /\ v \in Users /\ x \in RoleIds /\ Exists(x) /\ home[v] \in Houses
          /\ assigned' = [assigned EXCEPT ![<<v, x>>] = q] /\ role' = role /\ home' = home
          /\ req' = req /\ req[q].op = "assign" /\ pc'[q] = "done"
      BY <1>2, AtWrite DEF Assign, Goes, TypeOK, UserOps
    <2>2. home[v] = role[x].house \/ \A u \in Users : u = v => Carried(u)
      BY <1>2, <2>1, AtWrite DEF Assign, Checked, Exists, InHousehold, TypeOK
    <2>3. ASSUME NEW u \in Users, NEW r \in RoleIds, assigned'[<<u, r>>] # NoRow
          PROVE  /\ Exists(r)' /\ home'[u] \in Houses
                 /\ home'[u] = role'[r].house \/ Carried(u)' \/ Nested(u, r)'
      <3>1. CASE u = v /\ r = x
        BY <1>0, <2>1, <2>2, <3>1 DEF Exists
      <3>2. CASE ~(u = v /\ r = x)
        <4>1. assigned'[<<u, r>>] = assigned[<<u, r>>]
          BY <2>1, <3>2 DEF TypeOK
        <4>2. Nested(u, r) => Nested(u, r)'
          BY <4>1, <2>1 DEF Nested
        <4>3. /\ Exists(r) /\ home[u] \in Houses
              /\ home[u] = role[r].house \/ Carried(u) \/ Nested(u, r)
          BY <2>3, <4>1 DEF AssignmentsRefer
        <4> QED
          BY <1>0, <2>1, <4>2, <4>3 DEF Exists
      <3> QED
        BY <3>1, <3>2
    <2>4. ASSUME NEW u \in Users, NEW r \in RoleIds
          PROVE  assigned'[<<u, r>>] \in {assigned[<<u, r>>], q}
      BY <2>1 DEF TypeOK
    <2>5. Inserted'
      <3> SUFFICES ASSUME NEW u \in Users, NEW r \in RoleIds, assigned'[<<u, r>>] \in Reqs
                   PROVE  /\ pc'[assigned'[<<u, r>>]] # "idle"
                          /\ req'[assigned'[<<u, r>>]].op = "addUser" =>
                                 r \in req'[assigned'[<<u, r>>]].roles
        BY DEF Inserted
      <3>1. CASE assigned'[<<u, r>>] = q
        BY <2>1, <3>1
      <3>2. CASE assigned'[<<u, r>>] = assigned[<<u, r>>]
        BY <1>1, <3>2 DEF Inserted
      <3> QED
        BY <2>4, <3>1, <3>2
    <2> QED
      BY <2>3, <2>5 DEF AssignmentsRefer
  <1>3. CASE AddUser(q)
    <2>1. PICK v \in Users :
              /\ home[v] = NoRow /\ home' = [home EXCEPT ![v] = House(q)]
              /\ assigned' = [a \in Users \X RoleIds |->
                                 IF a[1] = v /\ a[2] \in req[q].roles THEN q ELSE assigned[a]]
      BY <1>3 DEF AddUser
    <2>2. /\ House(q) \in Houses /\ req[q].op = "addUser" /\ \A r \in req[q].roles : Exists(r)
          /\ role' = role /\ req' = req /\ pc'[q] = "done"
      BY <1>3, AtWrite DEF AddUser, Goes, TypeOK
    <2>3. ASSUME NEW u \in Users, NEW r \in RoleIds
          PROVE  assigned'[<<u, r>>] = IF u = v /\ r \in req[q].roles THEN q ELSE assigned[<<u, r>>]
      BY <2>1
    <2>4. \A r \in RoleIds : assigned[<<v, r>>] = NoRow
      BY <2>1 DEF AssignmentsRefer
    <2>5. ASSUME NEW u \in Users, NEW r \in RoleIds, assigned'[<<u, r>>] # NoRow
          PROVE  /\ Exists(r)' /\ home'[u] \in Houses
                 /\ home'[u] = role'[r].house \/ Carried(u)' \/ Nested(u, r)'
      <3>1. CASE u = v
        <4>1. r \in req[q].roles /\ assigned'[<<u, r>>] = q
          BY <2>3, <2>4, <2>5, <3>1
        <4>2. Nested(u, r)'
          BY <4>1, <2>2 DEF Nested
        <4> QED
          BY <2>1, <2>2, <3>1, <4>1, <4>2 DEF TypeOK, Exists
      <3>2. CASE u # v
        <4>1. assigned'[<<u, r>>] = assigned[<<u, r>>]
          BY <2>3, <3>2
        <4>2. Nested(u, r) => Nested(u, r)'
          BY <4>1, <2>2 DEF Nested
        <4>3. /\ Exists(r) /\ home[u] \in Houses
              /\ home[u] = role[r].house \/ Carried(u) \/ Nested(u, r)
          BY <2>5, <4>1 DEF AssignmentsRefer
        <4>4. home'[u] = home[u]
          BY <2>1, <3>2 DEF TypeOK
        <4> QED
          BY <1>0, <2>2, <4>2, <4>3, <4>4 DEF Exists
      <3> QED
        BY <3>1, <3>2
    <2>6. Inserted'
      <3> SUFFICES ASSUME NEW u \in Users, NEW r \in RoleIds, assigned'[<<u, r>>] \in Reqs
                   PROVE  /\ pc'[assigned'[<<u, r>>]] # "idle"
                          /\ req'[assigned'[<<u, r>>]].op = "addUser" =>
                                 r \in req'[assigned'[<<u, r>>]].roles
        BY DEF Inserted
      <3>1. CASE u = v /\ r \in req[q].roles
        BY <2>2, <2>3, <3>1
      <3>2. CASE ~(u = v /\ r \in req[q].roles)
        <4>1. assigned'[<<u, r>>] = assigned[<<u, r>>]
          BY <2>3, <3>2
        <4> QED
          BY <1>1, <4>1 DEF Inserted
      <3> QED
        BY <3>1, <3>2
    <2> QED
      BY <2>5, <2>6 DEF AssignmentsRefer
  <1>4. CASE ~Assign(q) /\ ~AddUser(q)
    <2>1. ASSUME NEW u \in Users, NEW r \in RoleIds
          PROVE  /\ assigned'[<<u, r>>] \in {assigned[<<u, r>>], NoRow}
                 /\ ~Unassign(q) /\ ~ClearRole(q) => assigned'[<<u, r>>] = assigned[<<u, r>>]
      BY <1>4, AtWrite DEF TypeOK, Writes, Create, Update, Unassign, ClearRole, DropRole, EditUser, RemoveUser
    <2>2. CASE Unassign(q) \/ ClearRole(q)
      BY <1>1, <2>1, <2>2, SameRowsRefer, FewerInserted DEF Unassign, ClearRole
    <2>3. CASE ~Unassign(q) /\ ~ClearRole(q)
      <3>1. ASSUME NEW u \in Users, NEW r \in RoleIds, assigned'[<<u, r>>] # NoRow
            PROVE  /\ Exists(r)' /\ home'[u] \in Houses
                   /\ home'[u] = role'[r].house \/ Carried(u)' \/ Nested(u, r)'
        <4>1. assigned'[<<u, r>>] = assigned[<<u, r>>] /\ assigned[<<u, r>>] # NoRow
          BY <2>1, <2>3, <3>1
        <4>2. /\ Exists(r) /\ home[u] \in Houses
              /\ home[u] = role[r].house \/ Carried(u) \/ Nested(u, r)
          BY <4>1 DEF AssignmentsRefer
        <4>3. Nested(u, r) => Nested(u, r)'
          BY <1>1, <4>1 DEF Nested, Inserted
        <4>4. Exists(r)' /\ role'[r].house = role[r].house
          <5>1. CASE DropRole(q)
            <6>1. req[q].role \in RoleIds /\ req[q].role # r
              BY <5>1, <4>1, AtWrite DEF DropRole, Goes, Checked, UserOps
            <6> QED
              BY <5>1, <6>1, <4>2 DEF DropRole, Exists, TypeOK
          <5>2. CASE ~DropRole(q)
            <6>1. role'[r] # Deleted
              BY <5>2, <4>2, WritesKeepTypes DEF Exists
            <6> QED
              BY <6>1, <4>2, <1>1 DEF Kept
          <5> QED
            BY <5>1, <5>2
        <4>5. home'[u] # Deleted
          <5>1. CASE RemoveUser(q)
            <6>1. req[q].user # u
              BY <5>1, <4>1 DEF RemoveUser
            <6> QED
              BY <5>1, <6>1, <4>2 DEF RemoveUser, TypeOK
          <5>2. CASE EditUser(q)
            BY <5>2, <4>2, AtWrite DEF EditUser, TypeOK
          <5>3. CASE ~RemoveUser(q) /\ ~EditUser(q)
            BY <1>4, <2>3, <5>3, <4>2 DEF Writes, Create, Update, DropRole
          <5> QED
            BY <5>1, <5>2, <5>3
        <4>6. home'[u] \in Houses /\ (home'[u] = home[u] \/ Carried(u)')
          <5>1. home'[u] \in {home[u], Deleted} \/ Carried(u)'
            BY <1>1, <4>2, WritesKeepTypes DEF Kept
          <5>2. home'[u] # NoRow
            BY <1>4, <2>3, <4>2, AtWrite DEF TypeOK, Writes, Create, Update, DropRole, EditUser, RemoveUser
          <5> QED
            BY <5>1, <5>2, <4>5, WritesKeepTypes DEF TypeOK
        <4> QED
          BY <1>0, <4>2, <4>3, <4>4, <4>6
      <3> QED
        BY <1>1, <2>1, <3>1, FewerInserted DEF AssignmentsRefer
    <2> QED
      BY <2>2, <2>3
  <1> QED
    BY <1>2, <1>3, <1>4

LEMMA WritesKeepInv ==
    ASSUME Inv, NEW q \in Reqs, Writes(q)
    PROVE  Inv'
  <1>1. req' = req /\ \E to : pc' = [pc EXCEPT ![q] = to]
    BY DEF Writes, Create, Update, Assign, Unassign, ClearRole, DropRole,
           AddUser, EditUser, RemoveUser, Goes
  <1>2. Checked(q)'
    <2>1. Checked(q) /\ pc'[q] \in {"drop", "done"} /\ pc[q] # "idle"
      BY DEF Inv, TypeOK, Writes, Create, Update, Assign, Unassign, ClearRole, DropRole,
           AddUser, EditUser, RemoveUser, Goes
    <2>2. CASE ClearRole(q)
      <3>1. House(q)' = House(q) /\ InHousehold(q)' = InHousehold(q) /\ role' = role
        BY <1>1, <2>2 DEF ClearRole, House, InHousehold, Exists
      <3> QED
        BY <1>1, <2>1, <2>2, <3>1 DEF ClearRole, Checked, Goes, Inv, TypeOK
    <2>3. CASE ~ClearRole(q)
      <3>1. pc'[q] = "done"
        BY <2>3 DEF Inv, TypeOK, Writes, Create, Update, Assign, Unassign, DropRole,
             AddUser, EditUser, RemoveUser, Goes
      <3> QED
        BY <1>1, <2>1, <3>1 DEF Checked
    <2> QED
      BY <2>2, <2>3
  <1>3. ASSUME NEW q2 \in Reqs PROVE Checked(q2)'
    BY <1>1, <1>2, WritesKeepTypes, WritesLast, OthersStayChecked
  <1> QED
    BY <1>3, WritesKeepTypes, WritesLast, WritesKeepReferences, KeptAtHome DEF Inv

LEMMA StepKeepsInv == Inv /\ [Next]_vars => Inv'
  <1> SUFFICES ASSUME Inv, [Next]_vars PROVE Inv'
    OBVIOUS
  <1>1. CASE UNCHANGED vars
    <2>1. \A u \in Users : Carried(u)' <=> Carried(u)
      BY <1>1 DEF vars, Carried, Undeclared, House
    <2>2. Lasting
      BY <1>1 DEF vars, Lasting, Undeclared, House
    <2>3. TypeOK' /\ ActorsAtHome'
      BY <1>1, <2>1 DEF vars, Inv, TypeOK, ActorsAtHome
    <2>4. AssignmentsRefer' /\ Inserted'
      BY <1>1, <2>2, SameRowsRefer, FewerInserted DEF vars
    <2>5. ASSUME NEW q \in Reqs PROVE Checked(q)'
      <3>1. Checked(q) /\ (pc[q] # "idle" /\ req[q].op = "assign" => req[q].user \in Users)
        BY Fields DEF Inv, Checked
      <3>2. pc[q] # "idle" /\ req[q].op = "assign" /\ Carried(req[q].user) => Carried(req[q].user)'
        BY <1>1, <3>1, <2>1 DEF vars
      <3> QED
        BY <1>1, <3>1, <3>2 DEF vars, Checked, Exists, InHousehold, House
    <2> QED
      BY <2>3, <2>4, <2>5 DEF Inv
  <1>2. ASSUME NEW q \in Reqs, Arrive(q) PROVE Inv'
    BY <1>2, ArriveKeepsInv
  <1>3. ASSUME NEW q \in Reqs, Step(q) PROVE Inv'
    BY <1>3, ReadsKeepInv, WritesKeepInv DEF Step, Reads, Writes
  <1> QED
    BY <1>1, <1>2, <1>3 DEF Next

THEOREM Invariance == Spec => []Inv
  BY InitInv, StepKeepsInv, PTL DEF Spec

\* Both tables and every request keep their types.
THEOREM TypeCorrect == Spec => []TypeOK
  BY Invariance, PTL DEF Inv

\* Whatever races with the removals, an assignment leads to a role and a user that
\* exist, and they are of one household unless a request moved the user or inserted
\* the assignment with the user.
THEOREM References == Spec => []AssignmentsRefer
  BY Invariance, PTL DEF Inv

-----------------------------------------------------------------------------
LEMMA WritesStayAtHome ==
    ASSUME Inv, NEW q \in Reqs, Writes(q)
    PROVE  StaysAtHome(q)
  <1> USE DEF Inv, TypeOK, StaysAtHome
  <1>0. House(q) \in Houses /\ Checked(q)
    BY AtWrite DEF Writes, Create, Update, Assign, Unassign, ClearRole, DropRole, AddUser, EditUser, RemoveUser, Goes
  <1>1. CASE Create(q)
    BY <1>0, <1>1 DEF Create, Exists
  <1>2. CASE Update(q)
    <2> DEFINE x == req[q].role
    <2>1. x \in RoleIds /\ role[x] \in RoleRow /\ InHousehold(q)
      BY <1>2, AtWrite DEF Update, Checked, Exists, UserOps
    <2>2. role' = [role EXCEPT ![x] = [role[x] EXCEPT !.perms = req[q].perms]]
      BY <1>2, Zenon DEF Update
    <2> QED
      BY <1>2, <2>1, <2>2 DEF Update, InHousehold, Exists
  <1>3. CASE Assign(q)
    <2>1. InHousehold(q) /\ (home[req[q].user] = House(q) \/ \A u \in Users : u = req[q].user => Carried(u))
      BY <1>0, <1>3 DEF Assign, Checked, Exists
    <2> QED
      BY <1>3, <2>1, AtWrite DEF Assign, InHousehold
  <1>4. CASE Unassign(q)
    BY <1>4, AtWrite DEF Unassign
  <1>5. CASE ClearRole(q)
    BY <1>5 DEF ClearRole
  <1>6. CASE DropRole(q)
    <2>1. InHousehold(q) /\ req[q].role \in RoleIds
      BY <1>0, <1>6, AtWrite DEF DropRole, Checked, Exists, Goes, UserOps
    <2> QED
      BY <1>6, <2>1 DEF DropRole, InHousehold, Goes
  <1>7. CASE AddUser(q)
    <2>1. PICK v \in Users :
              /\ home[v] = NoRow /\ home' = [home EXCEPT ![v] = House(q)]
              /\ assigned' = [a \in Users \X RoleIds |->
                                 IF a[1] = v /\ a[2] \in req[q].roles THEN q ELSE assigned[a]]
      BY <1>7 DEF AddUser
    <2>2. \A u \in Users, r \in RoleIds :
              assigned'[<<u, r>>] = IF u = v /\ r \in req[q].roles THEN q ELSE assigned[<<u, r>>]
      BY <2>1
    <2> QED
      BY <1>0, <1>7, <2>1, <2>2 DEF AddUser
  <1>8. CASE RemoveUser(q)
    BY <1>8, AtWrite DEF RemoveUser
  <1>9. CASE EditUser(q)
    BY <1>9, AtWrite DEF EditUser
  <1> QED
    BY <1>1, <1>2, <1>3, <1>4, <1>5, <1>6, <1>7, <1>8, <1>9 DEF Writes

\* However requests race, each changes roles and users of its own household only,
\* and assigns roles of that household only, but for those a POST /users nests.
THEOREM Apart == Spec => TenantsApart
  <1>1. ASSUME Inv, [Next]_vars, NEW q \in Reqs, pc'[q] # pc[q] PROVE StaysAtHome(q)
    <2>1. PICK x \in Reqs : Arrive(x) \/ Step(x)
      BY <1>1 DEF Next, vars
    <2>2. CASE Arrive(x) \/ Reads(x)
      BY <2>2 DEF StaysAtHome, Arrive, Reads, Guard, FindRole, FindUser, FindNothing, FindAssignment,
                  CheckDelegation, Fail
    <2>3. CASE Writes(x)
      <3>1. x = q
        BY <1>1, <2>3 DEF Inv, TypeOK, Goes, Writes, Create, Update, Assign, Unassign, ClearRole,
                          DropRole, AddUser, EditUser, RemoveUser
      <3> QED
        BY <1>1, <2>3, <3>1, WritesStayAtHome
    <2> QED
      BY <2>1, <2>2, <2>3 DEF Step, Reads, Writes
  <1>2. Inv /\ [Next]_vars => [\A q \in Reqs : pc'[q] # pc[q] => StaysAtHome(q)]_vars
    BY <1>1
  <1> QED
    BY <1>2, Invariance, PTL DEF Spec, TenantsApart

-----------------------------------------------------------------------------
\* The households whose roles the actors of H may hold.
Closes(H) == H = Houses \/ Declared

\* What an actor holds is among what the roles of those households hold.
LEMMA HeldWithin ==
    ASSUME Inv, NEW H \in SUBSET Houses, NEW S \in SUBSET Known, Within(H, S), Closes(H),
           NEW u \in Actors, SeedHome[u] \in H
    PROVE  Effective(u) \subseteq S
  <1>1. ASSUME NEW r \in RoleIds, assigned[<<u, r>>] # NoRow, Exists(r)
        PROVE  role[r].house \in H
    <2>1. u \in Users /\ role[r].house \in Houses
      BY <1>1, RoleFields DEF Inv
    <2>2. CASE Declared
      <3>1. ~Carried(u) /\ ~Nested(u, r)
        BY <1>1, <2>1, <2>2 DEF Declared, Carried, Nested, Undeclared, Inv, Inserted
      <3>2. home[u] = role[r].house /\ home[u] \in {SeedHome[u], Deleted}
        BY <1>1, <2>1, <3>1 DEF Inv, AssignmentsRefer, ActorsAtHome
      <3> QED
        BY <2>1, <3>2
    <2> QED
      BY <2>1, <2>2 DEF Closes
  <1> QED
    BY <1>1 DEF Effective, Within

LEMMA ReadsKeepWithin ==
    ASSUME Inv, NEW H \in SUBSET Houses, NEW S \in SUBSET Known, Closed(S), Within(H, S), Closes(H),
           NEW q \in Reqs, Reads(q) \/ Arrive(q)
    PROVE  Within(H, S)'
  <1> USE DEF Goes
  <1>1. role' = role
    BY DEF Arrive, Reads, Guard, FindRole, FindUser, FindNothing, FindAssignment, CheckDelegation, Fail
  <1>2. \A r \in RoleIds : Exists(r)' /\ role'[r].house \in H => role'[r].perms \subseteq S
    BY <1>1 DEF Within, Exists
  <1>3. ASSUME NEW q2 \in Reqs, q2 # q
        PROVE  pc'[q2] = pc[q2] /\ req'[q2] = req[q2] /\ seen'[q2] = seen[q2] /\ House(q2)' = House(q2)
    BY <1>3 DEF Inv, TypeOK, House, Arrive, Reads, Guard, FindRole, FindUser, FindNothing, FindAssignment,
                CheckDelegation, Fail
  <1>4. /\ pc'[q] \in {"delegate", "write"} /\ House(q)' \in H /\ req'[q].op = "update" => seen'[q] \subseteq S
        /\ pc'[q] = "write" /\ House(q)' \in H /\ req'[q].op \in {"create", "update"} => req'[q].perms \subseteq S
    <2> USE DEF Inv, TypeOK
    <2>1. CASE Arrive(q) \/ FindNothing(q) \/ Fail(q)
      BY <2>1 DEF Arrive, FindNothing, Fail
    <2>2. CASE Guard(q)
      BY <2>2 DEF Guard, UserOps
    <2>3. CASE FindAssignment(q)
      BY <2>3 DEF FindAssignment
    <2>4. CASE FindRole(q)
      <3>0. req[q].role \in RoleIds
        BY <2>4, Fields DEF FindRole, Checked, UserOps
      <3>1. House(q) \in H => role[req[q].role].perms \subseteq S
        BY <2>4, <3>0 DEF FindRole, InHousehold, Within
      <3>2. req' = req /\ House(q)' = House(q) /\ seen'[q] = role[req[q].role].perms
        BY <2>4 DEF FindRole, House
      <3>3. pc'[q] = "write" /\ req[q].op \in {"create", "update"} => req[q].perms \subseteq seen'[q]
        BY <2>4 DEF FindRole, Checked
      <3> QED
        BY <3>1, <3>2, <3>3
    <2>5. CASE CheckDelegation(q)
      <3>1. req' = req /\ seen' = seen /\ House(q)' = House(q) /\ pc[q] = "delegate" /\ req[q] \in Request
        BY <2>5 DEF CheckDelegation, House, Checked
      <3>2. House(q) \in H => Effective(req[q].actor) \subseteq S
        BY <3>1, Fields, HeldWithin, PeopleAssumption DEF House
      <3>3. pc'[q] = "write" /\ House(q) \in H => ToGrant(q) \subseteq S
        BY <2>5, <3>2 DEF CheckDelegation, CanDelegate, Closed
      <3>4. House(q) \in H /\ req[q].op = "update" => seen[q] \subseteq S
        BY <3>1 DEF Within
      <3> QED
        BY <3>1, <3>3, <3>4 DEF ToGrant
    <2>6. CASE FindUser(q)
      BY <2>6 DEF FindUser, Checked
    <2> QED
      BY <2>1, <2>2, <2>3, <2>4, <2>5, <2>6 DEF Reads
  <1> QED
    BY <1>2, <1>3, <1>4 DEF Within

LEMMA WritesKeepWithin ==
    ASSUME Inv, NEW H \in SUBSET Houses, NEW S \in SUBSET Known, Within(H, S),
           NEW q \in Reqs, Writes(q)
    PROVE  Within(H, S)'
  <1>0. req' = req /\ seen' = seen
    BY DEF Writes, Create, Update, Assign, Unassign, ClearRole, DropRole, AddUser, EditUser, RemoveUser
  <1>1. ASSUME NEW q2 \in Reqs
        PROVE  House(q2)' = House(q2) /\ (pc'[q2] = pc[q2] \/ pc'[q2] \in {"drop", "done"})
    BY <1>0 DEF Inv, TypeOK, House, Goes, Writes, Create, Update, Assign, Unassign, ClearRole, DropRole,
                AddUser, EditUser, RemoveUser
  <1>2. ASSUME NEW r \in RoleIds, Exists(r)', role'[r].house \in H
        PROVE  role'[r].perms \subseteq S
    <2> USE DEF Inv, TypeOK
    <2>1. CASE Create(q)
      <3>1. House(q) \in H => req[q].perms \subseteq S
        BY <2>1 DEF Create, Within
      <3> QED
        BY <2>1, <3>1, <1>2 DEF Create, Within, Exists
    <2>2. CASE Update(q)
      <3> DEFINE x == req[q].role
      <3>1. x \in RoleIds /\ role[x] \in RoleRow /\ InHousehold(q)
        BY <2>2, AtWrite DEF Update, Checked, Exists, UserOps
      <3>2. House(q) \in H => req[q].perms \subseteq S
        BY <2>2 DEF Update, Within
      <3>3. role' = [role EXCEPT ![x] = [role[x] EXCEPT !.perms = req[q].perms]]
        BY <2>2, Zenon DEF Update
      <3>4. /\ [role[x] EXCEPT !.perms = req[q].perms].house = role[x].house
            /\ [role[x] EXCEPT !.perms = req[q].perms].perms = req[q].perms
        BY <3>1 DEF RoleRow
      <3> QED
        BY <3>1, <3>2, <3>3, <3>4, <1>2 DEF Within, Exists, InHousehold
    <2>3. CASE Assign(q) \/ Unassign(q) \/ ClearRole(q) \/ AddUser(q) \/ EditUser(q)
               \/ RemoveUser(q)
      BY <2>3, <1>2 DEF Assign, Unassign, ClearRole, AddUser, EditUser, RemoveUser, Within, Exists
    <2>4. CASE DropRole(q)
      BY <2>4, <1>2 DEF DropRole, Within, Exists
    <2> QED
      BY <2>1, <2>2, <2>3, <2>4 DEF Writes
  <1> QED
    BY <1>0, <1>1, <1>2 DEF Within

AllWithin == \A H \in SUBSET Houses, S \in SUBSET Known :
    Closed(S) /\ Closes(H) /\ (\A g \in H : SeedPerms(g) \subseteq S) => Within(H, S)

LEMMA StepLasts == Inv /\ [Next]_vars => Lasting
  <1> SUFFICES ASSUME Inv, [Next]_vars PROVE Lasting
    OBVIOUS
  <1>1. CASE UNCHANGED vars
    BY <1>1 DEF vars, Lasting, Undeclared, House
  <1>2. ASSUME NEW q \in Reqs, Arrive(q) \/ Step(q) PROVE Lasting
    BY <1>2, ArriveLasts, ReadsLast, WritesLast DEF Step, Reads, Writes
  <1> QED
    BY <1>1, <1>2 DEF Next

LEMMA StepKeepsWithin == Inv /\ AllWithin /\ [Next]_vars => AllWithin'
  <1>0. SUFFICES ASSUME Inv, AllWithin, [Next]_vars, NEW H \in SUBSET Houses, NEW S \in SUBSET Known,
                      Closed(S), H = Houses \/ Declared', \A g \in H : SeedPerms(g) \subseteq S
               PROVE  Within(H, S)'
    BY DEF AllWithin, Closed, SeedPerms, Closes
  <1>1. Closes(H)
    BY <1>0, StepLasts, DeclaredBefore DEF Closes
  <1>2. Within(H, S)
    BY <1>0, <1>1 DEF AllWithin
  <1>3. CASE UNCHANGED vars
    BY <1>2, <1>3 DEF vars, Within, Exists, House
  <1>4. ASSUME NEW q \in Reqs, Arrive(q) \/ Step(q) PROVE Within(H, S)'
    BY <1>0, <1>1, <1>2, <1>4, ReadsKeepWithin, WritesKeepWithin DEF Step, Reads, Writes
  <1> QED
    BY <1>0, <1>3, <1>4 DEF Next

\* However requests race, the permissions in a household's roles are ones that
\* delegation produces from those its roles started with; once a user was moved or
\* came with roles, from those the roles of any household started with.
THEOREM NothingFromNowhere == Spec => []NoPermissionFromNowhere
  <1>1. Init => AllWithin
    BY InitWithin DEF AllWithin
  <1>2. AllWithin => NoPermissionFromNowhere
    <2> SUFFICES ASSUME AllWithin, NEW h \in Houses, NEW S \in SUBSET Known, Closed(S),
                        \A g \in Sources(h) : SeedPerms(g) \subseteq S
                 PROVE  \A r \in RoleIds : Exists(r) /\ role[r].house = h => role[r].perms \subseteq S
      BY DEF NoPermissionFromNowhere
    <2>1. Sources(h) \in SUBSET Houses /\ h \in Sources(h) /\ Closes(Sources(h))
      BY DEF Sources, Closes, Declared
    <2>2. Within(Sources(h), S)
      BY <2>1 DEF AllWithin
    <2> QED
      BY <2>1, <2>2 DEF Within
  <1> QED
    BY <1>1, <1>2, StepKeepsWithin, Invariance, PTL DEF Spec

-----------------------------------------------------------------------------
(* NoUndelegatedGrant is violated: a role may change between the look-up of *)
(* an assignment, or of another update, and its write.  Two other ways lead *)
(* there: a user moved with the roles it holds, and a user that comes with  *)
(* roles.  There is no fourth: the property holds of every behaviour in     *)
(* which none of the three happens.                                         *)

\* A request that has looked up a role and is about to assign or replace it.
AtWork(q) == pc[q] \in {"findUser", "delegate", "write"} /\ req[q].op \in {"update", "assign"}

\* As if findOne locked the row (SELECT ... FOR UPDATE).
RolesLocked ==
    \A q, x \in Reqs : q # x /\ AtWork(q) /\ AtWork(x) => req[q].role # req[x].role

\* What findOne returned is still what the role holds.
Current(q) == AtWork(q) /\ Exists(req[q].role) => role[req[q].role].perms = seen[q]

\* What the users of h hold, or are about to be given, stays within S.  A role that
\* nobody holds may hold more.
HeldIn(h, S) ==
    /\ \A u \in Users, r \in RoleIds :
           assigned[<<u, r>>] # NoRow /\ role[r].house = h => role[r].perms \subseteq S
    /\ \A q \in Reqs : pc[q] = "write" /\ House(q) = h /\ req[q].op \in {"assign", "update"} =>
           ToGrant(q) \subseteq S

LEMMA InitHeldIn ==
    ASSUME NEW h \in Houses, NEW S \in SUBSET Known, SeedHeld(h) \subseteq S, Init
    PROVE  HeldIn(h, S)
  <1>1. ASSUME NEW u \in Users, NEW r \in RoleIds, assigned[<<u, r>>] # NoRow, role[r].house = h
        PROVE  role[r].perms \subseteq S
    <2>1. u \in SeedHolders[r]
      BY <1>1 DEF Init
    <2>2. SeedRoles[r] \in RoleRow /\ SeedHome[u] = SeedRoles[r].house
      BY <2>1, SeedAssumption
    <2>3. SeedRoles[r].perms \subseteq SeedHeld(h)
      BY <1>1, <2>1, <2>2 DEF Init, SeedHeld, RoleRow
    <2> QED
      BY <2>3 DEF Init
  <1> QED
    BY <1>1 DEF Init, HeldIn

LEMMA HomeOfHolder ==
    ASSUME Inv, Declared, NEW u \in Users, NEW r \in RoleIds, assigned[<<u, r>>] # NoRow
    PROVE  Exists(r) /\ home[u] = role[r].house
  <1>1. ~Carried(u) /\ ~Nested(u, r)
    BY DEF Declared, Carried, Nested, Undeclared, Inv, Inserted
  <1> QED
    BY <1>1 DEF Inv, AssignmentsRefer

\* What an actor holds stays within S.
LEMMA ActorHeldIn ==
    ASSUME Inv, Declared, NEW h \in Houses, NEW S \in SUBSET Known, HeldIn(h, S),
           NEW u \in Actors, SeedHome[u] = h
    PROVE  Effective(u) \subseteq S
  <1>1. ASSUME NEW r \in RoleIds, assigned[<<u, r>>] # NoRow, Exists(r)
        PROVE  role[r].perms \subseteq S
    <2>0. u \in Users /\ ~Carried(u)
      BY DEF Declared, Carried
    <2>1. home[u] = role[r].house /\ home[u] \in {h, Deleted}
      BY <1>1, <2>0, HomeOfHolder DEF Inv, ActorsAtHome
    <2>2. role[r].house = h
      BY <1>1, <2>1, RoleFields DEF Inv
    <2> QED
      BY <1>1, <2>2 DEF HeldIn
  <1> QED
    BY <1>1 DEF Effective

LEMMA ReadsKeepCurrent ==
    ASSUME Inv, \A x \in Reqs : Current(x), NEW q \in Reqs, Reads(q) \/ Arrive(q)
    PROVE  \A x \in Reqs : Current(x)'
  <1> USE DEF Goes, Inv, TypeOK
  <1>1. role' = role
    BY DEF Arrive, Reads, Guard, FindRole, FindUser, FindNothing, FindAssignment, CheckDelegation, Fail
  <1>2. ASSUME NEW x \in Reqs, x # q
        PROVE  Current(x)'
    <2>1. pc'[x] = pc[x] /\ req'[x] = req[x] /\ seen'[x] = seen[x]
      BY <1>2 DEF Arrive, Reads, Guard, FindRole, FindUser, FindNothing, FindAssignment, CheckDelegation, Fail
    <2> QED
      BY <1>1, <2>1 DEF Current, AtWork, Exists
  <1>3. Current(q)'
    <2>1. CASE FindRole(q)
      BY <1>1, <2>1 DEF FindRole, Current
    <2>2. CASE CheckDelegation(q)
      BY <1>1, <2>2 DEF CheckDelegation, Current, AtWork, Exists
    <2>3. CASE Guard(q)
      BY <2>3 DEF Guard, Current, AtWork, UserOps
    <2>4. CASE Arrive(q) \/ FindNothing(q) \/ FindAssignment(q) \/ Fail(q)
      BY <2>4 DEF Arrive, FindNothing, FindAssignment, Fail, Current, AtWork
    <2>5. CASE FindUser(q)
      BY <1>1, <2>5 DEF FindUser, Current, AtWork, Exists, Checked
    <2> QED
      BY <2>1, <2>2, <2>3, <2>4, <2>5 DEF Reads
  <1> QED
    BY <1>2, <1>3

LEMMA ReadsKeepHeldIn ==
    ASSUME Inv, Declared, NEW h \in Houses, NEW S \in SUBSET Known, Closed(S), HeldIn(h, S),
           NEW q \in Reqs, Reads(q) \/ Arrive(q)
    PROVE  HeldIn(h, S)'
  <1> USE DEF Goes, Inv, TypeOK
  <1>1. role' = role /\ assigned' = assigned
    BY DEF Arrive, Reads, Guard, FindRole, FindUser, FindNothing, FindAssignment, CheckDelegation, Fail
  <1>2. ASSUME NEW x \in Reqs, x # q
        PROVE  /\ pc'[x] = pc[x] /\ req'[x] = req[x]
               /\ House(x)' = House(x) /\ ToGrant(x)' = ToGrant(x)
    <2>1. pc'[x] = pc[x] /\ req'[x] = req[x] /\ seen'[x] = seen[x]
      BY <1>2 DEF Arrive, Reads, Guard, FindRole, FindUser, FindNothing, FindAssignment, CheckDelegation, Fail
    <2> QED
      BY <2>1 DEF House, ToGrant
  <1>3. pc'[q] = "write" /\ House(q)' = h /\ req'[q].op \in {"assign", "update"} => ToGrant(q)' \subseteq S
    <2>1. CASE Arrive(q) \/ FindUser(q) \/ FindNothing(q) \/ FindAssignment(q) \/ Fail(q)
      BY <2>1 DEF Arrive, FindUser, FindNothing, FindAssignment, Fail
    <2>2. CASE Guard(q)
      BY <2>2 DEF Guard, UserOps
    <2>3. CASE FindRole(q)
      <3>1. req' = req /\ seen'[q] = role[req[q].role].perms
        BY <2>3 DEF FindRole
      <3>2. pc'[q] = "write" => req[q].op # "assign" /\ (req[q].op = "update" => req[q].perms \subseteq seen'[q])
        BY <2>3 DEF FindRole
      <3> QED
        BY <3>1, <3>2 DEF ToGrant
    <2>4. CASE CheckDelegation(q)
      <3>1. req' = req /\ seen' = seen /\ pc[q] = "delegate" /\ req[q] \in Request
        BY <2>4 DEF CheckDelegation, Checked
      <3>2. House(q) = h => Effective(req[q].actor) \subseteq S
        BY <3>1, Fields, ActorHeldIn, PeopleAssumption DEF House
      <3>3. pc'[q] = "write" /\ House(q) = h => ToGrant(q) \subseteq S
        BY <2>4, <3>2 DEF CheckDelegation, CanDelegate, Closed
      <3>4. ToGrant(q)' = ToGrant(q) /\ House(q)' = House(q)
        BY <3>1 DEF ToGrant, House
      <3> QED
        BY <3>3, <3>4
    <2> QED
      BY <2>1, <2>2, <2>3, <2>4 DEF Reads
  <1> QED
    BY <1>1, <1>2, <1>3 DEF HeldIn

\* Only its own writes change the role of a request at work.
LEMMA WritesKeepCurrent ==
    ASSUME Inv, RolesLocked, \A x \in Reqs : Current(x),
           NEW q \in Reqs, Writes(q), NEW x \in Reqs
    PROVE  Current(x)'
  <1>0. Kept
    BY WritesKeepTypes
  <1> USE DEF Goes, Inv, TypeOK
  <1>1. req' = req /\ seen' = seen /\ pc'[q] \notin {"findUser", "delegate", "write"}
    BY DEF Writes, Create, Update, Assign, Unassign, ClearRole, DropRole, AddUser, EditUser, RemoveUser
  <1> SUFFICES ASSUME x # q, AtWork(x), Exists(req[x].role)'
               PROVE  role'[req[x].role].perms = seen[x]
    <2>1. x # q => pc'[x] = pc[x]
      BY DEF Writes, Create, Update, Assign, Unassign, ClearRole, DropRole, AddUser, EditUser, RemoveUser
    <2> QED
      BY <1>1, <2>1 DEF Current, AtWork
  <1>2. /\ Current(x) /\ req[x].role \in RoleIds
        /\ role[req[x].role] = Deleted \/ Exists(req[x].role)
    <2>1. req[x] \in Request /\ Checked(x)
      BY DEF AtWork, Checked
    <2> QED
      BY <2>1, Fields DEF AtWork, Checked, InHousehold, UserOps
  <1>3. role[req[x].role] # Deleted
    BY <1>0, <1>1, <1>2 DEF Kept, Exists
  <1>4. role'[req[x].role] = role[req[x].role]
    <2>1. CASE Create(q)
      BY <1>2, <1>3, <2>1 DEF Create, Exists
    <2>2. CASE Update(q)
      <3>1. req[q].role # req[x].role
        BY <2>2 DEF RolesLocked, AtWork, Update
      <3>2. req[q].role \in RoleIds /\ role' = [role EXCEPT ![req[q].role].perms = req[q].perms]
        BY <2>2, AtWrite DEF Update, UserOps
      <3> QED
        BY <1>2, <3>1, <3>2
    <2>3. CASE DropRole(q)
      BY <1>2, <2>3 DEF DropRole, Exists
    <2>4. CASE Assign(q) \/ Unassign(q) \/ ClearRole(q) \/ AddUser(q) \/ EditUser(q) \/ RemoveUser(q)
      BY <2>4 DEF Assign, Unassign, ClearRole, AddUser, EditUser, RemoveUser
    <2> QED
      BY <2>1, <2>2, <2>3, <2>4 DEF Writes
  <1> QED
    BY <1>2, <1>3, <1>4 DEF Current

LEMMA WritesKeepHeldIn ==
    ASSUME Inv, Declared, NEW h \in Houses, NEW S \in SUBSET Known, HeldIn(h, S),
           NEW q \in Reqs, Current(q), Writes(q)
    PROVE  HeldIn(h, S)'
  <1> USE DEF Goes, Inv, TypeOK
  <1>0. req' = req /\ seen' = seen
    BY DEF Writes, Create, Update, Assign, Unassign, ClearRole, DropRole, AddUser, EditUser, RemoveUser
  <1>1. ASSUME NEW x \in Reqs
        PROVE  /\ House(x)' = House(x) /\ ToGrant(x)' = ToGrant(x)
               /\ pc'[x] = pc[x] \/ pc'[x] \in {"drop", "done"}
    BY <1>0 DEF House, ToGrant, Writes, Create, Update, Assign, Unassign, ClearRole, DropRole,
                AddUser, EditUser, RemoveUser
  <1>2. ASSUME NEW u \in Users, NEW r \in RoleIds, assigned'[<<u, r>>] # NoRow, role'[r].house = h
        PROVE  role'[r].perms \subseteq S
    <2>0. assigned[<<u, r>>] # NoRow => Exists(r)
      BY DEF AssignmentsRefer
    <2>1. CASE Create(q)
      BY <1>2, <2>0, <2>1 DEF Create, HeldIn, Exists
    <2>2. CASE Update(q)
      <3> DEFINE x == req[q].role
      <3>1. x \in RoleIds /\ role[x] \in RoleRow /\ InHousehold(q)
        BY <2>2, AtWrite DEF Update, Checked, Exists, UserOps
      <3>2. role' = [role EXCEPT ![x] = [role[x] EXCEPT !.perms = req[q].perms]] /\ assigned' = assigned
        BY <2>2, Zenon DEF Update
      <3>3. /\ [role[x] EXCEPT !.perms = req[q].perms].house = role[x].house
            /\ [role[x] EXCEPT !.perms = req[q].perms].perms = req[q].perms
        BY <3>1 DEF RoleRow
      <3>4. CASE r # x
        BY <3>1, <3>2, <3>4, <1>2 DEF HeldIn
      <3>5. CASE r = x
        <4>1. role[x].house = h /\ assigned[<<u, x>>] # NoRow
          BY <3>1, <3>2, <3>3, <3>5, <1>2
        <4>2. House(q) = h
          BY <3>1, <4>1 DEF InHousehold
        <4>3. role[x].perms \subseteq S
          BY <3>1, <4>1 DEF HeldIn
        <4>4. seen[q] \subseteq S
          BY <2>2, <3>1, <4>3 DEF Current, AtWork, Update, Exists
        <4>5. req[q].perms \ seen[q] \subseteq S
          BY <2>2, <4>2 DEF HeldIn, ToGrant, Update
        <4> QED
          BY <3>1, <3>2, <3>3, <3>5, <4>4, <4>5
      <3> QED
        BY <3>4, <3>5
    <2>3. CASE Assign(q)
      <3> DEFINE x == req[q].role
      <3>1. x \in RoleIds /\ InHousehold(q) /\ Exists(x) /\ role' = role
        BY <2>3, AtWrite DEF Assign, Checked, Exists, UserOps
      <3>2. assigned[<<u, r>>] # NoRow \/ r = x
        BY <2>3, <1>2, AtWrite DEF Assign
      <3>3. CASE r = x
        <4>1. House(q) = h /\ role[x].perms = seen[q]
          BY <2>3, <3>1, <3>3, <1>2 DEF InHousehold, Current, AtWork, Assign
        <4>2. seen[q] \subseteq S
          BY <2>3, <4>1 DEF HeldIn, ToGrant, Assign
        <4> QED
          BY <3>1, <3>3, <4>1, <4>2
      <3> QED
        BY <3>1, <3>2, <3>3, <1>2 DEF HeldIn
    <2>4. CASE Unassign(q) \/ ClearRole(q) \/ AddUser(q) \/ EditUser(q) \/ RemoveUser(q)
      <3>1. role' = role /\ assigned[<<u, r>>] # NoRow
        <4>1. CASE Unassign(q)
          BY <4>1, <1>2, AtWrite DEF Unassign
        <4>2. CASE ClearRole(q)
          BY <4>2, <1>2 DEF ClearRole
        <4>3. CASE EditUser(q) \/ RemoveUser(q)
          BY <4>3, <1>2 DEF EditUser, RemoveUser
        <4>4. CASE AddUser(q)
          <5>1. req[q].roles = {}
            BY <4>4 DEF AddUser, Declared, Undeclared
          <5> QED
            BY <4>4, <5>1, <1>2 DEF AddUser
        <4> QED
          BY <2>4, <4>1, <4>2, <4>3, <4>4
      <3> QED
        BY <3>1, <1>2 DEF HeldIn
    <2>5. CASE DropRole(q)
      BY <2>5, <1>2 DEF DropRole, HeldIn
    <2> QED
      BY <2>1, <2>2, <2>3, <2>4, <2>5 DEF Writes
  <1> QED
    BY <1>0, <1>1, <1>2 DEF HeldIn

AllHeldIn ==
    /\ \A q \in Reqs : Current(q)
    /\ \A h \in Houses, S \in SUBSET Known : Closed(S) /\ SeedHeld(h) \subseteq S => HeldIn(h, S)

LEMMA StepKeepsHeldIn ==
    Inv /\ RolesLocked /\ Declared /\ AllHeldIn /\ [Next]_vars => AllHeldIn'
  <1> SUFFICES ASSUME Inv, RolesLocked, Declared, AllHeldIn, [Next]_vars
               PROVE  AllHeldIn'
    OBVIOUS
  <1>1. \A x \in Reqs : Current(x)'
    <2>1. CASE UNCHANGED vars
      BY <2>1 DEF vars, AllHeldIn, Current, AtWork, Exists
    <2>2. ASSUME NEW q \in Reqs, Arrive(q) \/ Step(q) PROVE \A x \in Reqs : Current(x)'
      <3>1. CASE Arrive(q) \/ Reads(q)
        BY <3>1, ReadsKeepCurrent DEF AllHeldIn
      <3>2. CASE Writes(q)
        BY <3>2, WritesKeepCurrent DEF AllHeldIn
      <3> QED
        BY <2>2, <3>1, <3>2 DEF Step, Reads, Writes
    <2> QED
      BY <2>1, <2>2 DEF Next
  <1>2. ASSUME NEW h \in Houses, NEW S \in SUBSET Known, Closed(S), HeldIn(h, S)
        PROVE  HeldIn(h, S)'
    <2>1. CASE UNCHANGED vars
      BY <1>2, <2>1 DEF vars, HeldIn, House, ToGrant
    <2>2. ASSUME NEW q \in Reqs, Arrive(q) \/ Step(q) PROVE HeldIn(h, S)'
      BY <1>2, <2>2, ReadsKeepHeldIn, WritesKeepHeldIn DEF AllHeldIn, Step, Reads, Writes
    <2> QED
      BY <2>1, <2>2 DEF Next
  <1> QED
    BY <1>1, <1>2 DEF AllHeldIn, Closed, SeedHeld

\* If no two requests are at work on one role, and no body moves a user to another
\* household or nests assignments, users hold nothing but what they held or what
\* delegation makes of it: a lock on the role's row and a check of the bodies are
\* all that is missing.
THEOREM LockedRolesSuffice == Spec /\ []RolesLocked /\ []Declared => []NoUndelegatedGrant
  <1>1. Init => AllHeldIn
    BY InitHeldIn DEF AllHeldIn, Init, Current, AtWork
  <1>2. Inv /\ Declared /\ AllHeldIn => NoUndelegatedGrant
    <2> SUFFICES ASSUME Inv, Declared, NEW h \in Houses, NEW S \in SUBSET Known, HeldIn(h, S),
                        NEW u \in Users, home[u] = h
                 PROVE  Effective(u) \subseteq S
      BY DEF AllHeldIn, NoUndelegatedGrant
    <2> QED
      BY HomeOfHolder DEF HeldIn, Effective
  <1> QED
    BY <1>1, <1>2, StepKeepsHeldIn, Invariance, PTL DEF Spec
=============================================================================
