--------------------------- MODULE Startup_proofs ---------------------------
(***************************************************************************)
(* For any builds, whatever clashes in them: types, that the program only  *)
(* serves with a complete registry, and for the one of AppModule, that the *)
(* roles of the seed cannot pass on more than they should.                 *)
(***************************************************************************)
EXTENDS Startup, TLAPS

\* The registry holds what the modules whose hooks have returned declare.
Registered ==
    /\ \A d, e \in called : d # e => d.module # e.module /\ d.permissions \cap e.permissions = {}
    /\ modules = {d.module : d \in called}
    /\ known = UNION {d.permissions : d \in called}
    /\ DOMAIN rules = UNION {DOMAIN d.delegation : d \in called}
    /\ \A p \in DOMAIN rules : \E d \in called : p \in DOMAIN d.delegation /\ rules[p] = d.delegation[p]
    /\ subscriptions = IF budgetsPermissions \in called THEN <<"budgets">> ELSE <<>>

Inv ==
    /\ TypeOK
    /\ app = "down" => ~connected /\ called = {}
    /\ app \in {"down", "init", "up"} => Registered
    /\ app = "up" => connected /\ called = build

LEMMA BudgetsName == budgetsPermissions.module = "budgets"
  BY DEF budgetsPermissions, CrudDescriptor, PermissionDescriptor

LEMMA Empty == NoRules = [p \in {} |-> p] /\ DOMAIN NoRules = {} /\ <<>> \in Seq(Names)
  <1>1. NoRules = [p \in {} |-> p]
    BY DEF NoRules
  <1>2. DOMAIN NoRules = {}
    BY <1>1
  <1>3. <<>> \in Seq(Names)
    OBVIOUS
  <1> QED
    BY <1>1, <1>2, <1>3

LEMMA InitInv == Init => Inv
  <1> SUFFICES ASSUME Init PROVE Inv
    OBVIOUS
  <1>1. TypeOK
    BY Empty DEF Init, TypeOK
  <1>2. Registered
    BY Empty DEF Init, Registered
  <1> QED
    BY <1>1, <1>2 DEF Init, Inv

LEMMA HookKeepsInv ==
    ASSUME Inv, NEW d \in build, Hook(d)
    PROVE  Inv'
  <1> USE DEF Inv, Hook
  <1>1. /\ d.module \in Names /\ d.permissions \subseteq Keys
        /\ DOMAIN d.delegation \subseteq Keys
        /\ \A p \in DOMAIN d.delegation : d.delegation[p] \in Keys
    BY BuildAssumption DEF TypeOK
  <1>2. /\ DOMAIN rules' = DOMAIN rules \cup DOMAIN d.delegation
        /\ \A p \in DOMAIN rules' :
               rules'[p] = IF p \in DOMAIN d.delegation THEN d.delegation[p] ELSE rules[p]
    BY DEF Register, Assign
  <1>3. subscriptions' \in Seq(Names)
    BY <1>1 DEF TypeOK
  <1>4. TypeOK'
    BY <1>1, <1>2, <1>3 DEF TypeOK, Register
  <1>5. Registered
    OBVIOUS
  <1>6. \A e \in called : d.module # e.module /\ d.permissions \cap e.permissions = {}
    BY <1>5 DEF Registered, Register
  <1>7. \A e, f \in called' : e # f => e.module # f.module /\ e.permissions \cap f.permissions = {}
    BY <1>5, <1>6 DEF Registered
  <1>8. modules' = {e.module : e \in called'} /\ known' = UNION {e.permissions : e \in called'}
    BY <1>5 DEF Registered, Register
  <1>9. DOMAIN rules' = UNION {DOMAIN e.delegation : e \in called'}
    BY <1>2, <1>5 DEF Registered
  <1>10. ASSUME NEW p \in DOMAIN rules'
         PROVE  \E e \in called' : p \in DOMAIN e.delegation /\ rules'[p] = e.delegation[p]
    BY <1>2, <1>5 DEF Registered
  <1>11. subscriptions' = IF budgetsPermissions \in called' THEN <<"budgets">> ELSE <<>>
    <2>1. CASE d = budgetsPermissions
      <3>1. subscriptions = <<>> /\ subscriptions' = Append(subscriptions, "budgets")
        BY <2>1, <1>5, BudgetsName DEF Registered
      <3> QED
        BY <2>1, <3>1
    <2>2. CASE d # budgetsPermissions
      BY <2>2, <1>5 DEF Registered
    <2> QED
      BY <2>1, <2>2
  <1>12. Registered'
    BY <1>7, <1>8, <1>9, <1>10, <1>11 DEF Registered
  <1> QED
    BY <1>4, <1>12

LEMMA StepKeepsInv == Inv /\ [Next]_vars => Inv'
  <1> SUFFICES ASSUME Inv, [Next]_vars PROVE Inv'
    OBVIOUS
  <1> USE DEF Inv
  <1>1. CASE Start \/ Connect \/ ConnectFails \/ Listen
    <2>1. UNCHANGED <<called, modules, known, rules, subscriptions>>
      BY <1>1 DEF Start, Connect, ConnectFails, Listen, registry
    <2>2. TypeOK'
      BY <1>1, <2>1 DEF TypeOK, Start, Connect, ConnectFails, Listen
    <2>3. Registered => Registered'
      BY <2>1 DEF Registered
    <2> QED
      BY <1>1, <2>1, <2>2, <2>3 DEF Start, Connect, ConnectFails, Listen
  <1>2. CASE Exit
    <2>1. TypeOK'
      BY <1>2, Empty DEF Exit, TypeOK
    <2>2. Registered'
      BY <1>2, Empty DEF Exit, Registered
    <2> QED
      BY <1>2, <2>1, <2>2 DEF Exit
  <1>3. ASSUME NEW d \in build, Hook(d) PROVE Inv'
    BY <1>3, HookKeepsInv
  <1>4. ASSUME NEW d \in build, HookThrows(d) PROVE Inv'
    <2>1. d.module \in Names /\ d.permissions \subseteq Keys
      BY BuildAssumption DEF TypeOK
    <2>2. modules' \subseteq Names /\ known' \subseteq Keys /\ rules' = rules
      BY <1>4, <2>1 DEF HookThrows, RegisterThrows, registry, TypeOK
    <2> QED
      BY <1>4, <2>2 DEF HookThrows, TypeOK
  <1>5. CASE UNCHANGED vars
    BY <1>5 DEF vars, registry, TypeOK, Registered
  <1> QED
    BY <1>1, <1>2, <1>3, <1>4, <1>5 DEF Next

LEMMA Invariance == Spec => []Inv
  BY InitInv, StepKeepsInv, PTL DEF Spec

-----------------------------------------------------------------------------
(* The descriptors of AppModule and the roles of the seed.                  *)

\* An owner's template is every permission, and each has one rule: to have it,
\* or to have the one to delete.
WellRuled(d) ==
    /\ d.templates.Owner = d.permissions /\ DOMAIN d.delegation = d.permissions
    /\ \A p \in d.permissions : /\ d.delegation[p] \in {p, <<p[1], "delete">>}
                                /\ d.delegation[p] \in d.permissions

LEMMA CrudIsWellRuled ==
    ASSUME NEW module, NEW verbs, NEW member, "delete" \in verbs
    PROVE  WellRuled(CrudDescriptor(module, verbs, member))
  BY DEF WellRuled, CrudDescriptor, PermissionDescriptor, CrudRules, Of

LEMMA AppModuleIsWellRuled == \A d \in AppModule : WellRuled(d)
  <1>1. /\ WellRuled(accountsPermissions) /\ WellRuled(usersPermissions)
        /\ WellRuled(householdsPermissions) /\ WellRuled(transactionsPermissions)
        /\ WellRuled(categoriesPermissions) /\ WellRuled(budgetsPermissions)
        /\ WellRuled(rolesPermissions)
    <2>1. "delete" \in Crud /\ "delete" \in RoleVerbs
      BY DEF Crud, RoleVerbs
    <2> QED
      BY <2>1, CrudIsWellRuled
         DEF accountsPermissions, usersPermissions, householdsPermissions,
             transactionsPermissions, categoriesPermissions, budgetsPermissions, rolesPermissions
  <1>2. WellRuled(bankSyncPermissions)
    BY DEF WellRuled, bankSyncPermissions, PermissionDescriptor, OwnRules, Of
  <1> QED
    BY <1>1, <1>2 DEF AppModule

LEMMA PermissionsOfAppModule == UNION {d.permissions : d \in AppModule} = ALL_PERMISSIONS
  <1>1. /\ accountsPermissions.permissions = {"accounts"} \X Crud
        /\ usersPermissions.permissions = {"users"} \X Crud
        /\ householdsPermissions.permissions = {"households"} \X Crud
        /\ transactionsPermissions.permissions = {"transactions"} \X Crud
        /\ categoriesPermissions.permissions = {"categories"} \X Crud
        /\ budgetsPermissions.permissions = {"budgets"} \X Crud
        /\ rolesPermissions.permissions = {"roles"} \X RoleVerbs
        /\ bankSyncPermissions.permissions = {"bank-sync"} \X {"execute", "read"}
    BY DEF accountsPermissions, usersPermissions, householdsPermissions, transactionsPermissions,
           categoriesPermissions, budgetsPermissions, rolesPermissions, bankSyncPermissions,
           CrudDescriptor, PermissionDescriptor, Of
  <1>2. UNION {d.permissions : d \in AppModule} =
            {"accounts", "users", "households", "transactions", "categories", "budgets"} \X Crud
            \cup {"roles"} \X RoleVerbs \cup {"bank-sync"} \X {"execute", "read"}
    BY <1>1 DEF AppModule
  <1> QED
    BY <1>2 DEF ALL_PERMISSIONS, RoleVerbs, Of

LEMMA MembersOfAppModule == UNION {d.templates.Member : d \in AppModule} = MEMBER_PERMISSIONS
  <1>1. /\ accountsPermissions.templates.Member = {"accounts"} \X {"create", "read", "edit"}
        /\ usersPermissions.templates.Member = {"users"} \X {"read"}
        /\ householdsPermissions.templates.Member = {"households"} \X {"read"}
        /\ transactionsPermissions.templates.Member = {"transactions"} \X {"create", "read", "edit"}
        /\ categoriesPermissions.templates.Member = {"categories"} \X {"read"}
        /\ budgetsPermissions.templates.Member = {"budgets"} \X {"create", "read", "edit"}
        /\ rolesPermissions.templates.Member = {"roles"} \X {"create", "read", "assign"}
        /\ bankSyncPermissions.templates.Member = {"bank-sync"} \X {"execute", "read"}
    BY DEF accountsPermissions, usersPermissions, householdsPermissions, transactionsPermissions,
           categoriesPermissions, budgetsPermissions, rolesPermissions, bankSyncPermissions,
           CrudDescriptor, PermissionDescriptor, Of
  <1> QED
    BY <1>1 DEF AppModule, MEMBER_PERMISSIONS, Of

LEMMA ViewersOfAppModule == UNION {d.templates.Viewer : d \in AppModule} = VIEWER_PERMISSIONS
  <1>1. /\ accountsPermissions.templates.Viewer = {"accounts"} \X {"read"}
        /\ usersPermissions.templates.Viewer = {"users"} \X {"read"}
        /\ householdsPermissions.templates.Viewer = {"households"} \X {"read"}
        /\ transactionsPermissions.templates.Viewer = {"transactions"} \X {"read"}
        /\ categoriesPermissions.templates.Viewer = {"categories"} \X {"read"}
        /\ budgetsPermissions.templates.Viewer = {"budgets"} \X {"read"}
        /\ rolesPermissions.templates.Viewer = {"roles"} \X {"read"}
        /\ bankSyncPermissions.templates.Viewer = {"bank-sync"} \X {"read"}
    BY DEF accountsPermissions, usersPermissions, householdsPermissions, transactionsPermissions,
           categoriesPermissions, budgetsPermissions, rolesPermissions, bankSyncPermissions,
           CrudDescriptor, PermissionDescriptor, Of
  <1> QED
    BY <1>1 DEF AppModule, VIEWER_PERMISSIONS

LEMMA RoutesAreDeclared == RoutePermissions \subseteq ALL_PERMISSIONS
  BY DEF RoutePermissions, accountsRoutes, usersRoutes, householdsRoutes, transactionsRoutes,
         categoriesRoutes, budgetsRoutes, bankSyncRoutes, rolesRoutes, ALL_PERMISSIONS,
         RoleVerbs, Of

\* Who may delete nothing passes on nothing it does not have.
LEMMA GrantableByRules ==
    ASSUME ServedIsComplete, app = "up", build = AppModule
    PROVE  /\ known = ALL_PERMISSIONS /\ Grantable(ALL_PERMISSIONS) = known
           /\ \A S : (\A q \in S : q[2] # "delete") => Grantable(S) \subseteq S
  <1>1. known = ALL_PERMISSIONS
    BY PermissionsOfAppModule DEF ServedIsComplete
  <1>2. DOMAIN rules = known
    <2>1. \A d \in build : DOMAIN d.delegation = d.permissions
      BY AppModuleIsWellRuled DEF WellRuled
    <2> QED
      BY <2>1 DEF ServedIsComplete
  <1>3. ASSUME NEW p \in DOMAIN rules
        PROVE  rules[p] \in {p, <<p[1], "delete">>} /\ rules[p] \in known
    <2>1. PICK d \in AppModule : p \in DOMAIN d.delegation /\ rules[p] = d.delegation[p]
      BY DEF ServedIsComplete
    <2>2. p \in d.permissions /\ d.delegation[p] \in {p, <<p[1], "delete">>}
          /\ d.delegation[p] \in d.permissions
      BY <2>1, AppModuleIsWellRuled DEF WellRuled
    <2>3. d.permissions \subseteq known
      BY DEF ServedIsComplete
    <2> QED
      BY <2>1, <2>2, <2>3
  <1>4. Grantable(ALL_PERMISSIONS) = known
    BY <1>1, <1>2, <1>3 DEF Grantable
  <1>5. ASSUME NEW S, \A q \in S : q[2] # "delete", NEW p \in Grantable(S)
        PROVE  p \in S
    <2>1. p \in DOMAIN rules /\ rules[p] \in S
      BY DEF Grantable
    <2>2. rules[p] # <<p[1], "delete">>
      BY <1>5, <2>1
    <2> QED
      BY <1>3, <2>1, <2>2
  <1> QED
    BY <1>1, <1>4, <1>5

-----------------------------------------------------------------------------
(* The theorems.                                                            *)

\* The registry, the event bus and bootstrap keep their types.
THEOREM TypeCorrect == Spec => []TypeOK
  BY Invariance, PTL DEF Inv

\* Whatever modules are put together, in whatever order their hooks run and
\* wherever they throw, requests only meet a registry that holds every declaration
\* once, and the budgets listener is subscribed once.
THEOREM OnlyCompleteIsServed == Spec => []ServedIsComplete
  <1>1. Inv => ServedIsComplete
    BY DEF Inv, Registered, ServedIsComplete
  <1> QED
    BY <1>1, Invariance, PTL
\* Under the rules of AppModule the roles of the seed are what the descriptors'
\* templates say; an owner can pass everything on, a member or viewer nothing but
\* what it has, and every route requires a permission there is.
THEOREM SeedIsContained == Spec => []SeededRolesContained
  <1>1. Inv => SeededRolesContained
    <2> SUFFICES ASSUME Inv, app = "up", build = AppModule
                 PROVE  SeededRolesContained
      BY DEF SeededRolesContained
    <2>1. ServedIsComplete
      BY DEF Inv, Registered, ServedIsComplete
    <2>2. /\ known = ALL_PERMISSIONS /\ Grantable(ALL_PERMISSIONS) = known
          /\ \A S : (\A q \in S : q[2] # "delete") => Grantable(S) \subseteq S
      BY <2>1, GrantableByRules
    <2>3. UNION {d.templates.Owner : d \in build} = ALL_PERMISSIONS
      <3>1. \A d \in build : d.templates.Owner = d.permissions
        BY AppModuleIsWellRuled DEF WellRuled
      <3> QED
        BY <3>1, PermissionsOfAppModule
    <2>4. \A q \in MEMBER_PERMISSIONS \cup VIEWER_PERMISSIONS : q[2] # "delete"
      BY DEF MEMBER_PERMISSIONS, VIEWER_PERMISSIONS, Of
    <2>5. /\ Grantable(MEMBER_PERMISSIONS) \subseteq MEMBER_PERMISSIONS
          /\ Grantable(VIEWER_PERMISSIONS) \subseteq VIEWER_PERMISSIONS
      BY <2>2, <2>4
    <2> QED
      BY <2>2, <2>3, <2>5, MembersOfAppModule, ViewersOfAppModule, RoutesAreDeclared
         DEF SeededRolesContained
  <1> QED
    BY <1>1, Invariance, PTL
=============================================================================
