---------------------------- MODULE Descriptors ----------------------------
(***************************************************************************)
(* What the modules of the finance-tracker declare: the permissions, role  *)
(* templates and delegation rules of each *.permissions.ts, the roles that *)
(* prisma/seed.ts writes out by hand, and what the controllers' routes     *)
(* require.  A permission 'accounts:read' is the pair of its halves.       *)
(***************************************************************************)
Of(module, verbs) == {module} \X verbs

Crud == {"create", "read", "edit", "delete"}

\* Editors, too, pass on what they do not have.
EditorsRuleFault(module, verbs) ==
    [p \in Of(module, verbs) |-> IF p[2] = "read" THEN p ELSE <<module, "edit">>]

\* Reading is passed on by readers, everything else by those who may delete.
CrudRules(module, verbs) ==
    [p \in Of(module, verbs) |-> IF p[2] = "read" THEN p ELSE <<module, "delete">>]

\* A permission is passed on by those who have it.
OwnRules(module, verbs) == [p \in Of(module, verbs) |-> p]

PermissionDescriptor(module, verbs, member, delegation) ==
    [module |-> module,
     permissions |-> Of(module, verbs),
     templates |-> [Owner |-> Of(module, verbs), Member |-> Of(module, member),
                    Viewer |-> Of(module, {"read"})],
     delegation |-> delegation]

CrudDescriptor(module, verbs, member) ==
    PermissionDescriptor(module, verbs, member, CrudRules(module, verbs))

RoleVerbs == Crud \cup {"assign", "unassign"}

accountsPermissions == CrudDescriptor("accounts", Crud, {"create", "read", "edit"})
usersPermissions == CrudDescriptor("users", Crud, {"read"})
householdsPermissions == CrudDescriptor("households", Crud, {"read"})
transactionsPermissions == CrudDescriptor("transactions", Crud, {"create", "read", "edit"})
categoriesPermissions == CrudDescriptor("categories", Crud, {"read"})
budgetsPermissions == CrudDescriptor("budgets", Crud, {"create", "read", "edit"})
rolesPermissions == CrudDescriptor("roles", RoleVerbs, {"create", "read", "assign"})
bankSyncPermissions ==
    PermissionDescriptor("bank-sync", {"execute", "read"}, {"execute", "read"},
                         OwnRules("bank-sync", {"execute", "read"}))

\* The modules that AppModule imports and that have a descriptor.
AppModule == {accountsPermissions, usersPermissions, householdsPermissions,
              transactionsPermissions, categoriesPermissions, budgetsPermissions,
              bankSyncPermissions, rolesPermissions}

-----------------------------------------------------------------------------
(* prisma/seed.ts.                                                          *)

ALL_PERMISSIONS ==
    {"accounts", "users", "households", "transactions", "categories", "budgets", "roles"} \X Crud
    \cup Of("bank-sync", {"execute", "read"}) \cup Of("roles", {"assign", "unassign"})

MEMBER_PERMISSIONS ==
    {"accounts", "transactions", "budgets"} \X {"create", "read", "edit"}
    \cup {"users", "households", "categories"} \X {"read"}
    \cup Of("bank-sync", {"execute", "read"}) \cup Of("roles", {"create", "read", "assign"})

VIEWER_PERMISSIONS ==
    {"accounts", "users", "households", "transactions", "categories", "budgets",
     "bank-sync", "roles"} \X {"read"}

-----------------------------------------------------------------------------
(* The @Permissions of the controllers.                                     *)

accountsRoutes == Of("accounts", Crud)
usersRoutes == Of("users", Crud)
householdsRoutes == Of("households", Crud \ {"create"})
transactionsRoutes == Of("transactions", Crud)
categoriesRoutes == Of("categories", Crud)
budgetsRoutes == Of("budgets", Crud)
bankSyncRoutes == Of("bank-sync", {"execute", "read"})
rolesRoutes == Of("roles", RoleVerbs)

RoutePermissions == accountsRoutes \cup usersRoutes \cup householdsRoutes \cup transactionsRoutes
                    \cup categoriesRoutes \cup budgetsRoutes \cup bankSyncRoutes \cup rolesRoutes
=============================================================================
