------------------------------- MODULE Startup -------------------------------
(***************************************************************************)
(* The start of the finance-tracker: NestFactory.create builds the         *)
(* modules, app.listen awaits the onModuleInit of each in some order -     *)
(* Prisma connects, a feature module registers its descriptor with the     *)
(* PermissionRegistryService, BudgetsModule subscribes to the event bus -  *)
(* and only then opens the port.  A hook that throws ends the process.     *)
(*                                                                         *)
(* The registry has no way to take a registration back: what is in it when *)
(* register throws stays there until the process ends.  The keys of one    *)
(* descriptor are a set here, in the code a list without repetitions.      *)
(***************************************************************************)
EXTENDS Naturals, Sequences, Descriptors

CONSTANTS Builds,   \* the sets of modules a program may be built of
          Names,    \* module names
          Keys      \* permissions

VARIABLES build,          \* the modules of the running program
          app,            \* where bootstrap is
          connected,      \* PrismaService has connected
          called,         \* modules whose onModuleInit has returned
          modules,        \* registeredModules
          known,          \* allRegisteredKeys
          rules,          \* delegationMap
          subscriptions   \* EventBus, of TRANSACTION_CREATED: module names

vars == <<build, app, connected, called, modules, known, rules, subscriptions>>
registry == <<modules, known, rules>>

ASSUME BuildAssumption ==
    \A b \in Builds : \A d \in b : /\ d.module \in Names
                                   /\ d.permissions \subseteq Keys
                                   /\ DOMAIN d.delegation \subseteq Keys
                                   /\ \A p \in DOMAIN d.delegation : d.delegation[p] \in Keys

NoRules == [p \in {} |-> p]

TypeOK ==
    /\ build \in Builds
    /\ app \in {"down", "init", "throwing", "up"}
    /\ connected \in BOOLEAN
    /\ called \subseteq build
    /\ modules \subseteq Names
    /\ known \subseteq Keys
    /\ DOMAIN rules \subseteq Keys /\ \A p \in DOMAIN rules : rules[p] \in Keys
    /\ subscriptions \in Seq(Names)

Init ==
    /\ build \in Builds
    /\ app = "down" /\ connected = FALSE
    /\ called = {} /\ modules = {} /\ known = {} /\ rules = NoRules
    /\ subscriptions = <<>>

-----------------------------------------------------------------------------
\* bootstrap, of this or another build: every service is new.
Start ==
    /\ app = "down" /\ app' = "init"
    /\ build' \in Builds
    /\ UNCHANGED <<connected, called, registry, subscriptions>>

Connect ==
    /\ app = "init" /\ ~connected
    /\ connected' = TRUE
    /\ UNCHANGED <<build, app, called, registry, subscriptions>>

ConnectFails ==
    /\ app = "init" /\ ~connected
    /\ app' = "throwing"
    /\ UNCHANGED <<build, connected, called, registry, subscriptions>>

\* Object.assign
Assign(old, new) ==
    [p \in DOMAIN old \cup DOMAIN new |-> IF p \in DOMAIN new THEN new[p] ELSE old[p]]

\* register, to its end.
Register(d) ==
    /\ d.module \notin modules /\ d.permissions \cap known = {}
    /\ modules' = modules \cup {d.module}
    /\ known' = known \cup d.permissions
    /\ rules' = Assign(rules, d.delegation)

\* register throws before it has changed anything, or with the name and the keys
\* before the first duplicate added.
RegisterThrows(d) ==
    \/ d.module \in modules /\ UNCHANGED registry
    \/ /\ d.module \notin modules /\ d.permissions \cap known # {}
       /\ modules' = modules \cup {d.module}
       /\ \E before \in SUBSET (d.permissions \ known) : known' = known \cup before
       /\ UNCHANGED rules

Hook(d) ==
    /\ app = "init" /\ d \in build \ called
    /\ Register(d)
    /\ called' = called \cup {d}
    /\ subscriptions' = IF d = budgetsPermissions THEN Append(subscriptions, d.module)
                                                  ELSE subscriptions
    /\ UNCHANGED <<build, app, connected>>

\* The error is logged and the start goes on.
SwallowedFault(d) ==
    /\ app = "init" /\ d \in build \ called
    /\ RegisterThrows(d)
    /\ called' = called \cup {d}
    /\ UNCHANGED <<build, app, connected, subscriptions>>

HookThrows(d) ==
    /\ app = "init" /\ d \in build \ called
    /\ RegisterThrows(d)
    /\ app' = "throwing"
    /\ UNCHANGED <<build, connected, called, subscriptions>>

\* The hooks have returned and the port is opened, ...
Listen ==
    /\ app = "init" /\ connected /\ called = build
    /\ app' = "up"
    /\ UNCHANGED <<build, connected, called, registry, subscriptions>>

\* What one start did counts for the next.
StaticCalledFault ==
    /\ app # "down" /\ app' = "down"
    /\ connected' = FALSE /\ subscriptions' = <<>>
    /\ modules' = {} /\ known' = {} /\ rules' = NoRules
    /\ UNCHANGED <<build, called>>

\* ... or the process ends: bootstrap is not caught, and anything may kill it.
Exit ==
    /\ app # "down" /\ app' = "down"
    /\ connected' = FALSE /\ called' = {} /\ subscriptions' = <<>>
    /\ modules' = {} /\ known' = {} /\ rules' = NoRules
    /\ UNCHANGED build

Next == Start \/ Connect \/ ConnectFails \/ Listen \/ Exit
        \/ \E d \in build : Hook(d) \/ HookThrows(d)

Spec == Init /\ [][Next]_vars

-----------------------------------------------------------------------------
(* Properties.                                                              *)

\* What requests meet is the whole registry and nothing else: whatever the order
\* of the hooks, and however earlier starts ended, no name or key was declared
\* twice, every declared permission is known, every rule in force was declared
\* and none is missing, and the budgets listener is subscribed exactly once
\* (register's checks, its half-way throw, and the hooks before the port).
ServedIsComplete == app = "up" =>
    /\ connected
    /\ \A d, e \in build : d # e => d.module # e.module /\ d.permissions \cap e.permissions = {}
    /\ known = UNION {d.permissions : d \in build}
    /\ DOMAIN rules = UNION {DOMAIN d.delegation : d \in build}
    /\ \A p \in DOMAIN rules : \E d \in build : p \in DOMAIN d.delegation /\ rules[p] = d.delegation[p]
    /\ subscriptions = IF budgetsPermissions \in build THEN <<"budgets">> ELSE <<>>

\* canDelegate, for somebody who holds S.
Grantable(S) == {p \in DOMAIN rules : rules[p] \in S}

\* The roles of the seed under the rules of AppModule: they are what the
\* descriptors' templates say and hold only registered permissions; an owner can
\* pass every permission on; a member or viewer nothing but what it has, so
\* that the permission to create and assign roles raises nobody; and the guard
\* knows every permission a route requires.
SeededRolesContained == app = "up" /\ build = AppModule =>
    /\ ALL_PERMISSIONS = UNION {d.templates.Owner : d \in build}
    /\ MEMBER_PERMISSIONS = UNION {d.templates.Member : d \in build}
    /\ VIEWER_PERMISSIONS = UNION {d.templates.Viewer : d \in build}
    /\ ALL_PERMISSIONS = known /\ Grantable(ALL_PERMISSIONS) = known
    /\ Grantable(MEMBER_PERMISSIONS) \subseteq MEMBER_PERMISSIONS
    /\ Grantable(VIEWER_PERMISSIONS) \subseteq VIEWER_PERMISSIONS
    /\ RoutePermissions \subseteq known
=============================================================================
