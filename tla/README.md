# Formal models of engineering-lab

The repository holds three programs. This directory models what they do when
requests, goroutines, timers, caches and databases meet in an order nobody wrote
a test for, checks the models with TLC on small instances, and proves the most
important facts with TLAPS for instances of any size.

| | program | directory |
|---|---|---|
| A | url-shortner: HTTP redirects over Postgres and Redis, with click analytics (Go) | `src/distributed-systems-go/url-shortner` |
| B | reliability lab: an HTTP server with fault injection, latency and error metrics, a health verdict, and a load generator (Go) | `src/ddia-implementations/ch01-reliability` |
| C | finance-tracker: households, accounts, transactions, budgets, roles with delegation, feature flags, an event bus, bank sync (NestJS, Prisma) | `src/software-architecture/di-and-modularity/finance-tracker` |

`PROJECT.json` lists every part with its status, every run, the line each
definition stands for, the hazards and the findings.

## 1. Inventory

### A. url-shortner

* **Links** — state: the Postgres table `urls` (unique `short_code`), Redis keys
  with a TTL, the counters of `handler.Metrics`; per request the local variables
  of `Shorten`, `RedirectHandler`, `CachedStore.Save` and `CachedStore.Lookup`.
  Operations: POST /shorten (generate, look up, insert, warm the cache, up to five
  times), GET /{code} (cache, table, backfill, redirect). Hard: the cache and the
  table are written one after the other, backfills are goroutines nobody waits
  for, TTLs are computed from a clock that moves, and every call may fail. Correct
  when Redis never contradicts Postgres, a visitor is always answered from what is
  published, one request publishes one link, and every request is answered.
* **Analytics tracker and process life cycle** — state: the buffered channel, the
  worker, `trackerCtx`, `Done`, the open pool and client, where `main` is.
  Operations: `Track`, `Run`, the start, the signal, `srv.Shutdown` with its
  timeout, cancel, await, close, close. Hard: four kinds of goroutine race with
  the shutdown. Correct when no queued click is lost on a clean exit, nobody sends
  on the closed channel or saves to the closed pool, redirects never wait for
  analytics, and a signal ends the process.
* **MemoryStore and the development server** — the map under an RWMutex that
  replaces Postgres and Redis outside PROD; `Save` overwrites, and the handler
  looks up and saves in two steps.
* **Rate limiter** — one token bucket per IP in a `sync.Map`, touched by requests
  and swept by a cleanup goroutine.
* **Logger, IP whitelist, health, metrics and stats handlers** — wrappers and reads.

### B. reliability lab

* **Fault injector** — decides per request to hang until the client leaves, to
  fail, or to be slow.
* **Latency middleware and metrics** — a histogram and an error tracker, each with
  a lock of its own, updated one after the other for every request.
* **Health checker** — reads error rate and percentiles one after the other and
  combines them into Healthy, Degraded or Unhealthy.
* **Server and shutdown** — waits 10 s for requests in flight, among them hung ones.
* **Load generator** — N workers, a request counter, a histogram.

### C. finance-tracker

* **Roles, permissions and delegation** — role definitions with permissions per
  household, assignments to users, a registry of the permissions modules declare,
  and the rule that a grantor needs the delegable permission itself. Hard: checks
  and writes are separate statements, deletes are not transactional, and bodies reach
  Prisma with whatever fields they have.
* **Permission registry and start** — each module registers a descriptor as the
  program starts; the guards and the delegation rule read the result with every
  request. Hard: hooks run in an order nobody states, `register` throws with half of
  a descriptor added, and the seed repeats by hand what the descriptors declare.
* **Feature flags** — rows read by a guard and by the event bus.
* **Event bus** — publishes domain events to listeners that a flag may disable,
  and swallows their failures.
* **Transactions and budgets** — a transaction is stored, then an event lets the
  budgets listener add its amount to `currentSpent`; updates of the budget race
  with it, and may move it to another household.
* **Bank sync** — creates a row per record fetched, without a transaction.
* **Accounts, categories, households, users** — CRUD under foreign keys that
  restrict or null.

## 2. Plan

What is written, checked and proved; the order is that of the plan.

| module | models | proofs |
|---|---|---|
| `LinkDirectory` | what the shortener promises (abstract) | |
| `ShortLinks` | handlers, cache and table of the url-shortner; implements `LinkDirectory` | `ShortLinks_proofs` |
| `ClickTracker` | analytics worker and process life cycle | `ClickTracker_proofs` |
| `DevServer` | the handlers over MemoryStore, outside PROD | `DevServer_proofs` |
| `RateLimiter` | LoadOrStore, touch, Allow, sweep | `RateLimiter_proofs` |
| `Roles` | the permission guard, role definitions, assignments, delegation, users | `Roles_proofs` |
| `Ledger` | transactions, event bus, budgets, feature flags, bank sync, accounts and categories under foreign keys | `Ledger_proofs` |
| `Reliability` | injector, metrics, health checker, shutdown, load generator | `Reliability_proofs` |
| `Descriptors`, `Startup` | what the modules declare; start of the finance-tracker and its permission registry | `Startup_proofs` |

`MC...` modules give the constants their values. Left open, in this order: the
seed script as a program of its own (its explicit ids leave the sequences behind,
so that the first inserts of the services collide), unassignRole's missing
household in a run, bodies that name ids or nest new rows, and the composition of `Roles` and `Ledger`, in which a
request of one would lose its permission while the other is under way.

## 3. Modules

### LinkDirectory
A directory from codes to links, with a clock. `Publish` fills a free code once
and for ever; `Ask` and `Answer` are a visitor's question and its answer: the
published destination, "gone" once the expiry has passed, "not found" only while
the code is free, or a failure. `Forget` is a crash that loses the questions in
flight. It says what the shortener promises without saying how.

### ShortLinks
Requests step through the control points `generate → get → select → fill`
(`App.Shorten`'s loop body and `CachedStore.Lookup`), `insert → warm → set`
(`CachedStore.Save`) and `done`. The two handlers share `Lookup`; what the caller
does with its result is in `Found`, `FoundExpired` and `FoundNothing`.

| variable | code |
|---|---|
| `urls` | table `urls`; rows are `[url, exp]` |
| `cache` | Redis; an entry holds the destination and the time Redis evicts it, `Forever` for a key without TTL |
| `sets` | the `redis.Set` calls in flight: the one of `Save` (try 0) and the backfill goroutines |
| `pc`, `want`, `code`, `tries`, `row`, `reply` | the locals of a request and its response |
| `metrics` | `handler.Metrics`, without TotalRequests |

Every call to Redis and Postgres may fail. An INSERT may be committed and still
be reported as an error (`PgInsertUnacknowledged`). The clock moves between any
two steps; Redis drops keys when their TTL runs out (`Tick`) or at any time
(`Evict`); `Crash` ends every request and goroutine and restarts the process.
`TimeUntil`, `ScannedExpiry` and `EntryOf` do what `time.Until`, the scan of a
NULL timestamp and go-redis' treatment of a non-positive duration do. A short
code is one value: how its seven characters are drawn does not matter, any code
may be drawn at any time. `SELECT` and the test of the expiry are one step: rows
never change, so reading the row earlier makes no difference.

### ClickTracker
`main` walks through `connect, serving, shutdown, cancel, await, closeDb,
closeRedis, return` to `exit0` or `exit1`. A redirect that finds its link goes
through `lookup`, where it may leave a backfill goroutine behind, and `track`.
The worker is `Tracker.Run`: `select` takes an event or the cancellation, `save`
and `drainSave` are SaveAnalytics calls in progress, `drain` is the range over the
closed channel. `clicked` and `saves` are histories of what was queued and of the
SaveAnalytics calls that returned. `srv.Shutdown` (net/http) returns only when no
handler runs, or fails when its ten seconds are up while one does; handlers may
hang at any await of theirs, so the timeout is possible at any time one is in flight.

### DevServer
`Shorten` and `RedirectHandler` once more, over a store whose calls are atomic
(`MemoryStore` holds its lock throughout) and never fail. What remains between two
calls is the point: `LookupCode` finds a code free and `Save` assigns whatever the
map holds by then. `TrackerIsNotNil` is what Go makes of a nil `*analytics.Tracker`
stored in an interface field; a redirect that calls it is `aborted` (net/http
recovers the panic and drops the connection). `OuterShortKey` is the shadowed
variable of `Shorten`.

### RateLimiter
Entries of the `sync.Map` are objects with an identity (`Limiters`): a request
holds the one `LoadOrStore` gave it, whether or not the sweep has removed it from
the map since. `Touch` and `Allow` are separate steps. A tick is the minute between
two sweeps, in which idle times grow and `Range` visits every key in any order; a beat
is the time in which a bucket gains one token, and a tick has `Refill` of them (600 at
10/s). `rate.Limiter` computes, at each call, what has been gained since the last one,
so every bucket in use gains its token at a point of the beat of its own (`Gain`, `due`):
requests come before it and after it, in every beat of the minute. The idle time is
enough to fill a bucket, whose first beat may be cut short
(`Refill * (IdleTicks - 1) >= Burst`). An entry's age is counted in whole ticks. A
request may span one tick, not two (`late`), and a sweep ends before the next: both
take far less than a minute.

### Roles
One HTTP request walks through `guard` (PermissionsGuard), `find` (findOne or the
assignment), `findUser` (assignRole's second look-up), `delegate` (checkDelegation),
`write` and, for remove, `drop`; each is one awaited call of Prisma. A request carries what it read earlier: `seen`
(the permissions of the role, which update and assignRole decide on) and `row` (the
assignment unassignRole deletes by id; rows are known by the request that inserted
them). Unique and foreign keys are the guards of the writes, and a statement may
also fail for any other reason (`Fail`): a name that is taken, a user who is gone, a
lost connection. An update that changes only the name leaves this state alone. The
registry is the constant `GrantableBy`, its domain the known permissions. Reading a
user's assignments together with their roles is one step.
The user of `FakeAuthMiddleware` is the constant `Actors`: the services take the
actor as a parameter, and GUIDE.md has the reader change it.

`AddUser`, `EditUser` and `RemoveUser` are UsersService: `home` is the table User.
Removing a user is refused while a role is assigned to it, which is also what keeps an
actor in its table while it has permissions; the token still names its household.
The types of the bodies vanish when TypeScript is compiled and main.ts installs no
ValidationPipe, so a body holds what the client wrote and UsersService passes all of it
on. With `householdId`, PUT /users moves the user; with `roleAssignments`, POST /users
inserts assignments to roles that exist, without look-up or delegation (`roles` and `to`
of a request, `Undeclared` when they do something). Create and update of a role name the
fields they pass on. What remains true then is said with these two causes spelled out:
`AssignmentsRefer` by `Carried` and `Nested`, `NoPermissionFromNowhere` by `Sources`.
GUIDE.md asks for more, and section 4 says what a single request breaks.
`TenantsApart` says that a request changes roles and users of its own household only,
and assigns only roles of it, although the writes go by id alone and come after
awaits. It leaves out the writes the code does not scope: unassignRole's, which does not
ask for the household, and the assignments nested in POST /users.

### Descriptors and Startup
`Descriptors` writes down what each `*.permissions.ts` declares, the three lists
of `prisma/seed.ts` and the `@Permissions` of each controller; a permission
`accounts:read` is the pair of its halves. `Startup` is `bootstrap`: the hooks of
Prisma (`Connect`), and of each module (`Hook`, with `register` inside), in any
order; the port opens (`Listen`) when all have returned. `HookThrows` is `register`
throwing, with the module's name and the keys before the duplicate already added,
as the registry then is; it is dead state only because the process ends. `Exit` may
come at any time, and the next start may be of another build of the program
(`Builds`), since what a start must not depend on is what the last one left.

### Ledger
A request that creates a transaction awaits `account` (findOne), `insert`, `flag`
(isModuleEnabled in `EventBus.publish`), and, in the listener, `find` and `increment`; a
sync awaits `account` and then an `insert` per record. `Fail` is a statement that fails
where nothing catches it, `ListenerEnds` one that `publish` swallows. An INSERT may be
committed and reported as failed (`InsertUnacknowledged`); for the increment this makes
no difference, as both outcomes are answered alike. `EditTables` holds the requests of
one statement, which come at any time from whoever may send them. `owner` is the
household of each account, `category` says which categories there are, and a row that
goes is `Deleted`, since ids are never used twice. Rows of Transaction are known by the
request and the record they came from. The modules a household has
switched on are a constant: nothing in the program writes FeatureFlag. All syncs of a
run ask for one range of dates. Of the bank's name only that it may be anything is left
(a body sets it), so the adapter of a sync may be missing at any time.

Updates hand the whole body to Prisma here too. With `householdId` an account
(`MoveAccount`), a budget (`MoveBudget`) or a transaction goes to another household,
with `accountId` a transaction goes to another account (`EditTransaction`), and POST
/categories takes budgets along that its body connects, whatever their household
(`CreateCategory`). A body with several such fields does in one step what several bodies
do in several; POST /accounts with transactions to connect is `CreateAccount` and
`EditTransaction`. `currentSpent` is a field of POST and PUT /budgets, with any natural
number (`Figures`); amounts are natural numbers.

`moved`, `base` and `counted` are histories: the rows a body has put into another
household or account, what a client last wrote into `currentSpent`, and the budget a
request was added to since.

What a budget holds and what the table holds need not agree, and the model shows
it: transactions are edited and deleted without the budget, synced ones are never
published, and a failing listener is forgotten. The repository promises nothing
else, so no property demands it. A transaction may also carry, and a budget may be
for, a category of another household: neither create checks it. Where households and
accounts should agree, GUIDE.md does promise something, and a single update breaks it
(section 4). `StrayOnlyIfMoved` and `CountedAwayOnlyIfMoved` are what is true: bodies that
move a row are the only cause, and no race between a look-up and the statement after it
is another.

### Reliability
A request is at one place between the load generator and the server: `unsent`, `arrived`
(before the injector), `hung`, `working`, `record` and `count` (the two locks of
LatencyCalculator), `answered`, `broken` (refused or lost), `done`. Go sends a small
response when the outermost handler has returned, hence after `count`. `records` is the
histogram's slice in the order of recording, and `Percentile` says which observation
stands at the code's index once a copy is sorted: the least one for which there are more
observations up to it than the index. `GetHealth` takes a step for the error rate and
one for each percentile; `moments` is a history of what the status was at each moment of
the check. A percentile of few observations is a low one: of two, the 99th is the
smaller.

`main` waits for the signal from its first line on; one that comes before the port is
open leads to Shutdown all the same, and ListenAndServe then does not serve. An error
rate of exactly the maximum is Healthy here, as in checker.go; the lab's README.md calls
a server Healthy only below it.

A server that is too slow at one percentile and then at the other may be called
Healthy, because they are read one after the other; `SteadyVerdict` says what is
left: a server that is Healthy, or Unhealthy, throughout the check is called so.

### Fault operators
Operators named `...Fault` are mutated forms of the action that follows them
(a guard dropped, a reset missing, an error ignored). No action uses them; they
document which mistake each property would expose, and `PROJECT.json` pairs them
with the property.

## 4. Runs

One passing run per module checks everything said of it on one instance; the
others each refute one sentence of the repository's notes.

| run | instance | shows |
|---|---|---|
| `shortlinks` | 2 requests, 2 attempts, 2 codes, 2 destinations, clock 1..3, links expiring at 2 or never | `CacheCoherent`, `OneRowPerShorten`, `LookupsAreCounted`, `ImplementsDirectory`, `EventuallyAnswered` |
| `tracker` | 4 clicks, buffer of 2 | `ClicksConserved`, `NoSendOnClosed`, `NothingToSaveAfterClose`, `CleanExitSavesAll`, `SignalEnds`, `RedirectNotBlocked` |
| `devserver` | 2 codes, 2 destinations, 3 requests, 2 attempts | `OneLinkPerShorten` |
| `ratelimiter` | 2 addresses, 2 requests at a time, 2 entries, burst 2, 2 tokens a tick, idle after 2 ticks | `AdmittedBounded`, `SweptIsFull`, `IdleForgotten` |
| `ledger` | 2 requests, 2 households (the second with nothing switched on and a budget from before), an account and a category and one to come each, a budget to come, 2 records per sync, amounts of 1, `currentSpent` set to 2 | `SpentIsCounted`, `CountedAwayOnlyIfMoved`, `SwitchedOffIsUntouched`, `StrayOnlyIfMoved`, `FailedIsNotCounted`, `ReplyMatchesRows` |
| `reliability` | 3 requests, hangs and failures, 2 latencies, thresholds for the median and p99, at most half errors | `MetricsAgree`, `BothSidesAgree`, `PercentilesSpanRecords`, `SteadyVerdict`, `OnlyHangsHoldUp`, `SignalFreesClient` |
| `roles` | 2 requests, 2 households with 3 users and one to come, 3 roles and a free id, 4 permissions of which one is unknown | `AssignmentsRefer`, `NoPermissionFromNowhere`, `TenantsApart` |
| `startup` | the eight modules as they are, and with a ninth that repeats a name, repeats a key, or has a rule for another's key | `ServedIsComplete`, `SeededRolesContained` |

Every one of them also checks the type invariant of its module.

Two requests and two codes are enough for two requests to race for a code, for a
retry to find a second one, for a reader to cross a writer and for a backfill to
race with the SET of a Save. The clock passes the expiry while a row is in hand,
while a SET is in flight and while a key sits in Redis. A buffer of two with four
clicks can be full, partly drained and refilled. Two requests of one address are
one that holds an entry the sweep removes and one that stores its successor, with an
entry for each, and two addresses let the sweep meet one key that is idle and one that
is not. Two tokens a tick let requests come before, between and after the gains of a
bucket, and the idle time just fills it: one whole tick of two beats.
In `ledger` one request meets every statement there is, and two meet each other and
whatever happens to budgets: once both have arrived, accounts, categories and stored
transactions are no longer edited (the constraint `AloneOrUnedited` of `MCLedger`; an
edit together with two requests is left to the proofs, as are two budgets a listener may
choose from). Two requests are two increments of a budget, two syncs of an account, or one
of each; amounts of 1 on top of 2 are enough to see one lost or counted twice. Two
accounts are the one that was checked and the one a body names, two records are a sync
that fails in between. Three requests of the lab make the median and p99 differ, and the
error rate pass its maximum either way.

Symmetry is used only where no liveness is checked: of the requests in `roles`,
`roles_undelegated` and `ledger`.
`CHECK_DEADLOCK FALSE` is set for ClickTracker and Reliability (a process that has
exited stops) and for DevServer, Roles and Ledger (each request identifier is one
request, and when all are done nothing is left to do).

In `roles` household A has no owner: nobody may grant `edit`, which a role nobody
holds contains. Household B has one, so grants succeed and fail, and a new user may come
with the owner's role. Two requests show every pair of them; that a permission of another
household, once an actor holds it, also reaches a role takes a third request and is left
to the proof (`Sources`). Four kinds of
permission tell apart what the rules do: one everybody may pass on, one granted by
another, one that grants itself, one unknown.

`startup` needs no bounds: the program has eight modules, the three others
are the two ways `register` throws and the one declaration it lets pass. Every order
of the hooks and every prefix of a start is explored, and the next start after it.
The rules of a build with `Meddler` depend on the order of the hooks, so
`ServedIsComplete` only demands that each is somebody's declaration; `Claimant` and
`Namesake` never open the port.

### What the code does not do
Runs marked `violation` check what a note in the repository says, and TLC finds a
behaviour of the code that contradicts it:

* `shortlinks_created` — every successful POST /shorten is answered 500: the loop
  shadows `shortKey` (handler.go:78) and the test after it reads the outer one.
* `shortlinks_expired_in_redis` — a link that expires while its SET is under way,
  or is created expired, is stored in Redis without a TTL and redirects for ever.
* `devserver_replaced` — two requests find a code free and the second replaces the
  link of the first.
* `roles_undelegated` — an update restores, unchecked, permissions that another has
  removed, while an assignment has been checked against the role without them.

Others are in the models without a run of their own, each of them visible in a
single definition. Households are not kept apart from bodies: GUIDE.md:15 wants every
query scoped, GUIDE.md:103 transactions "scoped to account (and therefore household)",
GUIDE.md:344 roles assigned "within a household", and no ValidationPipe or list of fields
stands between a body and Prisma. PUT /users with a `householdId` makes a user who holds
roles a member of another household, roles and all (users.service.ts:34, `EditUser`), and
POST /users takes nested role assignments (users.service.ts:15, `AddUser`); PUT /budgets
and PUT /accounts move what they update (budgets.service.ts:60, `MoveBudget`;
accounts.service.ts:54, `MoveAccount`); PUT /transactions gives a transaction any account
(transactions.service.ts:88, `EditTransaction`); POST /categories takes budgets along
(categories.service.ts:9, `CreateCategory`). The properties name these writes as the
exceptions they are. A repeated sync doubles what is there: GUIDE.md:310 has sync upsert
what the bank returns, bank-sync.service.ts:51 inserts it without the bank's id
(`Row`, `Insert`). Every redirect outside PROD panics, since main.go:74 puts a
nil pointer into an interface (`AfterTrack`, `TrackerIsNotNil`). unassignRole ignores
its household (roles.service.ts:113, `FindAssignment`). Nothing waits for a backfill
goroutine before the Redis client is closed (`fills` when main is at `return`). A
load test against a server that hangs requests never ends, whatever `-duration`
says, until one of the two is stopped (`OnlyHangsHoldUp` is what holds). A lookup
caches a link without expiry for ever, not for the default ten minutes, because
postgres.go:45 returns a pointer to the zero time for NULL (`ScannedExpiry`). A
generated code that collides with an expired link is a 500, not a retry
(`FoundExpired`). A request that has loaded its entry of the rate limiter may lose
it to the sweep before touching it, and the address then has two buckets in one
tick: `AdmittedBounded` allows twice the burst, and twice the gains, for that reason.
With the code's numbers that is 20 at once and ten a second from each.

## 5. Fairness

`EventuallyAnswered` assumes weak fairness of each request's own steps and of the
SET it waits for: Go runs every goroutine and Redis and Postgres answer or fail
every call. (The code passes `context.Background()` without a deadline, so a
database that neither answers nor fails does hang a request.) Nothing is assumed
of arrivals, evictions, the clock, backfills or crashes.

The specification of `tracker`, `StalledSpec`, assumes of handlers only that one which
calls `Track` goes on while the process lives: the `select` of `Track` has a default.
So `RedirectNotBlocked` holds although the worker may stop for good. What else
`SignalEnds` needs is its premise: main and the worker run, which includes that
SaveAnalytics returns. Handlers may hang for ever in their look-up, as one whose
database never answers does, and without the deadline of `srv.Shutdown` the process
would not end.

`IdleForgotten` assumes that time passes (`Passes`: buckets gain, beats and ticks come),
that the sweep reaches every key and that requests under way go on.

`SignalFreesClient` and `OnlyHangsHoldUp` assume that the server starts or fails to,
that the goroutines of both programs run (a hung one has nothing to run) and that
Shutdown returns or reaches its deadline. Nobody need send a signal, interrupt
the load generator or ask for health.

## 6. Proofs

`ClickTracker_proofs` proves every safety property of `tracker` for any set
of clicks and any buffer size. The properties alone are not inductive: that a
handler never meets a closed channel depends on main having passed
`srv.Shutdown`, on the cancellation coming after that, and on the worker closing
the channel only once cancelled. `Phases` states this agreement, `Worker` ties the
event in hand to the worker's control point, and `ClicksConserved` needs only the
lemmas on moving the head of a sequence.

`ShortLinks_proofs` proves every safety property of `shortlinks`, for any codes,
destinations, requests, expiries, TTL and number of attempts. `CacheCoherent` is
strengthened by `SetsCoherent` (SETs in flight), `RowsInHand` (rows read or
inserted and not yet turned into a SET) and `Requests` (which control points know
a code and a link). The heart is `InsertKeepsInv`: an INSERT succeeds only on a
free code, and nothing in the system speaks of a free code. `Implements` is the
refinement: under the mapping of `ImplementsDirectory` each step of the deployment is a
step of `LinkDirectory` or leaves it alone. Only the INSERT publishes; a SELECT
or a hit in Redis answers; arrivals, SETs, retries, evictions and counters stutter.
`CacheCoherent` is what makes the answer from Redis the published one. The two
counting properties follow from one-to-one arguments on finite sets: a step that adds
a row moves one request past its INSERT, and a step past a GET counts one hit or miss.

`DevServer_proofs` and `RateLimiter_proofs` are complete too. The map of the first
never holds more links than requests that have saved one, replaced links included.
For the limiter, what replaces a bucket that a request still holds is too young to
be swept before that request ends (`Young`), so that an address has one such bucket at
most (`OneStale`); an entry old enough to be swept has admitted nobody in this
tick (`Untouched`). `Spendable` adds up what was admitted and what is left in both
buckets: no more than two bursts and what each has gained since the tick (`Gained`, one
token less while it is still due), whence `Bounded`. `OnlyFullIsSwept` needs `Refilled`: a
bucket loses tokens only within a tick of its last touch, and has gained one in every
beat since.

`Roles_proofs` proves types, `AssignmentsRefer` and `NoPermissionFromNowhere` for any
registry, households, users, roles, requests and bodies. `AssignmentsRefer` needs
`Checked`: what a request found stays true of a role until it is deleted, because no
statement changes the household of a role and an id is never used twice, and of a user
until it is deleted or a body moves it (`Kept`, `Carried`). `Inserted` ties an
assignment to the request it came with. For the closure, `Within(H, S)` says of some
households and one set closed under delegation that the roles, the snapshots updates will
compare with and the lists about to be written all stay within the set. It is kept for a
single household as long as no body has moved a user or nested assignments
(`Declared`), and for all of them together always. A stale snapshot is harmless here, as it was within the
set when it was taken; it is harmful to `NoUndelegatedGrant`, which speaks of what
users hold, and there the run finds the race. Steps that read and steps that write
are treated apart, each with one case per action. `Apart` rests on the same `Checked`:
the household of a role that was looked up cannot have changed when it is written, and
that of a user only by a move.

`Ledger_proofs` proves every property of `ledger`. A row keeps its
household until it is deleted or a body moves it, and then stays deleted or moved
(`TablesKept`), and removal of an account looks at the stored transactions
(`StraysWereMoved`); that the INSERT comes an await after the check adds no other cause,
since the foreign key repeats the part of the check that removals can change. A
budget found in one household is in it, gone or moved when it is incremented, whatever
category it is in by then (`WasOf`, `CountsFollowMoves`). Households without the module
send no update of a budget, so theirs are never in `moved` (`OffUnmoved`). `RepliesMatch` counts the inserted records of a sync.
`SpentAddsUp` needs sums over sets without an induction over them: `Sum` counts the
units of all amounts as pairs of a request and a number, so that a request counted
for the first time adds its amount as a disjoint union adds its cardinality, and a
reset leaves no request counted since. That nobody is counted twice is in `Progress`:
a request has been counted nowhere until it is done. In a budget that is still to come
nobody is counted, so what its first body writes is all it holds.

`Reliability_proofs` proves `BothSides` by writing both sides as sets: the server has
counted the requests that were answered, the client those that are done, and when all
are done the difference is the requests without a status (`Counted`, `Received`,
`Tallies`). `Steady` needs `Moments`: the error rate `GetHealth` read was that of some
moment of the check, and so was every percentile that was too high. `Agreement` is that
part of `Tallies` which ties the length of the histogram to what has been counted and
the requests between the two locks. For `Percentiles`, for any number of observations of
any latencies, the least latency that enough observations do not exceed has to exist and
to be an observation: `LeastNatural` gets it from the well-foundedness of the naturals,
which needs no induction theorem, and `PercentileAtIndex` bounds it by the code's index.

`Startup_proofs` proves types and `OnlyCompleteIsServed` for any builds. The invariant
says of each point of a start what is in the registry: exactly the descriptors whose hook
has returned, unless one is throwing, and then the port stays closed. `SeedIsContained`
adds what that registry is for the real program: once `AppModule` is up, the rules are
those of its eight descriptors, each of which lets a permission be granted by itself or
by the module's `delete` (`WellRuled`), and the seeded members and viewers have no `delete`.

Three properties the code violates are proved under the hypothesis that it would
take to keep them, which says what the cause is and that nothing else is wrong.
Each hypothesis excludes orders of steps that the program allows and no action; the first
also excludes bodies that do more than their handlers declare, the last also links that
have expired when they are saved or cached.

* `LockedRolesSuffice`: if no two requests are at work on one role between reading
  and writing it, and no body moves a user or nests assignments (`Declared`), nobody
  holds what delegation does not give (`NoUndelegatedGrant`). The run finds the race
  alone, in an instance of one household where no body does more than it declares.
* `LockedCodesSuffice`: if no two requests are between the lookup and the save of
  one code, no published link is replaced (`NeverReplaced`); `StillFree` is the invariant.
* `PromptSetsSuffice`: if every SET of a link that expires reaches Redis with a
  positive TTL that the clock has not overtaken, no key outlives its link
  (`EvictedAtExpiry`). Late SETs and TTLs that are not positive, whether of a Save or a
  backfill, are thus the only causes; evictions, crashes and retries are none. `KeptUntilExpiry` is the invariant.

Assumptions, each in the module that declares the constants: `RegistryAssumption`,
`PeopleAssumption`, `SeedAssumption` (the seed assigns roles within households),
`BufferAssumption`, `ExpiryAssumption`, `BoundAssumption`, `SentinelAssumption`,
`HouseAssumption`, `KindAssumption` (no budget is an account or a transaction),
`BatchAssumption`, `BuildAssumption`,
`RateAssumption` (an idle bucket has time to refill), `NoneAssumption`,
`FaultAssumption`, `ReqAssumption`, `HealthAssumption`, and `FiniteAssumption` and
`DevAssumption`, which make the sets that are counted finite. TLC evaluates all of
them with the values of the runs.

Checked by TLC only: liveness (`EventuallyAnswered`, `SignalEnds`,
`RedirectNotBlocked`, `IdleForgotten`, `OnlyHangsHoldUp`, `SignalFreesClient`), which
TLAPS cannot prove under fairness. Every safety property that a passing run checks is
a theorem. Of the four properties the code violates, `CreatedIsAnswered` has no proof
at all: every POST /shorten that saves its link and is answered violates it.

## 7. Not modelled

Of finance-tracker: the seed script (its result is the initial state of `Roles` and
`Ledger`), the sequences behind the ids, names, balances, e-mail addresses and the
household of a category, which no modelled statement reads. Bodies are modelled as far
as they write columns the properties speak of and connect rows that exist; bodies that
give an `id`, or nest rows to be created below other rows, are not. DELETE /households: PostgreSQL refuses it as long as a
member, a role or a feature flag refers to the household, and no statement of the
program ever removes a flag. The bank adapters return constants. Of the url-shortner:
the logger, the IP whitelist and the statistics handlers, which keep no state.
`PROJECT.json` gives the reason for each part. Time zones: `expires_at` is a TIMESTAMP
without time zone, an instant with an offset is stored as its wall-clock time; the
models' clock has no zones. go-redis retries, connection pools, JSON and HTTP framing
are left out: no property tells them apart.
