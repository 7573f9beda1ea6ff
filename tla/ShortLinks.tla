----------------------------- MODULE ShortLinks -----------------------------
(***************************************************************************)
(* The url-shortner of distributed-systems-go as it runs with ENV=PROD:    *)
(* App.Shorten and App.RedirectHandler over CachedStore (Redis in front of *)
(* Postgres).  One step per call that leaves the process, so that requests,*)
(* Redis SETs still in flight, the clock and a crash interleave between    *)
(* any two of them.                                                        *)
(*                                                                         *)
(* A request runs through the control points                               *)
(*                                                                         *)
(*    generate -> get -> select -> fill          the loop body and Lookup  *)
(*    insert -> warm -> set                      Save                      *)
(*    done                                       the response is written   *)
(*                                                                         *)
(* The loop body of Shorten calls the Lookup that a redirect is made of.   *)
(***************************************************************************)
EXTENDS Integers, FiniteSets

CONSTANTS Codes,        \* short codes
          Urls,         \* destinations
          Expiries,     \* the expires_at times a client may ask for
          Reqs,         \* requests, to POST /shorten or to GET /{code}
          DefaultTtl,   \* CachedStore.ttl
          MaxAttempts,  \* bound of the loop in Shorten
          MaxTime,      \* bound of the clock
          NoExpiry,     \* a nil expires_at, NULL in Postgres
          NoRow,        \* no row
          NoCode,       \* the empty short code
          Absent,       \* Redis has no such key
          Forever       \* a Redis key without a TTL

ASSUME ExpiryAssumption   == Expiries \subseteq Nat \ {0} /\ NoExpiry \notin Int
ASSUME BoundAssumption    == {MaxAttempts, MaxTime} \subseteq Nat \ {0} /\ DefaultTtl \in Nat
ASSUME FiniteAssumption   == IsFiniteSet(Codes) /\ IsFiniteSet(Reqs)
ASSUME SentinelAssumption ==
    /\ NoCode \notin Codes
    /\ Forever \notin Int
    /\ NoRow \notin [url : Urls, exp : Expiries \cup {NoExpiry}]
    /\ Absent \notin [url : Urls, until : Nat \cup {Forever}]

VARIABLES now,      \* the clock
          urls,     \* the Postgres table urls: short_code -> row
          cache,    \* Redis: short_code -> entry, until the time it is evicted
          sets,     \* Redis SET calls in flight
          pc,       \* per request, its control point
          want,     \* per request, the link POST /shorten asks for; NoRow for GET
          code,     \* per request, the code it works on
          tries,    \* per request, the iterations of the loop begun
          row,      \* per request, the row Postgres returned to it
          reply,    \* per request, the response
          metrics   \* handler.Metrics

request == <<pc, want, code, tries, row, reply>>
vars == <<now, urls, cache, sets, request, metrics>>

Link == [url : Urls, exp : Expiries \cup {NoExpiry}]
Entry == [url : Urls, until : Nat \cup {Forever}]
Points == {"idle", "generate", "get", "select", "fill", "insert", "warm", "set", "done"}
Status == {"none", "201", "302", "400", "404", "410", "500", "lost"}

\* A SET in flight, by the request and the iteration that issued it.  Try 0 is
\* the SET of Save, which the request waits for; the others are goroutines.
PendingSet == [req : Reqs, try : 0..MaxAttempts, code : Codes, url : Urls, ttl : Int]

TypeOK ==
    /\ now \in 1..MaxTime
    /\ urls \in [Codes -> Link \cup {NoRow}]
    /\ cache \in [Codes -> Entry \cup {Absent}]
    /\ sets \in SUBSET PendingSet
    /\ pc \in [Reqs -> Points]
    /\ want \in [Reqs -> Link \cup {NoRow}]
    /\ code \in [Reqs -> Codes \cup {NoCode}]
    /\ tries \in [Reqs -> 0..MaxAttempts]
    /\ row \in [Reqs -> Link \cup {NoRow}]
    /\ reply \in [Reqs -> [status : Status, url : Urls \cup {NoRow}]]
    /\ metrics \in [hits : Nat, misses : Nat, shortened : Nat, redirects : Nat]

Init ==
    /\ now = 1
    /\ urls = [c \in Codes |-> NoRow]
    /\ cache = [c \in Codes |-> Absent]
    /\ sets = {}
    /\ pc = [r \in Reqs |-> "idle"]
    /\ want = [r \in Reqs |-> NoRow]
    /\ code = [r \in Reqs |-> NoCode]
    /\ tries = [r \in Reqs |-> 0]
    /\ row = [r \in Reqs |-> NoRow]
    /\ reply = [r \in Reqs |-> [status |-> "none", url |-> NoRow]]
    /\ metrics = [hits |-> 0, misses |-> 0, shortened |-> 0, redirects |-> 0]

-----------------------------------------------------------------------------
\* The clock, and time.Until.  PgStore.Lookup hands a NULL expires_at on as a
\* pointer to the zero time.Time, a time long past.
ZeroTime == 0

TimeUntil(t) == t - now

Expired(link) == link.exp # NoExpiry /\ now > link.exp

\* The TTL Save computes for expires_at, and the one Lookup computes for a row.
SaveTtl(exp) == IF exp = NoExpiry THEN DefaultTtl ELSE TimeUntil(exp)

ScannedExpiry(exp) == IF exp = NoExpiry THEN ZeroTime ELSE exp

LookupTtl(exp) == TimeUntil(ScannedExpiry(exp))

\* go-redis sends no EX/PX for a duration that is zero or negative.
EntryOf(s) == [url |-> s.url, until |-> IF s.ttl > 0 THEN now + s.ttl ELSE Forever]

Count(field) == metrics' = [metrics EXCEPT ![field] = @ + 1]

IsShorten(r) == want[r] # NoRow

Respond(r, status, url) ==
    /\ pc' = [pc EXCEPT ![r] = "done"]
    /\ reply' = [reply EXCEPT ![r] = [status |-> status, url |-> url]]

Fail(r) == Respond(r, "500", NoRow)

\* The shortKey Shorten tests after its loop.  The loop body declares a
\* shortKey of its own (:=), so the outer one keeps its zero value.
OuterShortKey(r) == NoCode

AfterLoop(r) ==
    IF OuterShortKey(r) # NoCode
    THEN Respond(r, "201", NoRow) /\ Count("shortened")
    ELSE Fail(r) /\ UNCHANGED metrics

-----------------------------------------------------------------------------
(* A request arrives.                                                       *)

ArriveShorten(r) ==
    /\ pc[r] = "idle"
    /\ \E link \in Link : want' = [want EXCEPT ![r] = link]
    /\ pc' = [pc EXCEPT ![r] = "generate"]
    /\ UNCHANGED <<now, urls, cache, sets, code, tries, row, reply, metrics>>

\* Invalid JSON, or an empty url.
RejectBody(r) ==
    /\ pc[r] = "idle"
    /\ Respond(r, "400", NoRow)
    /\ UNCHANGED <<now, urls, cache, sets, want, code, tries, row, metrics>>

ArriveRedirect(r) ==
    /\ pc[r] = "idle"
    /\ \E c \in Codes : code' = [code EXCEPT ![r] = c]
    /\ pc' = [pc EXCEPT ![r] = "get"]
    /\ UNCHANGED <<now, urls, cache, sets, want, tries, row, reply, metrics>>

(* The loop of Shorten.                                                     *)

\* Faults the runs must catch are named ...Fault; no action uses them.
UnboundedLoopFault(r) ==
    /\ pc[r] = "generate"
    /\ tries' = [tries EXCEPT ![r] = @ + 1]
    /\ \E c \in Codes : code' = [code EXCEPT ![r] = c]
    /\ pc' = [pc EXCEPT ![r] = "get"]
    /\ UNCHANGED <<now, urls, cache, sets, want, row, reply, metrics>>

Generate(r) ==
    /\ pc[r] = "generate"
    /\ tries[r] < MaxAttempts
    /\ tries' = [tries EXCEPT ![r] = @ + 1]
    /\ \E c \in Codes : code' = [code EXCEPT ![r] = c]
    /\ pc' = [pc EXCEPT ![r] = "get"]
    /\ UNCHANGED <<now, urls, cache, sets, want, row, reply, metrics>>

GenerateFails(r) ==
    /\ pc[r] = "generate"
    /\ tries[r] < MaxAttempts
    /\ Fail(r)
    /\ UNCHANGED <<now, urls, cache, sets, want, code, tries, row, metrics>>

Exhausted(r) ==
    /\ pc[r] = "generate"
    /\ tries[r] = MaxAttempts
    /\ AfterLoop(r)
    /\ UNCHANGED <<now, urls, cache, sets, want, code, tries, row>>

(* What the caller of Lookup does with its result.                          *)

\* The code is taken: next iteration.
Collide(r) == pc' = [pc EXCEPT ![r] = "generate"] /\ UNCHANGED reply

Found(r, url) == IF IsShorten(r) THEN Collide(r) ELSE Respond(r, "302", url)

\* Shorten turns every error of Lookup, ErrExpired too, into a 500.
FoundExpired(r) == IF IsShorten(r) THEN Fail(r) ELSE Respond(r, "410", NoRow)

FoundNothing(r) ==
    IF IsShorten(r)
    THEN pc' = [pc EXCEPT ![r] = "insert"] /\ UNCHANGED reply
    ELSE Respond(r, "404", NoRow)

Redirected(r) == IF IsShorten(r) THEN 0 ELSE 1

\* A redirect makes one lookup; Shorten makes one per iteration.
Attempt(r) == IF IsShorten(r) THEN tries[r] ELSE 1

(* CachedStore.Lookup.                                                      *)

\* A hit is returned as it is: its ExpiresAt is not looked at.
RedisHit(r) ==
    /\ pc[r] = "get"
    /\ cache[code[r]] # Absent
    /\ Found(r, cache[code[r]].url)
    /\ metrics' = [metrics EXCEPT !.hits = @ + 1, !.redirects = @ + Redirected(r)]
    /\ UNCHANGED <<now, urls, cache, sets, want, code, tries, row>>

\* The key is not there, or Redis does not answer: both count as a miss.
UncountedMissFault(r) ==
    /\ pc[r] = "get"
    /\ pc' = [pc EXCEPT ![r] = "select"]
    /\ UNCHANGED <<now, urls, cache, sets, want, code, tries, row, reply, metrics>>

RedisMiss(r) ==
    /\ pc[r] = "get"
    /\ Count("misses")
    /\ pc' = [pc EXCEPT ![r] = "select"]
    /\ UNCHANGED <<now, urls, cache, sets, want, code, tries, row, reply>>

PgSelectNone(r) ==
    /\ pc[r] = "select"
    /\ urls[code[r]] = NoRow
    /\ FoundNothing(r)
    /\ UNCHANGED <<now, urls, cache, sets, want, code, tries, row, metrics>>

PgSelectExpired(r) ==
    /\ pc[r] = "select"
    /\ urls[code[r]] # NoRow
    /\ Expired(urls[code[r]])
    /\ FoundExpired(r)
    /\ UNCHANGED <<now, urls, cache, sets, want, code, tries, row, metrics>>

PgSelectRow(r) ==
    /\ pc[r] = "select"
    /\ urls[code[r]] # NoRow
    /\ ~Expired(urls[code[r]])
    /\ row' = [row EXCEPT ![r] = urls[code[r]]]
    /\ pc' = [pc EXCEPT ![r] = "fill"]
    /\ UNCHANGED <<now, urls, cache, sets, want, code, tries, reply, metrics>>

PgSelectFails(r) ==
    /\ pc[r] = "select"
    /\ Fail(r)
    /\ UNCHANGED <<now, urls, cache, sets, want, code, tries, row, metrics>>

\* go cs.redis.Set(...), and the row is returned without waiting for it.
Backfill(r) ==
    /\ pc[r] = "fill"
    /\ sets' = sets \cup {[req |-> r, try |-> Attempt(r), code |-> code[r],
                           url |-> row[r].url, ttl |-> LookupTtl(row[r].exp)]}
    /\ Found(r, row[r].url)
    /\ metrics' = [metrics EXCEPT !.redirects = @ + Redirected(r)]
    /\ row' = [row EXCEPT ![r] = NoRow]
    /\ UNCHANGED <<now, urls, cache, want, code, tries>>

(* CachedStore.Save.                                                        *)

UpsertFault(r) ==
    /\ pc[r] = "insert"
    /\ urls' = [urls EXCEPT ![code[r]] = want[r]]
    /\ pc' = [pc EXCEPT ![r] = "warm"]
    /\ UNCHANGED <<now, cache, sets, want, code, tries, row, reply, metrics>>

PgInsert(r) ==
    /\ pc[r] = "insert"
    /\ urls[code[r]] = NoRow
    /\ urls' = [urls EXCEPT ![code[r]] = want[r]]
    /\ pc' = [pc EXCEPT ![r] = "warm"]
    /\ UNCHANGED <<now, cache, sets, want, code, tries, row, reply, metrics>>

IgnoredInsertErrorFault(r) ==
    /\ pc[r] = "insert"
    /\ pc' = [pc EXCEPT ![r] = "warm"]
    /\ UNCHANGED <<now, urls, cache, sets, want, code, tries, row, reply, metrics>>

\* The unique index rejects the row, or Postgres fails.
PgInsertFails(r) ==
    /\ pc[r] = "insert"
    /\ Fail(r)
    /\ UNCHANGED <<now, urls, cache, sets, want, code, tries, row, metrics>>

\* The row is committed but its acknowledgement is lost: Exec returns an error.
PgInsertUnacknowledged(r) ==
    /\ pc[r] = "insert"
    /\ urls[code[r]] = NoRow
    /\ urls' = [urls EXCEPT ![code[r]] = want[r]]
    /\ Fail(r)
    /\ UNCHANGED <<now, cache, sets, want, code, tries, row, metrics>>

WarmCache(r) ==
    /\ pc[r] = "warm"
    /\ sets' = sets \cup {[req |-> r, try |-> 0, code |-> code[r],
                           url |-> want[r].url, ttl |-> SaveTtl(want[r].exp)]}
    /\ pc' = [pc EXCEPT ![r] = "set"]
    /\ UNCHANGED <<now, urls, cache, want, code, tries, row, reply, metrics>>

(* Redis carries a SET out, or does not: its error is logged and forgotten. *)
(* Save waits for its own SET; the loop then ends.                          *)

MissingBreakFault(s) ==
    /\ sets' = sets \ {s}
    /\ IF s.try = 0 THEN pc' = [pc EXCEPT ![s.req] = "generate"] ELSE UNCHANGED pc
    /\ UNCHANGED <<now, urls, want, code, tries, row, reply, metrics>>

SetReturns(s) ==
    /\ sets' = sets \ {s}
    /\ IF s.try = 0 THEN AfterLoop(s.req) ELSE UNCHANGED <<pc, reply, metrics>>
    /\ UNCHANGED <<now, urls, want, code, tries, row>>

RedisSet(s) ==
    /\ s \in sets
    /\ cache' = [cache EXCEPT ![s.code] = EntryOf(s)]
    /\ SetReturns(s)

UnreportedErrorFault(s) ==
    /\ s \in sets
    /\ sets' = sets \ {s}
    /\ UNCHANGED <<now, urls, cache, request, metrics>>

RedisSetFails(s) ==
    /\ s \in sets
    /\ SetReturns(s)
    /\ UNCHANGED cache

(* The environment.                                                         *)

\* Redis evicts the keys whose TTL has run out.
Tick ==
    /\ now < MaxTime
    /\ now' = now + 1
    /\ cache' = [c \in Codes |->
                   IF cache[c] # Absent /\ cache[c].until # Forever /\ cache[c].until <= now'
                   THEN Absent ELSE cache[c]]
    /\ UNCHANGED <<urls, sets, request, metrics>>

\* Redis loses a key: memory pressure, or a restart without persistence.
Evict(c) ==
    /\ cache[c] # Absent
    /\ cache' = [cache EXCEPT ![c] = Absent]
    /\ UNCHANGED <<now, urls, sets, request, metrics>>

\* The process dies and is started again: its requests, its goroutines and its
\* counters are gone; Postgres and Redis keep what they have.
InFlight(r) == pc[r] \notin {"idle", "done"}

Crash ==
    /\ sets' = {}
    /\ pc' = [r \in Reqs |-> IF InFlight(r) THEN "done" ELSE pc[r]]
    /\ reply' = [r \in Reqs |-> IF InFlight(r) THEN [status |-> "lost", url |-> NoRow]
                                               ELSE reply[r]]
    /\ row' = [r \in Reqs |-> NoRow]
    /\ metrics' = [hits |-> 0, misses |-> 0, shortened |-> 0, redirects |-> 0]
    /\ UNCHANGED <<now, urls, cache, want, code, tries>>

-----------------------------------------------------------------------------
\* The steps the process takes for a request once it has arrived.
Serve(r) ==
    \/ Generate(r) \/ GenerateFails(r) \/ Exhausted(r)
    \/ RedisHit(r) \/ RedisMiss(r)
    \/ PgSelectNone(r) \/ PgSelectExpired(r) \/ PgSelectRow(r) \/ PgSelectFails(r)
    \/ Backfill(r)
    \/ PgInsert(r) \/ PgInsertFails(r) \/ PgInsertUnacknowledged(r)
    \/ WarmCache(r)

Arrive(r) == ArriveShorten(r) \/ RejectBody(r) \/ ArriveRedirect(r)

SetStep(s) == RedisSet(s) \/ RedisSetFails(s)

Next ==
    \/ \E r \in Reqs : Arrive(r) \/ Serve(r)
    \/ \E s \in sets : SetStep(s)
    \/ \E c \in Codes : Evict(c)
    \/ Tick
    \/ Crash

Spec == Init /\ [][Next]_vars

\* The scheduler runs every goroutine, and Redis and Postgres answer or fail
\* every call: nothing waits without end.
Fairness ==
    /\ \A r \in Reqs : WF_vars(Serve(r))
    /\ \A r \in Reqs : WF_vars(\E s \in sets : s.req = r /\ s.try = 0 /\ SetStep(s))

FairSpec == Spec /\ Fairness

-----------------------------------------------------------------------------
(* Properties.                                                              *)

\* Redis never contradicts Postgres: a key it holds is the code of a published
\* link and leads where that link leads, whatever lookups, SETs and crashes
\* came between the INSERT and the SET (CachedStore.Save, CachedStore.Lookup).
CacheCoherent ==
    \A c \in Codes : cache[c] # Absent => /\ urls[c] # NoRow
                                          /\ cache[c].url = urls[c].url

\* A POST /shorten publishes at most one row, however many codes it tried:
\* there are no more rows than shorten requests that got past their INSERT
\* (the break after Save in App.Shorten).
OneRowPerShorten ==
    Cardinality({c \in Codes : urls[c] # NoRow})
      <= Cardinality({r \in Reqs : IsShorten(r) /\ pc[r] \in {"warm", "set", "done"}})

\* No lookup escapes the counters: every redirect, and every request that is
\* past its GET, was counted as a hit or as a miss of its own (IncCacheHit and
\* IncCacheMiss in CachedStore.Lookup, TotalRedirects in RedirectHandler).
LookupsAreCounted ==
    metrics.redirects
      + Cardinality({r \in Reqs : pc[r] \in {"select", "fill", "insert", "warm", "set"}})
      <= metrics.hits + metrics.misses

\* Requests are answered from the directory of published links although Redis
\* answers most of them: a redirect goes to the published destination, 410 only
\* after the expiry, 404 only while the code is free, and a row once inserted
\* is never changed or replaced (Store.Save and Store.Lookup).
Asked(r) ==
    IF IsShorten(r) \/ code[r] = NoCode THEN <<"no question">>
    ELSE IF pc[r] # "done" THEN <<"waiting", code[r]>>
    ELSE IF reply[r].status = "302" THEN <<"found", reply[r].url>>
    ELSE IF reply[r].status = "410" THEN <<"gone">>
    ELSE IF reply[r].status = "404" THEN <<"not found">>
    ELSE <<"failed">>

Directory == INSTANCE LinkDirectory WITH
                 links <- urls, asked <- [r \in Reqs |-> Asked(r)]

ImplementsDirectory == Directory!Spec

\* Every request that arrived is answered, through collisions, failures of
\* Redis and Postgres, and crashes (the loop of App.Shorten is bounded).
EventuallyAnswered == \A r \in Reqs : pc[r] # "idle" ~> pc[r] = "done"

(* What the notes say and the code does not do.                             *)

\* handler/NOTES.md: 201 Created answers a successful POST /shorten.  A request
\* whose link is saved, and that the server lives to answer, is told so.
CreatedIsAnswered ==
    [][\A r \in Reqs : pc[r] = "set" /\ pc'[r] = "done" =>
         reply'[r].status \in {"201", "lost"}]_vars

\* store/NOTES.md: Redis evicts a link when it expires, so that a hit needs no
\* check.  No key in Redis belongs to an expired link.
EvictedAtExpiry ==
    \A c \in Codes : cache[c] # Absent => ~Expired(urls[c])
=============================================================================
