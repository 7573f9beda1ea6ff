------------------------- MODULE ShortLinks_proofs -------------------------
(***************************************************************************)
(* For any number of codes, requests and destinations: types, that Redis   *)
(* never contradicts Postgres, that the deployment implements              *)
(* LinkDirectory, that a request publishes one row at most, that no lookup *)
(* escapes the counters, and that only a SET which comes late or without a *)
(* TTL lets a link outlive its expiry in Redis.                            *)
(***************************************************************************)
EXTENDS ShortLinks, FiniteSetTheorems, TLAPS

\* A request past its arrival knows its code, and only a shorten request gets
\* beyond the lookup.
Requests ==
    \A r \in Reqs :
        /\ pc[r] \in {"get", "select", "fill", "insert", "warm"} => code[r] \in Codes
        /\ pc[r] \in {"generate", "insert", "warm"} => IsShorten(r)

\* The row a lookup has in hand, and the row a Save has inserted, are the row
\* Postgres holds: rows are never changed.
RowsInHand ==
    \A r \in Reqs :
        /\ pc[r] = "fill" => row[r] # NoRow /\ row[r] = urls[code[r]]
        /\ pc[r] = "warm" => urls[code[r]] = want[r]

\* Whatever a SET in flight is going to write is what Postgres holds.
SetsCoherent ==
    \A s \in sets : urls[s.code] # NoRow /\ s.url = urls[s.code].url

Inv == TypeOK /\ Requests /\ RowsInHand /\ SetsCoherent /\ CacheCoherent

-----------------------------------------------------------------------------
LEMMA LinkFacts ==
    ASSUME NEW l \in Link
    PROVE  /\ l # NoRow
           /\ l.url \in Urls
           /\ l.exp = NoExpiry \/ l.exp \in Nat \ {0}
  BY SentinelAssumption, ExpiryAssumption DEF Link

LEMMA EntryFacts ==
    ASSUME NEW e \in Entry
    PROVE  e # Absent /\ e.url \in Urls
  BY SentinelAssumption DEF Entry

LEMMA InitInv == Init => Inv
<1> SUFFICES ASSUME Init PROVE Inv
  OBVIOUS
<1>1. TypeOK
  BY BoundAssumption DEF Init, TypeOK, Points, Status
<1>2. Requests /\ RowsInHand /\ SetsCoherent /\ CacheCoherent
  BY DEF Init, Requests, RowsInHand, SetsCoherent, CacheCoherent
<1> QED
  BY <1>1, <1>2 DEF Inv

\* Of the invariant's conjuncts about urls, a step that leaves urls, cache and
\* sets alone can only disturb what it says of the request that steps.
LEMMA ArriveKeepsInv ==
    ASSUME Inv, NEW r \in Reqs, Arrive(r)
    PROVE  Inv'
<1> USE DEF Inv
<1>1. CASE ArriveShorten(r)
  <2>1. PICK link \in Link : want' = [want EXCEPT ![r] = link]
    BY <1>1 DEF ArriveShorten
  <2>2. TypeOK'
    BY <1>1, <2>1 DEF TypeOK, ArriveShorten, Points
  <2> QED
    BY <1>1, <2>1, <2>2, LinkFacts
    DEF TypeOK, Requests, RowsInHand, SetsCoherent, CacheCoherent, ArriveShorten, IsShorten
<1>2. CASE RejectBody(r)
  BY <1>2
  DEF TypeOK, Requests, RowsInHand, SetsCoherent, CacheCoherent, RejectBody, Respond,
      IsShorten, Points, Status
<1>3. CASE ArriveRedirect(r)
  BY <1>3
  DEF TypeOK, Requests, RowsInHand, SetsCoherent, CacheCoherent, ArriveRedirect,
      IsShorten, Points
<1> QED
  BY <1>1, <1>2, <1>3 DEF Arrive

LEMMA RespondType ==
    ASSUME TypeOK, NEW r \in Reqs, NEW status \in Status, NEW url \in Urls \cup {NoRow},
           Respond(r, status, url)
    PROVE  /\ pc' \in [Reqs -> Points]
           /\ reply' \in [Reqs -> [status : Status, url : Urls \cup {NoRow}]]
  BY DEF TypeOK, Points, Respond

\* The steps of a request that leave Postgres, Redis and the SETs alone.
LocalStep(r) ==
    \/ Generate(r) \/ GenerateFails(r) \/ Exhausted(r)
    \/ RedisHit(r) \/ RedisMiss(r)
    \/ PgSelectNone(r) \/ PgSelectExpired(r) \/ PgSelectRow(r) \/ PgSelectFails(r)
    \/ PgInsertFails(r)

LEMMA LocalStepKeepsType ==
    ASSUME Inv, NEW r \in Reqs, LocalStep(r)
    PROVE  TypeOK'
<1> USE DEF Inv, TypeOK, Points, Status
<1>1. CASE Generate(r)
  <2>1. PICK c \in Codes : code' = [code EXCEPT ![r] = c]
    BY <1>1 DEF Generate
  <2>2. tries' \in [Reqs -> 0..MaxAttempts]
    BY <1>1, BoundAssumption DEF Generate
  <2> QED
    BY <1>1, <2>1, <2>2 DEF Generate
<1>2. CASE GenerateFails(r) \/ PgSelectFails(r) \/ PgInsertFails(r)
  <2>1. Fail(r) /\ UNCHANGED <<now, urls, cache, sets, want, code, tries, row, metrics>>
    BY <1>2 DEF GenerateFails, PgSelectFails, PgInsertFails
  <2> QED
    BY <2>1, RespondType DEF Fail
<1>3. CASE Exhausted(r)
  <2>1. Fail(r) /\ UNCHANGED <<now, urls, cache, sets, want, code, tries, row, metrics>>
    BY <1>3 DEF Exhausted, AfterLoop, OuterShortKey
  <2> QED
    BY <2>1, RespondType DEF Fail
<1>4. CASE RedisHit(r)
  <2>1. cache[code[r]].url \in Urls
    BY <1>4, EntryFacts DEF RedisHit, Requests
  <2>2. metrics' \in [hits : Nat, misses : Nat, shortened : Nat, redirects : Nat]
    <3>1. Redirected(r) \in Nat
      BY DEF Redirected
    <3>2. /\ metrics.hits + 1 \in Nat
          /\ metrics.redirects + Redirected(r) \in Nat
      BY <3>1
    <3> HIDE DEF Points, Status
    <3> QED
      BY <1>4, <3>2 DEF RedisHit
  <2>3. /\ pc' \in [Reqs -> Points]
        /\ reply' \in [Reqs -> [status : Status, url : Urls \cup {NoRow}]]
    BY <1>4, <2>1, RespondType DEF RedisHit, Found, Collide
  <2> QED
    BY <1>4, <2>2, <2>3 DEF RedisHit
<1>5. CASE RedisMiss(r)
  BY <1>5 DEF RedisMiss, Count
<1>6. CASE PgSelectNone(r) \/ PgSelectExpired(r)
  <2>1. /\ pc' \in [Reqs -> Points]
        /\ reply' \in [Reqs -> [status : Status, url : Urls \cup {NoRow}]]
    BY <1>6, RespondType
    DEF PgSelectNone, PgSelectExpired, FoundNothing, FoundExpired, Fail
  <2> QED
    BY <1>6, <2>1 DEF PgSelectNone, PgSelectExpired
<1>7. CASE PgSelectRow(r)
  BY <1>7 DEF PgSelectRow, Requests
<1> QED
  BY <1>1, <1>2, <1>3, <1>4, <1>5, <1>6, <1>7 DEF LocalStep

LEMMA LocalStepKeepsInv ==
    ASSUME Inv, NEW r \in Reqs, LocalStep(r)
    PROVE  Inv'
<1> USE DEF Inv
<1>1. TypeOK'
  BY LocalStepKeepsType
<1>2. UNCHANGED <<urls, cache, sets, want>>
  BY DEF LocalStep, Generate, GenerateFails, Exhausted, RedisHit, RedisMiss, PgSelectNone,
         PgSelectExpired, PgSelectRow, PgSelectFails, PgInsertFails
<1>3. SetsCoherent' /\ CacheCoherent'
  BY <1>2 DEF SetsCoherent, CacheCoherent
<1>4. Requests' /\ RowsInHand'
  <2> USE DEF TypeOK, Requests, RowsInHand, IsShorten, Respond, Fail
  <2>1. CASE Generate(r)
    BY <2>1 DEF Generate
  <2>2. CASE GenerateFails(r) \/ PgSelectFails(r) \/ PgInsertFails(r)
    BY <2>2 DEF GenerateFails, PgSelectFails, PgInsertFails
  <2>3. CASE Exhausted(r)
    BY <2>3 DEF Exhausted, AfterLoop, OuterShortKey
  <2>4. CASE RedisHit(r)
    BY <2>4 DEF RedisHit, Found, Collide
  <2>5. CASE RedisMiss(r)
    BY <2>5 DEF RedisMiss
  <2>6. CASE PgSelectNone(r) \/ PgSelectExpired(r)
    BY <2>6 DEF PgSelectNone, PgSelectExpired, FoundNothing, FoundExpired
  <2>7. CASE PgSelectRow(r)
    BY <2>7 DEF PgSelectRow
  <2> QED
    BY <2>1, <2>2, <2>3, <2>4, <2>5, <2>6, <2>7 DEF LocalStep
<1> QED
  BY <1>1, <1>3, <1>4

\* A new SET carries the row in hand, so it agrees with Postgres.
LEMMA NewSetKeepsInv ==
    ASSUME Inv, NEW r \in Reqs, Backfill(r) \/ WarmCache(r)
    PROVE  Inv'
<1> USE DEF Inv, TypeOK, Requests, RowsInHand
<1>1. UNCHANGED <<now, urls, cache, want, code, tries>> /\ CacheCoherent'
  BY DEF Backfill, WarmCache, CacheCoherent
<1>2. CASE Backfill(r)
  <2> DEFINE s == [req |-> r, try |-> Attempt(r), code |-> code[r],
                   url |-> row[r].url, ttl |-> LookupTtl(row[r].exp)]
  <2>1. sets' = sets \cup {s}
    BY <1>2 DEF Backfill
  <2>2. /\ code[r] \in Codes /\ row[r] \in Link
        /\ urls[code[r]] # NoRow /\ row[r].url = urls[code[r]].url
    BY <1>2 DEF Backfill
  <2>3. s \in PendingSet
    <3>1. Attempt(r) \in 0..MaxAttempts
      BY BoundAssumption DEF Attempt
    <3>2. LookupTtl(row[r].exp) \in Int
      BY <2>2, LinkFacts, BoundAssumption DEF LookupTtl, TimeUntil, ScannedExpiry, ZeroTime
    <3> QED
      BY <2>2, <3>1, <3>2, LinkFacts DEF PendingSet
  <2>4. SetsCoherent'
    BY <1>1, <2>1, <2>2 DEF SetsCoherent
  <2>5. TypeOK'
    <3>1. metrics' \in [hits : Nat, misses : Nat, shortened : Nat, redirects : Nat]
      BY <1>2 DEF Backfill, Redirected
    <3>2. pc' \in [Reqs -> Points]
           /\ reply' \in [Reqs -> [status : Status, url : Urls \cup {NoRow}]]
      BY <1>2, <2>2, LinkFacts, RespondType DEF Backfill, Found, Collide, Points, Status
    <3> QED
      BY <1>1, <1>2, <2>1, <2>3, <3>1, <3>2 DEF Backfill
  <2>6. Requests' /\ RowsInHand'
    BY <1>1, <1>2 DEF Backfill, Found, Collide, Respond, IsShorten
  <2> QED
    BY <1>1, <2>4, <2>5, <2>6
<1>3. CASE WarmCache(r)
  <2> DEFINE s == [req |-> r, try |-> 0, code |-> code[r],
                   url |-> want[r].url, ttl |-> SaveTtl(want[r].exp)]
  <2>1. sets' = sets \cup {s}
    BY <1>3 DEF WarmCache
  <2>2. /\ code[r] \in Codes /\ want[r] \in Link
        /\ urls[code[r]] # NoRow /\ want[r].url = urls[code[r]].url
    BY <1>3 DEF WarmCache, IsShorten
  <2>3. s \in PendingSet
    <3>1. SaveTtl(want[r].exp) \in Int
      BY <2>2, LinkFacts, BoundAssumption DEF SaveTtl, TimeUntil
    <3> QED
      BY <2>2, <3>1, LinkFacts, BoundAssumption DEF PendingSet
  <2>4. SetsCoherent'
    BY <1>1, <2>1, <2>2 DEF SetsCoherent
  <2>5. TypeOK'
    BY <1>1, <1>3, <2>1, <2>3 DEF WarmCache, Points
  <2>6. Requests' /\ RowsInHand'
    BY <1>1, <1>3 DEF WarmCache, IsShorten
  <2> QED
    BY <1>1, <2>4, <2>5, <2>6
<1> QED
  BY <1>2, <1>3

\* An INSERT only succeeds on a free code, which nothing else can speak of.
LEMMA InsertKeepsInv ==
    ASSUME Inv, NEW r \in Reqs, PgInsert(r) \/ PgInsertUnacknowledged(r)
    PROVE  Inv'
<1> USE DEF Inv
<1>1. /\ code[r] \in Codes /\ urls[code[r]] = NoRow /\ want[r] \in Link
      /\ urls' = [urls EXCEPT ![code[r]] = want[r]]
      /\ UNCHANGED <<now, cache, sets, want, code, tries, row, metrics>>
  BY DEF TypeOK, Requests, IsShorten, PgInsert, PgInsertUnacknowledged
<1>2. /\ pc' \in {[pc EXCEPT ![r] = "warm"], [pc EXCEPT ![r] = "done"]}
      /\ reply' \in [Reqs -> [status : Status, url : Urls \cup {NoRow}]]
  BY DEF TypeOK, Status, PgInsert, PgInsertUnacknowledged, Fail, Respond
<1>3. TypeOK'
  BY <1>1, <1>2 DEF TypeOK, Points
<1>4. Requests'
  BY <1>1, <1>2, LinkFacts DEF TypeOK, Requests, IsShorten, PgInsert, PgInsertUnacknowledged
<1>5. RowsInHand'
  <2> SUFFICES ASSUME NEW q \in Reqs
               PROVE  /\ pc'[q] = "fill" => row'[q] # NoRow /\ row'[q] = urls'[code'[q]]
                      /\ pc'[q] = "warm" => urls'[code'[q]] = want'[q]
    BY DEF RowsInHand
  <2>1. CASE q = r
    BY <1>1, <1>2, <2>1 DEF TypeOK
  <2>2. CASE q # r
    <3>1. pc'[q] = pc[q]
      BY <1>2, <2>2 DEF TypeOK
    <3>2. pc[q] \in {"fill", "warm"} => code[q] # code[r]
      BY <1>1 DEF TypeOK, Requests, RowsInHand, IsShorten
    <3> QED
      BY <1>1, <3>1, <3>2 DEF TypeOK, Requests, RowsInHand
  <2> QED
    BY <2>1, <2>2
<1>6. SetsCoherent'
  BY <1>1, LinkFacts DEF TypeOK, SetsCoherent, PendingSet
<1>7. CacheCoherent'
  BY <1>1, LinkFacts DEF TypeOK, CacheCoherent
<1> QED
  BY <1>3, <1>4, <1>5, <1>6, <1>7

\* Redis may carry SETs out in any order, late, or not at all.
LEMMA SetStepKeepsInv ==
    ASSUME Inv, NEW s \in sets, SetStep(s)
    PROVE  Inv'
<1> USE DEF Inv
<1>1. s \in PendingSet /\ s.req \in Reqs /\ s.code \in Codes /\ s.url \in Urls /\ s.ttl \in Int
  BY DEF TypeOK, PendingSet
<1>2. SetReturns(s)
  BY DEF SetStep, RedisSet, RedisSetFails
<1>3. /\ sets' = sets \ {s}
      /\ UNCHANGED <<now, urls, want, code, tries, row, metrics>>
      /\ pc' \in {pc, [pc EXCEPT ![s.req] = "done"]}
      /\ reply' \in [Reqs -> [status : Status, url : Urls \cup {NoRow}]]
  BY <1>1, <1>2
  DEF SetReturns, AfterLoop, OuterShortKey, Fail, Respond, TypeOK, Status
<1>4. EntryOf(s) \in Entry /\ EntryOf(s).url = s.url
  BY <1>1, BoundAssumption DEF EntryOf, Entry, TypeOK
<1>5. cache' = cache \/ cache' = [cache EXCEPT ![s.code] = EntryOf(s)]
  BY DEF SetStep, RedisSet, RedisSetFails
<1>6. TypeOK'
  BY <1>1, <1>3, <1>4, <1>5 DEF TypeOK, Points
<1>7. Requests' /\ RowsInHand'
  BY <1>1, <1>3 DEF TypeOK, Requests, RowsInHand, IsShorten
<1>8. SetsCoherent'
  BY <1>3 DEF SetsCoherent
<1>9. CacheCoherent'
  BY <1>1, <1>3, <1>4, <1>5 DEF TypeOK, CacheCoherent, SetsCoherent
<1> QED
  BY <1>6, <1>7, <1>8, <1>9

\* Losing keys, SETs or requests never makes Redis contradict Postgres.
LEMMA EnvironmentKeepsInv ==
    ASSUME Inv, Tick \/ Crash \/ \E c \in Codes : Evict(c)
    PROVE  Inv'
<1> USE DEF Inv
<1>1. CASE Tick
  BY <1>1, BoundAssumption
  DEF Tick, request, TypeOK, Requests, RowsInHand, SetsCoherent, CacheCoherent, IsShorten
<1>2. CASE Crash
  <2>1. TypeOK'
    BY <1>2 DEF Crash, TypeOK, Points, Status
  <2>2. Requests' /\ RowsInHand' /\ SetsCoherent' /\ CacheCoherent'
    BY <1>2
    DEF Crash, InFlight, TypeOK, Requests, RowsInHand, SetsCoherent, CacheCoherent, IsShorten
  <2> QED
    BY <2>1, <2>2
<1>3. ASSUME NEW c \in Codes, Evict(c) PROVE Inv'
  BY <1>3
  DEF Evict, request, TypeOK, Requests, RowsInHand, SetsCoherent, CacheCoherent, IsShorten
<1> QED
  BY <1>1, <1>2, <1>3

LEMMA NextKeepsInv == Inv /\ [Next]_vars => Inv'
<1> SUFFICES ASSUME Inv, [Next]_vars PROVE Inv'
  OBVIOUS
<1>1. ASSUME NEW r \in Reqs, Serve(r) PROVE Inv'
  BY <1>1, LocalStepKeepsInv, NewSetKeepsInv, InsertKeepsInv DEF Serve, LocalStep
<1>2. CASE UNCHANGED vars
  BY <1>2
  DEF Inv, vars, request, TypeOK, Requests, RowsInHand, SetsCoherent, CacheCoherent, IsShorten
<1> QED
  BY <1>1, <1>2, ArriveKeepsInv, SetStepKeepsInv, EnvironmentKeepsInv DEF Next

-----------------------------------------------------------------------------
\* Every reachable state satisfies the inductive invariant.
THEOREM Invariance == Spec => []Inv
  BY InitInv, NextKeepsInv, PTL DEF Spec

THEOREM TypeCorrect == Spec => []TypeOK
  BY Invariance, PTL DEF Inv

\* A key in Redis always belongs to a published link and leads where it leads.
THEOREM Coherence == Spec => []CacheCoherent
  BY Invariance, PTL DEF Inv

-----------------------------------------------------------------------------
(* The refinement: what requests ask and are told, step by step.            *)

\* Nobody asks before arriving, and a SET that is waited for belongs to Save.
Questions ==
    /\ \A r \in Reqs : pc[r] = "idle" => want[r] = NoRow /\ code[r] = NoCode
    /\ \A s \in sets : s.try = 0 => IsShorten(s.req)

LEMMA QuestionsKept ==
    ASSUME Inv, Questions, [Next]_vars
    PROVE  Questions'
<1> USE DEF Inv, TypeOK, Questions, IsShorten
<1>1. ASSUME NEW r \in Reqs, Arrive(r) PROVE Questions'
  BY <1>1, LinkFacts DEF Arrive, ArriveShorten, RejectBody, ArriveRedirect, Respond, PendingSet
<1>2. ASSUME NEW r \in Reqs, LocalStep(r) \/ PgInsert(r) \/ PgInsertUnacknowledged(r)
      PROVE  Questions'
  <2>1. /\ sets' = sets /\ want' = want /\ pc[r] # "idle"
        /\ \A q \in Reqs : pc'[q] = "idle" => pc[q] = "idle"
        /\ \A q \in Reqs : q # r => code'[q] = code[q]
    BY <1>2
    DEF LocalStep, Generate, GenerateFails, Exhausted, RedisHit, RedisMiss, PgSelectNone,
        PgSelectExpired, PgSelectRow, PgSelectFails, PgInsertFails, PgInsert,
        PgInsertUnacknowledged, Fail, Respond, AfterLoop, Found, Collide, FoundExpired, FoundNothing
  <2>2. pc'[r] # "idle"
    BY <1>2
    DEF LocalStep, Generate, GenerateFails, Exhausted, RedisHit, RedisMiss, PgSelectNone,
        PgSelectExpired, PgSelectRow, PgSelectFails, PgInsertFails, PgInsert,
        PgInsertUnacknowledged, Fail, Respond, AfterLoop, Found, Collide, FoundExpired, FoundNothing
  <2> QED
    BY <2>1, <2>2
<1>3. ASSUME NEW r \in Reqs, Backfill(r) PROVE Questions'
  <2>1. \A s \in sets' : s.try = 0 => IsShorten(s.req)
    BY <1>3 DEF Backfill, Attempt
  <2> QED
    BY <1>3, <2>1 DEF Backfill, Found, Collide, Respond
<1>4. ASSUME NEW r \in Reqs, WarmCache(r) PROVE Questions'
  BY <1>4 DEF WarmCache, Requests
<1>5. ASSUME NEW s \in sets, SetStep(s) PROVE Questions'
  BY <1>5 DEF SetStep, RedisSet, RedisSetFails, SetReturns, AfterLoop, Fail, Respond, PendingSet,
              OuterShortKey
<1>6. CASE Tick \/ Crash \/ (\E c \in Codes : Evict(c)) \/ UNCHANGED vars
  BY <1>6 DEF Tick, Crash, InFlight, Evict, vars, request
<1> QED
  BY <1>1, <1>2, <1>3, <1>4, <1>5, <1>6 DEF Next, Serve, LocalStep

LEMMA QuestionsInvariant == Spec => []Questions
<1>1. Init => Questions
  BY DEF Init, Questions
<1>2. Inv /\ Questions /\ [Next]_vars => Questions'
  BY QuestionsKept
<1> QED
  BY <1>1, <1>2, Invariance, PTL DEF Spec

\* A request to shorten asks nothing, whatever becomes of it.
LEMMA ShortenAsksNothing ==
    ASSUME NEW r \in Reqs, IsShorten(r), want' = want
    PROVE  Asked(r)' = Asked(r)
  BY DEF Asked, IsShorten

\* Who does not step asks what it asked.
LEMMA SameQuestion ==
    ASSUME NEW r \in Reqs, pc'[r] = pc[r], want'[r] = want[r], code'[r] = code[r],
           reply'[r] = reply[r]
    PROVE  Asked(r)' = Asked(r)
  BY DEF Asked, IsShorten

LEMMA Stutters ==
    ASSUME now' = now, urls' = urls, \A q \in Reqs : Asked(q)' = Asked(q)
    PROVE  UNCHANGED Directory!vars
  BY DEF Directory!vars

\* A lookup for a visitor that ends in one of the answers the directory allows.
LEMMA Answering ==
    ASSUME Inv, NEW r \in Reqs, ~IsShorten(r), pc[r] \in {"get", "select", "fill"},
           now' = now, urls' = urls, want' = want, code' = code,
           NEW status \in Status, NEW url, Respond(r, status, url),
           \/ status = "302" /\ urls[code[r]] # NoRow /\ url = urls[code[r]].url
           \/ status = "410" /\ urls[code[r]] # NoRow /\ Expired(urls[code[r]])
           \/ status = "404" /\ urls[code[r]] = NoRow
           \/ status = "500"
    PROVE  Directory!Answer
<1> DEFINE c == code[r]
<1>1. c \in Codes /\ c # NoCode
  BY SentinelAssumption DEF Inv, Requests
<1>2. Asked(r) = <<"waiting", c>>
  BY <1>1 DEF Asked
<1>3. /\ pc'[r] = "done" /\ reply'[r].status = status /\ reply'[r].url = url
      /\ \A q \in Reqs : q # r => pc'[q] = pc[q] /\ reply'[q] = reply[q]
  BY DEF Respond, Inv, TypeOK
<1>4. \A q \in Reqs : q # r => Asked(q)' = Asked(q)
  BY <1>3, SameQuestion
<1>5. Asked(r)' = CASE status = "302" -> <<"found", url>>
                    [] status = "410" -> <<"gone">>
                    [] status = "404" -> <<"not found">>
                    [] OTHER -> <<"failed">>
  BY <1>1, <1>3 DEF Asked, IsShorten
<1>6. Asked(r)' \in Directory!Answers(c)
  BY <1>5 DEF Directory!Answers, Expired
<1> DEFINE asked == [q \in Reqs |-> Asked(q)]
<1>7. asked' = [asked EXCEPT ![r] = Asked(r)']
  BY <1>4
<1> QED
  BY <1>1, <1>2, <1>6, <1>7 DEF Directory!Answer

LEMMA ArriveAsks ==
    ASSUME Inv, Questions, NEW r \in Reqs, Arrive(r)
    PROVE  [Directory!Next]_Directory!vars
<1> USE DEF Inv, TypeOK, Questions
<1>1. \A q \in Reqs : q # r => Asked(q)' = Asked(q)
  BY SameQuestion DEF Arrive, ArriveShorten, RejectBody, ArriveRedirect, Respond
<1>2. pc[r] = "idle" /\ Asked(r) = <<"no question">>
  BY DEF Arrive, ArriveShorten, RejectBody, ArriveRedirect, Asked
<1>3. CASE ArriveShorten(r) \/ RejectBody(r)
  <2>1. Asked(r)' = <<"no question">>
    BY <1>2, <1>3, LinkFacts DEF ArriveShorten, RejectBody, Asked, IsShorten
  <2> QED
    BY <1>1, <1>2, <1>3, <2>1, Stutters DEF ArriveShorten, RejectBody
<1>4. CASE ArriveRedirect(r)
  <2>1. PICK c \in Codes : code' = [code EXCEPT ![r] = c]
    BY <1>4 DEF ArriveRedirect
  <2>2. Asked(r)' = <<"waiting", c>>
    BY <1>2, <1>4, <2>1, SentinelAssumption DEF ArriveRedirect, Asked, IsShorten
  <2> DEFINE asked == [q \in Reqs |-> Asked(q)]
  <2>3. asked' = [asked EXCEPT ![r] = <<"waiting", c>>]
    BY <1>1, <2>2
  <2> QED
    BY <1>2, <1>4, <2>1, <2>3 DEF Directory!Next, Directory!Ask, ArriveRedirect
<1> QED
  BY <1>3, <1>4 DEF Arrive

\* What Serve does for Shorten, the INSERT apart, is invisible.
LEMMA ShortenStutters ==
    ASSUME Inv, NEW r \in Reqs, IsShorten(r), LocalStep(r) \/ Backfill(r) \/ WarmCache(r)
    PROVE  UNCHANGED Directory!vars
<1>1. now' = now /\ urls' = urls /\ want' = want
  BY DEF LocalStep, Generate, GenerateFails, Exhausted, RedisHit, RedisMiss, PgSelectNone,
         PgSelectExpired, PgSelectRow, PgSelectFails, PgInsertFails, Backfill, WarmCache
<1>2. \A q \in Reqs : q # r => /\ pc'[q] = pc[q] /\ code'[q] = code[q] /\ reply'[q] = reply[q]
  BY DEF Inv, TypeOK, LocalStep, Generate, GenerateFails, Exhausted, RedisHit, RedisMiss,
         PgSelectNone, PgSelectExpired, PgSelectRow, PgSelectFails, PgInsertFails, Backfill,
         WarmCache, Fail, Respond, AfterLoop, Found, Collide, FoundExpired, FoundNothing
<1> QED
  BY <1>1, <1>2, ShortenAsksNothing, SameQuestion, Stutters

LEMMA LookupAnswers ==
    ASSUME Inv, NEW r \in Reqs, ~IsShorten(r), LocalStep(r) \/ Backfill(r)
    PROVE  [Directory!Next]_Directory!vars
<1> USE DEF Inv, Fail
<1>1. pc[r] \in {"get", "select", "fill"} /\ code[r] \in Codes
  BY DEF LocalStep, Generate, GenerateFails, Exhausted, RedisHit, RedisMiss, PgSelectNone,
         PgSelectExpired, PgSelectRow, PgSelectFails, PgInsertFails, Backfill, Requests
<1>2. now' = now /\ urls' = urls /\ want' = want /\ code' = code
  BY <1>1 DEF LocalStep, Generate, GenerateFails, Exhausted, RedisHit, RedisMiss, PgSelectNone,
         PgSelectExpired, PgSelectRow, PgSelectFails, PgInsertFails, Backfill
<1>3. CASE RedisHit(r)
  <2>1. Respond(r, "302", cache[code[r]].url) /\ cache[code[r]] # Absent
    BY <1>3 DEF RedisHit, Found
  <2>2. urls[code[r]] # NoRow /\ cache[code[r]].url = urls[code[r]].url
    BY <1>1, <2>1 DEF CacheCoherent
  <2> QED
    BY <1>1, <1>2, <2>1, <2>2, Answering DEF Status, Directory!Next
<1>4. CASE PgSelectNone(r) \/ PgSelectExpired(r) \/ PgSelectFails(r)
  BY <1>1, <1>2, <1>4, Answering
  DEF PgSelectNone, PgSelectExpired, PgSelectFails, FoundNothing, FoundExpired, Status, Directory!Next
<1>5. CASE Backfill(r)
  <2>1. Respond(r, "302", row[r].url) /\ row[r] # NoRow /\ row[r] = urls[code[r]]
    BY <1>5 DEF Backfill, Found, RowsInHand
  <2> QED
    BY <1>1, <1>2, <2>1, Answering DEF Status, Directory!Next
<1>6. CASE RedisMiss(r) \/ PgSelectRow(r)
  <2>1. reply' = reply /\ pc[r] # "done" /\ pc'[r] # "done"
        /\ \A q \in Reqs : q # r => pc'[q] = pc[q]
    BY <1>1, <1>6 DEF RedisMiss, PgSelectRow, TypeOK
  <2>2. Asked(r)' = Asked(r)
    BY <1>2, <2>1 DEF Asked, IsShorten
  <2> QED
    BY <1>2, <2>1, <2>2, SameQuestion, Stutters
<1>7. ~(Generate(r) \/ GenerateFails(r) \/ Exhausted(r) \/ PgInsertFails(r))
  BY <1>1 DEF Generate, GenerateFails, Exhausted, PgInsertFails
<1> QED
  BY <1>3, <1>4, <1>5, <1>6, <1>7 DEF LocalStep

LEMMA InsertPublishes ==
    ASSUME Inv, NEW r \in Reqs, PgInsert(r) \/ PgInsertUnacknowledged(r)
    PROVE  Directory!Publish
<1>1. /\ code[r] \in Codes /\ want[r] \in Link /\ urls[code[r]] = NoRow /\ IsShorten(r)
      /\ urls' = [urls EXCEPT ![code[r]] = want[r]]
      /\ now' = now /\ want' = want /\ code' = code
      /\ \A q \in Reqs : q # r => pc'[q] = pc[q] /\ reply'[q] = reply[q]
  BY DEF Inv, TypeOK, Requests, IsShorten, PgInsert, PgInsertUnacknowledged, Fail, Respond
<1>2. \A q \in Reqs : Asked(q)' = Asked(q)
  BY <1>1, ShortenAsksNothing, SameQuestion
<1> QED
  BY <1>1, <1>2 DEF Directory!Publish, Directory!Link, Link

LEMMA SetStutters ==
    ASSUME Inv, Questions, NEW s \in sets, SetStep(s)
    PROVE  UNCHANGED Directory!vars
<1>1. /\ now' = now /\ urls' = urls /\ want' = want /\ code' = code /\ s.req \in Reqs
  BY DEF Inv, TypeOK, PendingSet, SetStep, RedisSet, RedisSetFails, SetReturns
<1>2. \A q \in Reqs : IsShorten(q) \/ (pc'[q] = pc[q] /\ reply'[q] = reply[q])
  BY DEF Inv, TypeOK, Questions, SetStep, RedisSet, RedisSetFails, SetReturns, AfterLoop,
         OuterShortKey, Fail, Respond
<1> QED
  BY <1>1, <1>2, ShortenAsksNothing, SameQuestion, Stutters

LEMMA CrashForgets ==
    ASSUME Inv, Questions, Crash
    PROVE  Directory!Forget
<1> DEFINE asked == [q \in Reqs |-> Asked(q)]
<1>1. ASSUME NEW q \in Reqs
      PROVE  Asked(q)' = IF Asked(q)[1] = "waiting" THEN <<"failed">> ELSE Asked(q)
  <2>1. want'[q] = want[q] /\ code'[q] = code[q]
    BY DEF Crash
  <2>2. CASE InFlight(q)
    <3>1. pc'[q] = "done" /\ reply'[q].status = "lost"
      BY <2>2 DEF Crash
    <3> QED
      BY <2>1, <2>2, <3>1 DEF Asked, IsShorten, InFlight
  <2>3. CASE ~InFlight(q)
    <3>1. pc'[q] = pc[q] /\ reply'[q] = reply[q] /\ pc[q] \in {"idle", "done"}
      BY <2>3 DEF Crash, InFlight
    <3>2. Asked(q)' = Asked(q)
      BY <2>1, <3>1, SameQuestion
    <3>3. Asked(q)[1] # "waiting"
      BY <3>1 DEF Asked, Questions
    <3> QED
      BY <3>2, <3>3
  <2> QED
    BY <2>2, <2>3
<1> QED
  BY <1>1 DEF Crash, Directory!Forget

LEMMA StepsRefine ==
    ASSUME Inv, Questions, [Next]_vars
    PROVE  [Directory!Next]_Directory!vars
<1>1. ASSUME NEW r \in Reqs, Serve(r) PROVE [Directory!Next]_Directory!vars
  <2>1. CASE PgInsert(r) \/ PgInsertUnacknowledged(r)
    BY <2>1, InsertPublishes DEF Directory!Next
  <2>2. CASE LocalStep(r) \/ Backfill(r) \/ WarmCache(r)
    <3>1. WarmCache(r) => IsShorten(r)
      BY DEF WarmCache, Inv, Requests
    <3> QED
      BY <2>2, <3>1, ShortenStutters, LookupAnswers
  <2> QED
    BY <1>1, <2>1, <2>2 DEF Serve, LocalStep
<1>2. CASE Tick
  <2>1. \A q \in Reqs : Asked(q)' = Asked(q)
    BY <1>2, SameQuestion DEF Tick, request
  <2> QED
    BY <1>2, <2>1 DEF Tick, request, Directory!Next, Directory!Tick
<1>3. CASE (\E c \in Codes : Evict(c)) \/ UNCHANGED vars
  BY <1>3, SameQuestion, Stutters DEF Evict, vars, request
<1>4. CASE Crash
  BY <1>4, CrashForgets DEF Directory!Next
<1> QED
  BY <1>1, <1>2, <1>3, <1>4, ArriveAsks, SetStutters DEF Next

\* The deployment implements the directory: whatever Redis holds or has lost,
\* visitors are answered from published links, which never change.
THEOREM Implements == Spec => ImplementsDirectory
<1>1. Init => Directory!Init
  BY DEF Init, Directory!Init, Asked, IsShorten
<1>2. Inv /\ Questions /\ [Next]_vars => [Directory!Next]_Directory!vars
  BY StepsRefine
<1> QED
  BY <1>1, <1>2, Invariance, QuestionsInvariant, PTL
  DEF Spec, ImplementsDirectory, Directory!Spec

-----------------------------------------------------------------------------
(* What is counted.                                                         *)

Rows == {c \in Codes : urls[c] # NoRow}

PastInsert == {r \in Reqs : IsShorten(r) /\ pc[r] \in {"warm", "set", "done"}}

PastGet == {r \in Reqs : pc[r] \in {"select", "fill", "insert", "warm", "set"}}

LEMMA Finite ==
    /\ IsFiniteSet(Rows) /\ Cardinality(Rows) \in Nat
    /\ IsFiniteSet(PastInsert) /\ Cardinality(PastInsert) \in Nat
    /\ IsFiniteSet(PastGet) /\ Cardinality(PastGet) \in Nat
<1>1. Rows \subseteq Codes /\ PastInsert \subseteq Reqs /\ PastGet \subseteq Reqs
  BY DEF Rows, PastInsert, PastGet
<1>2. IsFiniteSet(Rows) /\ IsFiniteSet(PastInsert) /\ IsFiniteSet(PastGet)
  BY <1>1, FiniteAssumption, FS_Subset
<1> QED
  BY <1>2, FS_CardinalityType

LEMMA FiniteNext ==
    /\ IsFiniteSet(PastInsert') /\ Cardinality(PastInsert') \in Nat
    /\ IsFiniteSet(PastGet') /\ Cardinality(PastGet') \in Nat
<1>1. PastInsert' \subseteq Reqs /\ PastGet' \subseteq Reqs
  BY DEF PastInsert, PastGet
<1>2. IsFiniteSet(PastInsert') /\ IsFiniteSet(PastGet')
  BY <1>1, FiniteAssumption, FS_Subset
<1> QED
  BY <1>2, FS_CardinalityType

\* Only an INSERT adds a row, and who has inserted does not insert again.
LEMMA RowsKeptInStep ==
    ASSUME Inv, Questions, [Next]_vars, OneRowPerShorten
    PROVE  OneRowPerShorten'
<1>0. Cardinality(Rows) <= Cardinality(PastInsert)
  BY DEF OneRowPerShorten, Rows, PastInsert
<1>1. ASSUME Rows' = Rows, PastInsert \subseteq PastInsert' PROVE OneRowPerShorten'
  <2>1. Cardinality(PastInsert) <= Cardinality(PastInsert')
    BY <1>1, FiniteNext, FS_Subset
  <2>2. Cardinality(Rows') <= Cardinality(PastInsert')
    BY <1>0, <1>1, <2>1, Finite, FiniteNext
  <2> QED
    BY <2>2 DEF OneRowPerShorten, Rows, PastInsert
<1>2. ASSUME NEW r \in Reqs, PgInsert(r) \/ PgInsertUnacknowledged(r) PROVE OneRowPerShorten'
  <2>1. /\ IsShorten(r) /\ pc[r] = "insert" /\ pc'[r] \in {"warm", "done"} /\ want' = want
        /\ \A q \in Reqs : q # r => pc'[q] = pc[q]
        /\ code[r] \in Codes /\ urls[code[r]] = NoRow /\ want[r] # NoRow
        /\ urls' = [urls EXCEPT ![code[r]] = want[r]]
    BY <1>2 DEF Inv, TypeOK, Requests, IsShorten, PgInsert, PgInsertUnacknowledged, Fail, Respond
  <2>2. PastInsert' = PastInsert \cup {r} /\ r \notin PastInsert
    BY <2>1 DEF PastInsert, IsShorten
  <2>3. Rows' = Rows \cup {code[r]} /\ code[r] \notin Rows
    BY <2>1 DEF Rows, Inv, TypeOK
  <2>4. /\ Cardinality(PastInsert') = Cardinality(PastInsert) + 1
        /\ Cardinality(Rows') = Cardinality(Rows) + 1
    BY <2>2, <2>3, Finite, FS_AddElement
  <2>5. Cardinality(Rows') <= Cardinality(PastInsert')
    BY <1>0, <2>4, Finite
  <2> QED
    BY <2>5 DEF OneRowPerShorten, Rows, PastInsert
<1> USE DEF Inv, TypeOK
<1>3. ASSUME NEW r \in Reqs, LocalStep(r) \/ Backfill(r) \/ WarmCache(r) PROVE OneRowPerShorten'
  <2>1. /\ urls' = urls /\ want' = want /\ \A q \in Reqs : q # r => pc'[q] = pc[q]
        /\ pc[r] \in {"warm", "set", "done"} => pc'[r] = "set"
    BY <1>3
    DEF LocalStep, Generate, GenerateFails, Exhausted, RedisHit, RedisMiss, PgSelectNone,
        PgSelectExpired, PgSelectRow, PgSelectFails, PgInsertFails, Backfill, WarmCache, Fail,
        Respond, AfterLoop, Found, Collide, FoundExpired, FoundNothing
  <2>2. Rows' = Rows /\ PastInsert \subseteq PastInsert'
    BY <2>1 DEF Rows, PastInsert, IsShorten
  <2> QED
    BY <1>1, <2>2
<1>4. ASSUME NEW r \in Reqs, Arrive(r) PROVE OneRowPerShorten'
  <2>1. Rows' = Rows /\ PastInsert \subseteq PastInsert'
    BY <1>4 DEF Arrive, ArriveShorten, RejectBody, ArriveRedirect, Respond, Rows, PastInsert, IsShorten
  <2> QED
    BY <1>1, <2>1
<1>5. ASSUME NEW s \in sets, SetStep(s) PROVE OneRowPerShorten'
  <2>1. Rows' = Rows /\ PastInsert \subseteq PastInsert'
    BY <1>5 DEF SetStep, RedisSet, RedisSetFails, SetReturns, AfterLoop, OuterShortKey, Fail,
                Respond, PendingSet, Rows, PastInsert, IsShorten
  <2> QED
    BY <1>1, <2>1
<1>6. CASE Tick \/ Crash \/ (\E c \in Codes : Evict(c)) \/ UNCHANGED vars
  <2>1. Rows' = Rows /\ PastInsert \subseteq PastInsert'
    BY <1>6 DEF Tick, Crash, InFlight, Evict, vars, request, Rows, PastInsert, IsShorten
  <2> QED
    BY <1>1, <2>1
<1> QED
  BY <1>2, <1>3, <1>4, <1>5, <1>6 DEF Next, Serve, LocalStep

\* A POST /shorten never leaves more than one row, however many codes it tries.
THEOREM RowPerShorten == Spec => []OneRowPerShorten
<1>1. Init => OneRowPerShorten
  <2> SUFFICES ASSUME Init PROVE OneRowPerShorten
    OBVIOUS
  <2>1. Rows = {} /\ PastInsert = {}
    BY DEF Init, Rows, PastInsert
  <2> QED
    BY <2>1, FS_EmptySet DEF OneRowPerShorten, Rows, PastInsert
<1>2. Inv /\ Questions /\ [Next]_vars /\ OneRowPerShorten => OneRowPerShorten'
  BY RowsKeptInStep
<1> QED
  BY <1>1, <1>2, Invariance, QuestionsInvariant, PTL DEF Spec

\* A request is counted when it enters PastGet, or when Redis answers it.
LEMMA CountsKeptInStep ==
    ASSUME Inv, [Next]_vars, LookupsAreCounted
    PROVE  LookupsAreCounted'
<1> USE DEF Inv
<1>0. /\ metrics.redirects + Cardinality(PastGet) <= metrics.hits + metrics.misses
      /\ metrics.redirects \in Nat /\ metrics.hits \in Nat /\ metrics.misses \in Nat
  BY DEF LookupsAreCounted, PastGet, TypeOK
<1>1. ASSUME metrics' = metrics, PastGet' \subseteq PastGet PROVE LookupsAreCounted'
  <2>1. Cardinality(PastGet') <= Cardinality(PastGet)
    BY <1>1, Finite, FS_Subset
  <2>2. metrics'.redirects + Cardinality(PastGet') <= metrics'.hits + metrics'.misses
    BY <1>0, <1>1, <2>1, Finite, FiniteNext
  <2> QED
    BY <2>2 DEF LookupsAreCounted, PastGet
<1>2. ASSUME NEW r \in Reqs, RedisHit(r) PROVE LookupsAreCounted'
  <2>1. PastGet' = PastGet
    BY <1>2 DEF RedisHit, Found, Collide, Respond, PastGet, TypeOK
  <2>2. /\ metrics'.hits = metrics.hits + 1 /\ metrics'.misses = metrics.misses
        /\ metrics'.redirects \in {metrics.redirects, metrics.redirects + 1}
    BY <1>0, <1>2 DEF RedisHit, Redirected, TypeOK
  <2>3. metrics'.redirects + Cardinality(PastGet') <= metrics'.hits + metrics'.misses
    BY <1>0, <2>1, <2>2, Finite
  <2> QED
    BY <2>3 DEF LookupsAreCounted, PastGet
<1>3. ASSUME NEW r \in Reqs, RedisMiss(r) PROVE LookupsAreCounted'
  <2>1. PastGet' = PastGet \cup {r} /\ r \notin PastGet
    BY <1>3 DEF RedisMiss, PastGet, TypeOK
  <2>2. Cardinality(PastGet') = Cardinality(PastGet) + 1
    BY <2>1, Finite, FS_AddElement
  <2>3. /\ metrics'.misses = metrics.misses + 1 /\ metrics'.hits = metrics.hits
        /\ metrics'.redirects = metrics.redirects
    BY <1>3 DEF RedisMiss, Count, TypeOK
  <2>4. metrics'.redirects + Cardinality(PastGet') <= metrics'.hits + metrics'.misses
    BY <1>0, <2>2, <2>3, Finite
  <2> QED
    BY <2>4 DEF LookupsAreCounted, PastGet
<1>4. ASSUME NEW r \in Reqs, Backfill(r) PROVE LookupsAreCounted'
  <2>1. PastGet' = PastGet \ {r} /\ r \in PastGet
    BY <1>4 DEF Backfill, Found, Collide, Respond, PastGet, TypeOK
  <2>2. Cardinality(PastGet') = Cardinality(PastGet) - 1
    BY <2>1, Finite, FS_RemoveElement
  <2>3. /\ metrics'.hits = metrics.hits /\ metrics'.misses = metrics.misses
        /\ metrics'.redirects \in {metrics.redirects, metrics.redirects + 1}
    BY <1>0, <1>4 DEF Backfill, Redirected, TypeOK
  <2>4. metrics'.redirects + Cardinality(PastGet') <= metrics'.hits + metrics'.misses
    BY <1>0, <2>2, <2>3, Finite
  <2> QED
    BY <2>4 DEF LookupsAreCounted, PastGet
<1>5. ASSUME NEW r \in Reqs,
             \/ Generate(r) \/ GenerateFails(r) \/ Exhausted(r)
             \/ PgSelectNone(r) \/ PgSelectExpired(r) \/ PgSelectRow(r) \/ PgSelectFails(r)
             \/ PgInsertFails(r) \/ PgInsert(r) \/ PgInsertUnacknowledged(r) \/ WarmCache(r)
             \/ Arrive(r)
      PROVE  LookupsAreCounted'
  <2>1. /\ metrics' = metrics /\ \A q \in Reqs : q # r => pc'[q] = pc[q]
        /\ pc'[r] \in {"select", "fill", "insert", "warm", "set"} =>
               pc[r] \in {"select", "fill", "insert", "warm", "set"}
    BY <1>5
    DEF TypeOK, Generate, GenerateFails, Exhausted, PgSelectNone, PgSelectExpired, PgSelectRow,
        PgSelectFails, PgInsertFails, PgInsert, PgInsertUnacknowledged, WarmCache, Fail, Respond,
        AfterLoop, OuterShortKey, FoundExpired, FoundNothing, Arrive, ArriveShorten, RejectBody,
        ArriveRedirect
  <2> QED
    BY <1>1, <2>1 DEF PastGet
<1>6. ASSUME NEW s \in sets, SetStep(s) PROVE LookupsAreCounted'
  <2>1. metrics' = metrics /\ PastGet' \subseteq PastGet
    BY <1>6 DEF SetStep, RedisSet, RedisSetFails, SetReturns, AfterLoop, OuterShortKey, Fail,
                Respond, PendingSet, PastGet, TypeOK
  <2> QED
    BY <1>1, <2>1
<1>7. CASE Crash
  <2>1. PastGet' = {} /\ metrics' = [hits |-> 0, misses |-> 0, shortened |-> 0, redirects |-> 0]
    BY <1>7 DEF Crash, InFlight, PastGet
  <2>2. Cardinality(PastGet') = 0
    BY <2>1, FS_EmptySet
  <2>3. metrics'.redirects + Cardinality(PastGet') <= metrics'.hits + metrics'.misses
    BY <2>1, <2>2
  <2> QED
    BY <2>3 DEF LookupsAreCounted, PastGet
<1>8. CASE Tick \/ (\E c \in Codes : Evict(c)) \/ UNCHANGED vars
  <2>1. metrics' = metrics /\ PastGet' \subseteq PastGet
    BY <1>8 DEF Tick, Evict, vars, request, PastGet
  <2> QED
    BY <1>1, <2>1
<1> QED
  BY <1>2, <1>3, <1>4, <1>5, <1>6, <1>7, <1>8 DEF Next, Serve

\* Redirects never outnumber the lookups the cache counters have seen.
THEOREM LookupsCounted == Spec => []LookupsAreCounted
<1>1. Init => LookupsAreCounted
  <2> SUFFICES ASSUME Init PROVE LookupsAreCounted
    OBVIOUS
  <2>1. PastGet = {} /\ metrics = [hits |-> 0, misses |-> 0, shortened |-> 0, redirects |-> 0]
    BY DEF Init, PastGet
  <2>2. metrics.redirects + Cardinality(PastGet) <= metrics.hits + metrics.misses
    BY <2>1, FS_EmptySet
  <2> QED
    BY <2>2 DEF LookupsAreCounted, PastGet
<1>2. Inv /\ [Next]_vars /\ LookupsAreCounted => LookupsAreCounted'
  BY CountsKeptInStep
<1> QED
  BY <1>1, <1>2, Invariance, PTL DEF Spec
-----------------------------------------------------------------------------
(* What it would take for Redis to evict every link in time.                *)

\* A SET of a link that expires carries a TTL, and time has not run past it: no
\* TTL was computed zero or negative, and no SET waited while the clock went on.
SetsInTime ==
    \A s \in sets :
        LET exp == urls[s.code].exp IN exp # NoExpiry => s.ttl > 0 /\ s.ttl <= TimeUntil(exp)

KeptUntilExpiry ==
    \A c \in Codes : cache[c] # Absent /\ urls[c].exp # NoExpiry =>
        cache[c].until \in Nat /\ now < cache[c].until /\ cache[c].until <= urls[c].exp

\* A step that leaves a code its row and its key leaves the key its time.
LEMMA OthersKeepTime ==
    ASSUME KeptUntilExpiry, now' = now, NEW c \in Codes,
           cache'[c] = cache[c], cache[c] # Absent => urls'[c] = urls[c]
    PROVE  cache'[c] # Absent /\ urls'[c].exp # NoExpiry =>
             cache'[c].until \in Nat /\ now' < cache'[c].until /\ cache'[c].until <= urls'[c].exp
  BY DEF KeptUntilExpiry

LEMMA SetKeepsTime ==
    ASSUME Inv, KeptUntilExpiry, SetsInTime, NEW s \in sets, SetStep(s)
    PROVE  KeptUntilExpiry'
<1>1. now' = now /\ urls' = urls /\ now \in Nat /\ s.code \in Codes /\ s.ttl \in Int
  BY BoundAssumption
  DEF SetStep, RedisSet, RedisSetFails, SetReturns, Inv, TypeOK, PendingSet
<1>2. ASSUME NEW c \in Codes, cache'[c] = cache[c]
      PROVE  cache'[c] # Absent /\ urls'[c].exp # NoExpiry =>
               cache'[c].until \in Nat /\ now' < cache'[c].until /\ cache'[c].until <= urls'[c].exp
  BY <1>1, <1>2, OthersKeepTime
<1>3. CASE cache' = [cache EXCEPT ![s.code] = EntryOf(s)]
  <2>1. CASE urls[s.code].exp # NoExpiry
    <3>1. s.ttl > 0 /\ s.ttl <= urls[s.code].exp - now
      BY <2>1 DEF SetsInTime, TimeUntil
    <3>2. urls[s.code].exp \in Nat
      BY <1>1, <2>1, LinkFacts DEF Inv, SetsCoherent, TypeOK
    <3>3. EntryOf(s).until = now + s.ttl
      BY <3>1 DEF EntryOf
    <3>4. /\ EntryOf(s).until \in Nat /\ now < EntryOf(s).until
          /\ EntryOf(s).until <= urls[s.code].exp
      BY <1>1, <3>1, <3>2, <3>3
    <3> QED
      BY <1>1, <1>2, <1>3, <3>4 DEF KeptUntilExpiry, Inv, TypeOK
  <2>2. CASE urls[s.code].exp = NoExpiry
    BY <1>1, <1>2, <1>3, <2>2 DEF KeptUntilExpiry, Inv, TypeOK
  <2> QED
    BY <2>1, <2>2
<1>4. CASE cache' = cache
  BY <1>2, <1>4 DEF KeptUntilExpiry
<1> QED
  BY <1>3, <1>4 DEF SetStep, RedisSet, RedisSetFails

LEMMA TickKeepsTime ==
    ASSUME Inv, KeptUntilExpiry, Tick
    PROVE  KeptUntilExpiry'
<1>1. now' = now + 1 /\ urls' = urls /\ now \in Nat
  BY BoundAssumption DEF Tick, Inv, TypeOK
<1>2. ASSUME NEW c \in Codes, cache'[c] # Absent
      PROVE  /\ cache[c] # Absent /\ cache'[c] = cache[c]
             /\ cache[c].until # Forever => ~(cache[c].until <= now')
  BY <1>2 DEF Tick
<1>3. ASSUME NEW c \in Codes, cache'[c] # Absent, urls'[c].exp # NoExpiry
      PROVE  cache'[c].until \in Nat /\ now' < cache'[c].until /\ cache'[c].until <= urls'[c].exp
  <2>1. cache[c].until \in Nat /\ cache[c].until <= urls[c].exp
    BY <1>1, <1>2, <1>3 DEF KeptUntilExpiry
  <2>2. now' < cache[c].until
    BY <1>1, <1>2, <1>3, <2>1, SentinelAssumption
  <2> QED
    BY <1>1, <1>2, <1>3, <2>1, <2>2
<1> QED
  BY <1>3 DEF KeptUntilExpiry

LEMMA StepKeepsTime ==
    Inv /\ KeptUntilExpiry /\ SetsInTime /\ [Next]_vars => KeptUntilExpiry'
<1> SUFFICES ASSUME Inv, KeptUntilExpiry, SetsInTime, [Next]_vars
             PROVE  KeptUntilExpiry'
  OBVIOUS
<1>1. ASSUME now' = now, \A c \in Codes : cache'[c] = cache[c] \/ cache'[c] = Absent,
             \A c \in Codes : cache[c] # Absent => urls'[c] = urls[c]
      PROVE  KeptUntilExpiry'
  BY <1>1 DEF KeptUntilExpiry
<1>2. ASSUME NEW r \in Reqs, Arrive(r) \/ Serve(r) PROVE KeptUntilExpiry'
  <2>1. now' = now /\ cache' = cache
    BY <1>2
    DEF Arrive, ArriveShorten, RejectBody, ArriveRedirect, Serve, Generate, GenerateFails,
        Exhausted, RedisHit, RedisMiss, PgSelectNone, PgSelectExpired, PgSelectRow,
        PgSelectFails, Backfill, PgInsert, PgInsertFails, PgInsertUnacknowledged, WarmCache
  <2>2. urls' = urls \/ (urls[code[r]] = NoRow /\ urls' = [urls EXCEPT ![code[r]] = want[r]])
    BY <1>2
    DEF Arrive, ArriveShorten, RejectBody, ArriveRedirect, Serve, Generate, GenerateFails,
        Exhausted, RedisHit, RedisMiss, PgSelectNone, PgSelectExpired, PgSelectRow,
        PgSelectFails, Backfill, PgInsert, PgInsertFails, PgInsertUnacknowledged, WarmCache
  <2>3. \A c \in Codes : cache[c] # Absent => urls'[c] = urls[c]
    BY <2>2 DEF Inv, TypeOK, CacheCoherent
  <2> QED
    BY <1>1, <2>1, <2>3
<1>3. CASE UNCHANGED vars
  BY <1>1, <1>3 DEF vars
<1>4. CASE Crash
  BY <1>1, <1>4 DEF Crash
<1>5. ASSUME NEW c \in Codes, Evict(c) PROVE KeptUntilExpiry'
  BY <1>1, <1>5 DEF Evict, Inv, TypeOK
<1> QED
  BY <1>2, <1>3, <1>4, <1>5, SetKeepsTime, TickKeepsTime DEF Next

\* If every SET reaches Redis in time and with a TTL, no key outlives its link:
\* the run that finds a key of an expired link has no other cause.
THEOREM PromptSetsSuffice == Spec /\ []SetsInTime => []EvictedAtExpiry
<1>1. Init => KeptUntilExpiry
  BY DEF Init, KeptUntilExpiry
<1>2. Inv /\ KeptUntilExpiry => EvictedAtExpiry
  <2> SUFFICES ASSUME Inv, KeptUntilExpiry, NEW c \in Codes, cache[c] # Absent,
                      urls[c].exp # NoExpiry
               PROVE  ~(now > urls[c].exp)
    BY DEF EvictedAtExpiry, Expired
  <2>1. now \in Nat /\ urls[c].exp \in Nat
    BY BoundAssumption, LinkFacts DEF Inv, TypeOK, CacheCoherent
  <2> QED
    BY <2>1 DEF KeptUntilExpiry
<1> QED
  BY <1>1, <1>2, StepKeepsTime, Invariance, PTL DEF Spec
=============================================================================
