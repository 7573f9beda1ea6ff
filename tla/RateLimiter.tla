----------------------------- MODULE RateLimiter -----------------------------
(***************************************************************************)
(* middleware/ratelimit.go: one token bucket per IP address in a sync.Map, *)
(* used by every request of the url-shortner and swept once a minute by a  *)
(* goroutine that forgets addresses not seen for a while.                  *)
(*                                                                         *)
(* A tick is the minute between two sweeps, a beat the time in which a     *)
(* bucket gains one token.  Buckets gain theirs at any point of a beat, so *)
(* that each refills at the steady rate of its limiter in a phase of its   *)
(* own.  A request takes no longer than from one tick to the next but one, *)
(* a sweep less than a tick.                                               *)
(***************************************************************************)
EXTENDS Naturals

CONSTANTS Ips,       \* client addresses
          Reqs,      \* request goroutines; one may serve many requests in turn
          Limiters,  \* identities of ipStoreEntry objects
          None,      \* no entry
          Burst,     \* capacity of a bucket (20)
          Refill,    \* beats in a tick, the tokens a bucket gains in it (600)
          IdleTicks  \* ticks without a request after which an entry is swept (3)

ASSUME NoneAssumption == None \notin Limiters \cup Ips
ASSUME RateAssumption == /\ Burst \in Nat \ {0} /\ Refill \in Nat \ {0} /\ IdleTicks \in Nat \ {0}
                         /\ Refill * (IdleTicks - 1) >= Burst

VARIABLES entry,    \* IPRateLimiter.ips: address -> ipStoreEntry
          tokens,   \* per entry, what is in the bucket of its rate.Limiter
          beat,     \* the beat of this tick, from 1 to Refill
          due,      \* the entries in use whose bucket has yet to gain in this beat
          age,      \* per entry, the ticks since lastSeen, up to IdleTicks + 1
          pc,       \* per request goroutine: idle, or the statement it is at
          held,     \* per request, the entry it has loaded
          ip,       \* per request, its address
          late,     \* per request, whether a tick has passed during it
          sweep,    \* the keys Range has yet to visit in this sweep
          admitted  \* history: the requests admitted per address since the tick

vars == <<entry, tokens, beat, due, age, pc, held, ip, late, sweep, admitted>>

TypeOK ==
    /\ entry \in [Ips -> Limiters \cup {None}]
    /\ tokens \in [Limiters -> 0..Burst]
    /\ beat \in 1..Refill
    /\ due \subseteq Limiters
    /\ age \in [Limiters -> 0..(IdleTicks + 1)]
    /\ pc \in [Reqs -> {"idle", "touch", "allow"}]
    /\ held \in [Reqs -> Limiters \cup {None}]
    /\ ip \in [Reqs -> Ips \cup {None}]
    /\ late \in [Reqs -> BOOLEAN]
    /\ sweep \subseteq Ips
    /\ admitted \in [Ips -> Nat]

Init ==
    /\ entry = [i \in Ips |-> None]
    /\ tokens = [l \in Limiters |-> Burst]
    /\ beat = 1
    /\ due = {}
    /\ age = [l \in Limiters |-> 0]
    /\ pc = [r \in Reqs |-> "idle"]
    /\ held = [r \in Reqs |-> None]
    /\ ip = [r \in Reqs |-> None]
    /\ late = [r \in Reqs |-> FALSE]
    /\ sweep = {}
    /\ admitted = [i \in Ips |-> 0]

\* Objects nothing refers to: not made yet, or garbage.  They are as good as new.
Unused == {l \in Limiters : (\A i \in Ips : entry[i] # l) /\ (\A r \in Reqs : held[r] # l)}

InUse == Limiters \ Unused

Recycled(f, new) == [l \in Limiters |-> IF l \in Unused' THEN new ELSE f[l]]

-----------------------------------------------------------------------------
(* RateLimiter, the handler.                                                *)

\* Which of the unused objects is taken makes no difference.
NewEntry(r, i) ==
    LET l == CHOOSE l \in Unused : TRUE
    IN /\ Unused # {}
       /\ entry' = [entry EXCEPT ![i] = l]
       /\ held' = [held EXCEPT ![r] = l]

Arrive(r, i) ==
    /\ pc[r] = "idle"
    /\ pc' = [pc EXCEPT ![r] = "touch"]
    /\ ip' = [ip EXCEPT ![r] = i]
    /\ UNCHANGED <<tokens, beat, due, age, late, sweep, admitted>>

\* Faults the runs must catch are named ...Fault; no action uses them.
StoreFault(r, i) == Arrive(r, i) /\ NewEntry(r, i)

LoadOrStore(r, i) ==
    /\ Arrive(r, i)
    /\ IF entry[i] = None
       THEN NewEntry(r, i)
       ELSE held' = [held EXCEPT ![r] = entry[i]] /\ UNCHANGED entry

UntouchedFault(r) ==
    /\ pc[r] = "touch"
    /\ pc' = [pc EXCEPT ![r] = "allow"]
    /\ UNCHANGED <<entry, tokens, beat, due, age, held, ip, late, sweep, admitted>>

\* lastSeen = time.Now(), under the lock of the entry.
Touch(r) ==
    /\ pc[r] = "touch"
    /\ age' = [age EXCEPT ![held[r]] = 0]
    /\ pc' = [pc EXCEPT ![r] = "allow"]
    /\ UNCHANGED <<entry, tokens, beat, due, held, ip, late, sweep, admitted>>

\* The request leaves the limiter with these tokens in the buckets.
Leave(r, left) ==
    /\ pc' = [pc EXCEPT ![r] = "idle"]
    /\ held' = [held EXCEPT ![r] = None]
    /\ ip' = [ip EXCEPT ![r] = None]
    /\ late' = [late EXCEPT ![r] = FALSE]
    /\ UNCHANGED <<entry, beat, sweep>>
    /\ tokens' = Recycled(left, Burst)
    /\ due' = due \cap InUse'
    /\ age' = Recycled(age, 0)

Admit(r) ==
    /\ admitted' = [admitted EXCEPT ![ip[r]] = @ + 1]
    /\ Leave(r, [tokens EXCEPT ![held[r]] = @ - 1])

UncheckedAllowFault(r) == pc[r] = "allow" /\ Admit(r)

Allow(r) ==
    /\ pc[r] = "allow"
    /\ tokens[held[r]] > 0
    /\ Admit(r)

\* 429 Too Many Requests.
Deny(r) ==
    /\ pc[r] = "allow"
    /\ tokens[held[r]] = 0
    /\ Leave(r, tokens)
    /\ UNCHANGED admitted

-----------------------------------------------------------------------------
(* cleanup.                                                                 *)

Idle(i) == entry[i] # None /\ age[entry[i]] > IdleTicks

DeleteIfIdle(i) ==
    /\ entry' = IF Idle(i) THEN [entry EXCEPT ![i] = None] ELSE entry
    /\ UNCHANGED <<beat, pc, held, ip, late, admitted>>
    /\ tokens' = Recycled(tokens, Burst)
    /\ due' = due \cap InUse'
    /\ age' = Recycled(age, 0)

StopAtYoungFault(i) ==
    /\ i \in sweep
    /\ sweep' = IF Idle(i) \/ entry[i] = None THEN sweep \ {i} ELSE {}
    /\ DeleteIfIdle(i)

\* Range visits a key: the entry is locked, judged, and deleted if idle.
Visit(i) ==
    /\ i \in sweep
    /\ sweep' = sweep \ {i}
    /\ DeleteIfIdle(i)

-----------------------------------------------------------------------------
(* Time.                                                                    *)

\* rate.Limiter adds what the time since the last call is worth, up to the burst.
Gain(l) ==
    /\ l \in due
    /\ due' = due \ {l}
    /\ tokens' = [tokens EXCEPT ![l] = IF @ < Burst THEN @ + 1 ELSE @]
    /\ UNCHANGED <<entry, beat, age, pc, held, ip, late, sweep, admitted>>

Beat ==
    /\ due = {}
    /\ beat < Refill
    /\ beat' = beat + 1
    /\ due' = InUse
    /\ UNCHANGED <<entry, tokens, age, pc, held, ip, late, sweep, admitted>>

\* time.Sleep(time.Minute) is over.
Tick ==
    /\ due = {}
    /\ beat = Refill
    /\ sweep = {}
    /\ \A r \in Reqs : ~late[r]
    /\ beat' = 1
    /\ due' = InUse
    /\ sweep' = Ips
    /\ late' = [r \in Reqs |-> pc[r] # "idle"]
    /\ age' = [l \in Limiters |-> IF age[l] > IdleTicks \/ l \in Unused THEN age[l]
                                                                       ELSE age[l] + 1]
    /\ admitted' = [i \in Ips |-> 0]
    /\ UNCHANGED <<entry, tokens, pc, held, ip>>

Passes == Beat \/ Tick \/ \E l \in Limiters : Gain(l)

Request(r) == Touch(r) \/ Allow(r) \/ Deny(r)

Next ==
    \/ \E r \in Reqs : Request(r) \/ \E i \in Ips : LoadOrStore(r, i)
    \/ \E i \in Ips : Visit(i)
    \/ Passes

Spec == Init /\ [][Next]_vars

\* Requests under way and the sweep make progress, and time passes.
FairSpec == Spec /\ WF_vars(Passes)
                 /\ \A r \in Reqs : WF_vars(Request(r))
                 /\ \A i \in Ips : WF_vars(Visit(i))

-----------------------------------------------------------------------------
(* Properties.                                                              *)

\* Forgetting an address gives it nothing: an entry is swept only when its bucket
\* is full, so the new entry of the next request is no better (the 3 minutes of
\* cleanup against the rate and burst of rate.NewLimiter).
SweptIsFull ==
    [][\A i \in Ips : entry[i] # None /\ entry'[i] = None => tokens[entry[i]] = Burst]_vars

\* However requests race with the sweep, an address has at most two buckets in a
\* tick, the one swept under a request's hands and the new one: it is admitted no
\* more often than their bursts and what they have gained since the tick allow.
AdmittedBounded == \A i \in Ips : admitted[i] <= 2 * (Burst + beat)

\* The map does not grow for ever: an address that stays away is forgotten.
IdleForgotten ==
    \A i \in Ips : <>[](\A r \in Reqs : pc[r] = "idle" \/ ip[r] # i) => <>[](entry[i] = None)
=============================================================================
