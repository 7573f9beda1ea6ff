------------------------------ MODULE DevServer ------------------------------
(***************************************************************************)
(* The url-shortner without ENV=PROD: the same handlers over MemoryStore,  *)
(* a map under a lock, with no tracker.  Each call of the store is one     *)
(* step, because it holds the lock throughout; the handlers call it twice. *)
(***************************************************************************)
EXTENDS Naturals, FiniteSets

CONSTANTS Codes,        \* short codes
          Urls,         \* destinations
          Expiries,     \* the expires_at times a client may ask for
          Reqs,         \* requests, to POST /shorten or to GET /{code}
          MaxAttempts,  \* bound of the loop in Shorten
          MaxTime,      \* bound of the clock
          NoExpiry,     \* a nil expires_at
          NoLink,       \* no entry
          NoCode        \* the empty short code

ASSUME DevAssumption ==
    /\ {MaxAttempts, MaxTime} \subseteq Nat \ {0} /\ Expiries \subseteq Nat
    /\ IsFiniteSet(Codes) /\ IsFiniteSet(Reqs)

VARIABLES now,       \* the clock
          data,      \* MemoryStore.data
          pc,        \* per request, its control point
          want,      \* per request, the link POST /shorten asks for; NoLink for GET
          code,      \* per request, the code it works on
          tries,     \* per request, the iterations of the loop begun
          reply,     \* per request, the status of its response
          redirects  \* Metrics.TotalRedirects

vars == <<now, data, pc, want, code, tries, reply, redirects>>

Link == [url : Urls, exp : Expiries \cup {NoExpiry}]

TypeOK ==
    /\ now \in 1..MaxTime
    /\ data \in [Codes -> Link \cup {NoLink}]
    /\ pc \in [Reqs -> {"idle", "generate", "lookup", "save", "done"}]
    /\ want \in [Reqs -> Link \cup {NoLink}]
    /\ code \in [Reqs -> Codes \cup {NoCode}]
    /\ tries \in [Reqs -> 0..MaxAttempts]
    /\ reply \in [Reqs -> {"none", "201", "302", "400", "404", "410", "500", "aborted"}]
    /\ redirects \in Nat

Init ==
    /\ now = 1
    /\ data = [c \in Codes |-> NoLink]
    /\ pc = [r \in Reqs |-> "idle"]
    /\ want = [r \in Reqs |-> NoLink]
    /\ code = [r \in Reqs |-> NoCode]
    /\ tries = [r \in Reqs |-> 0]
    /\ reply = [r \in Reqs |-> "none"]
    /\ redirects = 0

IsShorten(r) == want[r] # NoLink

Goes(r, from, to) == pc[r] = from /\ pc' = [pc EXCEPT ![r] = to]

Answers(r, from, status) == Goes(r, from, "done") /\ reply' = [reply EXCEPT ![r] = status]

\* The outer shortKey of Shorten, which its loop never assigns.
OuterShortKey(r) == NoCode

CreatedOrNot(r) == IF OuterShortKey(r) # NoCode THEN "201" ELSE "500"

\* main puts a nil *analytics.Tracker into the interface field Tracker, which
\* is therefore not nil; Track then dereferences it and the handler panics.
TrackerIsNotNil == TRUE

AfterTrack == IF TrackerIsNotNil THEN "aborted" ELSE "302"

Expired(link) == link.exp # NoExpiry /\ now > link.exp

-----------------------------------------------------------------------------
Arrive(r) ==
    /\ \/ /\ Goes(r, "idle", "generate")
          /\ \E link \in Link : want' = [want EXCEPT ![r] = link]
          /\ UNCHANGED <<code, reply>>
       \/ /\ Goes(r, "idle", "lookup")
          /\ \E c \in Codes : code' = [code EXCEPT ![r] = c]
          /\ UNCHANGED <<want, reply>>
       \/ Answers(r, "idle", "400") /\ UNCHANGED <<want, code>>
    /\ UNCHANGED <<now, data, tries, redirects>>

\* Faults the runs must catch are named ...Fault; no action uses them.
UnboundedLoopFault(r) ==
    /\ tries' = [tries EXCEPT ![r] = @ + 1]
    /\ Goes(r, "generate", "lookup")
    /\ \E c \in Codes : code' = [code EXCEPT ![r] = c]
    /\ UNCHANGED <<now, data, want, reply, redirects>>

Generate(r) ==
    /\ tries[r] < MaxAttempts
    /\ tries' = [tries EXCEPT ![r] = @ + 1]
    /\ Goes(r, "generate", "lookup")
    /\ \E c \in Codes : code' = [code EXCEPT ![r] = c]
    /\ UNCHANGED <<now, data, want, reply, redirects>>

GiveUp(r) ==
    /\ \/ tries[r] < MaxAttempts /\ Answers(r, "generate", "500")
       \/ tries[r] = MaxAttempts /\ Answers(r, "generate", CreatedOrNot(r))
    /\ UNCHANGED <<now, data, want, code, tries, redirects>>

\* Lookup for Shorten.
LookupCode(r) ==
    /\ pc[r] = "lookup" /\ IsShorten(r)
    /\ LET link == data[code[r]] IN
       \/ link = NoLink /\ Goes(r, "lookup", "save") /\ UNCHANGED reply
       \/ link # NoLink /\ Expired(link) /\ Answers(r, "lookup", "500")
       \/ link # NoLink /\ ~Expired(link) /\ Goes(r, "lookup", "generate") /\ UNCHANGED reply
    /\ UNCHANGED <<now, data, want, code, tries, redirects>>

MissingBreakFault(r) ==
    /\ Goes(r, "save", "generate")
    /\ data' = [data EXCEPT ![code[r]] = want[r]]
    /\ UNCHANGED <<now, want, code, tries, reply, redirects>>

\* Save assigns, whether or not the code is free by now.
Save(r) ==
    /\ Answers(r, "save", CreatedOrNot(r))
    /\ data' = [data EXCEPT ![code[r]] = want[r]]
    /\ UNCHANGED <<now, want, code, tries, redirects>>

\* Lookup for RedirectHandler, and what the handler makes of it.
Redirect(r) ==
    /\ pc[r] = "lookup" /\ ~IsShorten(r)
    /\ LET link == data[code[r]] IN
       \/ link = NoLink /\ Answers(r, "lookup", "404") /\ UNCHANGED redirects
       \/ /\ link # NoLink /\ Expired(link)
          /\ Answers(r, "lookup", "410")
          /\ UNCHANGED redirects
       \/ /\ link # NoLink /\ ~Expired(link)
          /\ Answers(r, "lookup", AfterTrack)
          /\ redirects' = redirects + 1
    /\ UNCHANGED <<now, data, want, code, tries>>

Tick == /\ now < MaxTime
        /\ now' = now + 1
        /\ UNCHANGED <<data, pc, want, code, tries, reply, redirects>>

Serve(r) == Generate(r) \/ GiveUp(r) \/ LookupCode(r) \/ Save(r) \/ Redirect(r)

Next == Tick \/ \E r \in Reqs : Arrive(r) \/ Serve(r)

Spec == Init /\ [][Next]_vars

-----------------------------------------------------------------------------
(* Properties.                                                              *)

\* A POST /shorten publishes at most one link, however many codes it tried (the
\* break after Save in Shorten).
OneLinkPerShorten ==
    Cardinality({c \in Codes : data[c] # NoLink})
      <= Cardinality({r \in Reqs : IsShorten(r) /\ pc[r] = "done"})

\* handler/NOTES.md: a code whose lookup finds nothing is safe to use.  A
\* published link is never replaced by another.
NeverReplaced == [][\A c \in Codes : data[c] # NoLink => data'[c] = data[c]]_data
=============================================================================
