----------------------------- MODULE Reliability -----------------------------
(***************************************************************************)
(* The reliability lab: a server whose /process hangs, fails or answers    *)
(* after a while and is measured by LatencyCalculator, its /health, its    *)
(* shutdown, and the load generator that calls it.                         *)
(*                                                                         *)
(* Histogram and ErrorTracker have a lock each; every call under a lock is *)
(* a step.  A connection breaks only when one of the two processes ends.   *)
(* The response of a handler leaves the server when the handler, and the   *)
(* middleware around it, has returned: it fits net/http's buffer.          *)
(***************************************************************************)
EXTENDS Naturals, Sequences, FiniteSets

CONSTANTS Reqs,          \* the requests of the load generator (rps * duration)
          Faults,        \* what the injector is configured to do to some requests
          Latencies,     \* latencies, in the order of their numbers
          Thresholds,    \* percentile -> acceptable latency
          MaxErrorRate   \* in percent

ASSUME FaultAssumption == Faults \subseteq {"hung", "failed"}
ASSUME ReqAssumption == IsFiniteSet(Reqs) /\ Reqs # {}
ASSUME HealthAssumption == /\ IsFiniteSet(Latencies) /\ Latencies \subseteq Nat
                           /\ DOMAIN Thresholds \subseteq 0..100
                           /\ \A n \in DOMAIN Thresholds : Thresholds[n] \in Nat
                           /\ MaxErrorRate \in 0..100

VARIABLES main,      \* where main of the server is
          client,    \* the load generator: sending, printed or killed
          pc,        \* per request, where it is between the two
          status,    \* per request, the status code; 0 if there is no response
          records,   \* server: Histogram.latencyRecords
          total,     \* server: ErrorTracker.totalRequests
          errors,    \* server: ErrorTracker.errorCount
          received,  \* load generator: its ErrorTracker, as a record
          left,      \* GetHealth: the percentiles still to be read
          overMax,   \* GetHealth: whether the error rate it read is too high
          verdict,   \* GetHealth: health["status"] so far
          checking,  \* whether a GetHealth is under way
          moments    \* history: the status at each moment of the last GetHealth

vars == <<main, client, pc, status, records, total, errors, received,
          left, overMax, verdict, checking, moments>>

metrics == <<records, total, errors, moments>>
health == <<left, overMax, verdict, checking>>

InServer == {"arrived", "hung", "working", "record", "count"}
Verdicts == {"Healthy", "Degraded", "Unhealthy"}

TypeOK ==
    /\ main \in {"start", "serving", "shutdown", "exit0", "exit1"}
    /\ client \in {"sending", "printed", "killed"}
    /\ pc \in [Reqs -> InServer \cup {"unsent", "answered", "broken", "done"}]
    /\ status \in [Reqs -> {0, 200, 500}]
    /\ records \in Seq(Latencies) /\ Len(records) <= Cardinality(Reqs)
    /\ total \in 0..Cardinality(Reqs) /\ errors \in 0..total
    /\ received \in [total : 0..Cardinality(Reqs), errors : 0..Cardinality(Reqs)]
    /\ left \subseteq DOMAIN Thresholds
    /\ overMax \in BOOLEAN
    /\ verdict \in Verdicts
    /\ checking \in BOOLEAN
    /\ moments \subseteq Verdicts

Init ==
    /\ main = "start"
    /\ client = "sending"
    /\ pc = [r \in Reqs |-> "unsent"]
    /\ status = [r \in Reqs |-> 200]
    /\ records = <<>>
    /\ total = 0 /\ errors = 0
    /\ received = [total |-> 0, errors |-> 0]
    /\ left = {} /\ overMax = FALSE /\ verdict = "Healthy" /\ checking = FALSE
    /\ moments = {}

-----------------------------------------------------------------------------
(* Histogram and ErrorTracker.                                              *)

\* How many observations are among these latencies.
Recorded(ls) == Cardinality({i \in 1..Len(records) : records[i] \in ls})

Count == Len(records)

\* Where in the sorted copy the n-th percentile is, from 0.
NearestRankFault(n) == (Count * n) \div 100 - 1

Index(n) == ((Count - 1) * n) \div 100

\* Sorting puts a latency after all smaller ones.
Percentile(n) ==
    CHOOSE l \in Latencies : /\ Recorded({k \in Latencies : k <= l}) > Index(n)
                             /\ \A k \in Latencies : k < l => Recorded({j \in Latencies : j <= k}) <= Index(n)

\* Without any request the rate is 0.
RateOverMax == errors * 100 > MaxErrorRate * total

TooSlow(n) == Count > 0 /\ Percentile(n) > Thresholds[n]

\* README.md, Health Response: what the server's status is at a moment.
StatusNow == IF RateOverMax THEN "Unhealthy"
             ELSE IF \E n \in DOMAIN Thresholds : TooSlow(n) THEN "Degraded"
             ELSE "Healthy"

-----------------------------------------------------------------------------
(* The load generator.                                                      *)

\* http.Get is accepted, or refused when nobody listens.
Send(r) ==
    /\ client = "sending" /\ pc[r] = "unsent"
    /\ IF main = "serving"
       THEN pc' = [pc EXCEPT ![r] = "arrived"] /\ UNCHANGED status
       ELSE pc' = [pc EXCEPT ![r] = "broken"] /\ status' = [status EXCEPT ![r] = 0]
    /\ UNCHANGED <<main, client, metrics, received, health>>

Failure(r) == status[r] = 0 \/ status[r] >= 500

ErrorWithoutDoneFault(r) ==
    /\ client = "sending" /\ pc[r] \in {"answered", "broken"}
    /\ pc' = IF Failure(r) THEN pc ELSE [pc EXCEPT ![r] = "done"]
    /\ received' = [total |-> received.total + 1,
                    errors |-> received.errors + IF Failure(r) THEN 1 ELSE 0]
    /\ pc' # pc
    /\ UNCHANGED <<main, client, status, metrics, health>>

\* The goroutine records the outcome and is done.  Its own histogram and error
\* tracker are only read after wg.Wait, so that one step does for both.
Receive(r) ==
    /\ client = "sending" /\ pc[r] \in {"answered", "broken"}
    /\ pc' = [pc EXCEPT ![r] = "done"]
    /\ received' = [total |-> received.total + 1,
                    errors |-> received.errors + IF Failure(r) THEN 1 ELSE 0]
    /\ UNCHANGED <<main, client, status, metrics, health>>

\* wg.Wait returns and the results are printed.
PrintResults ==
    /\ client = "sending" /\ \A r \in Reqs : pc[r] = "done"
    /\ client' = "printed"
    /\ UNCHANGED <<main, pc, status, metrics, received, health>>

\* Its user interrupts the load generator.
Kill ==
    /\ client = "sending"
    /\ client' = "killed"
    /\ UNCHANGED <<main, pc, status, metrics, received, health>>

-----------------------------------------------------------------------------
(* /process: LatencyCalculator around the injector around ProcessHandler.   *)

\* NewInjector's handler, with the draws made under its lock.
Inject(r) ==
    /\ pc[r] = "arrived"
    /\ \/ "hung" \in Faults /\ pc' = [pc EXCEPT ![r] = "hung"] /\ UNCHANGED status
       \/ /\ "failed" \in Faults
          /\ pc' = [pc EXCEPT ![r] = "record"]
          /\ status' = [status EXCEPT ![r] = 500]
       \/ pc' = [pc EXCEPT ![r] = "working"] /\ UNCHANGED status
    /\ UNCHANGED <<main, client, metrics, received, health>>

\* The injected latency and ProcessHandler.
Work(r) ==
    /\ pc[r] = "working"
    /\ pc' = [pc EXCEPT ![r] = "record"]
    /\ UNCHANGED <<main, client, status, metrics, received, health>>

\* r.Context().Done: the client is gone.  No status has been written.
Abandon(r) ==
    /\ pc[r] = "hung" /\ client = "killed"
    /\ pc' = [pc EXCEPT ![r] = "record"]
    /\ UNCHANGED <<main, client, status, metrics, received, health>>

\* A step that changes the metrics adds a moment to the check under way.
Observe == moments' = IF checking THEN moments \cup {StatusNow'} ELSE moments

ErrorsHaveNoLatencyFault(r) ==
    /\ pc[r] = "record"
    /\ IF status[r] >= 500 THEN UNCHANGED records
       ELSE \E l \in Latencies : records' = Append(records, l)
    /\ pc' = [pc EXCEPT ![r] = "count"]
    /\ UNCHANGED <<main, client, status, total, errors, received, health>>
    /\ Observe

RecordLatency(r) ==
    /\ pc[r] = "record"
    /\ \E l \in Latencies : records' = Append(records, l)
    /\ pc' = [pc EXCEPT ![r] = "count"]
    /\ UNCHANGED <<main, client, status, total, errors, received, health>>
    /\ Observe

OnlySuccessesInTotalFault(r) ==
    /\ pc[r] = "count"
    /\ total' = total + IF status[r] >= 500 THEN 0 ELSE 1
    /\ errors' = errors + IF status[r] >= 500 THEN 1 ELSE 0
    /\ pc' = [pc EXCEPT ![r] = "answered"]
    /\ UNCHANGED <<main, client, status, records, received, health>>
    /\ Observe

ThresholdFault(r) ==
    /\ pc[r] = "count"
    /\ total' = total + 1
    /\ errors' = errors + IF status[r] > 500 THEN 1 ELSE 0
    /\ pc' = [pc EXCEPT ![r] = "answered"]
    /\ UNCHANGED <<main, client, status, records, received, health>>
    /\ Observe

\* RecordError or RecordSuccess; then the response leaves.
CountRequest(r) ==
    /\ pc[r] = "count"
    /\ total' = total + 1
    /\ errors' = errors + IF status[r] >= 500 THEN 1 ELSE 0
    /\ pc' = [pc EXCEPT ![r] = "answered"]
    /\ UNCHANGED <<main, client, status, records, received, health>>
    /\ Observe

Serve(r) == Inject(r) \/ Work(r) \/ Abandon(r) \/ RecordLatency(r) \/ CountRequest(r)

-----------------------------------------------------------------------------
(* /health: GetHealth.                                                      *)

StartCheck ==
    /\ main = "serving" /\ ~checking
    /\ checking' = TRUE
    /\ overMax' = RateOverMax
    /\ verdict' = "Healthy"
    /\ left' = DOMAIN Thresholds
    /\ moments' = {StatusNow}
    /\ UNCHANGED <<main, client, pc, status, records, total, errors, received>>

\* Go ranges over a map in any order.
ReadPercentile(n) ==
    /\ checking /\ n \in left
    /\ left' = left \ {n}
    /\ verdict' = IF TooSlow(n) THEN "Degraded" ELSE verdict
    /\ UNCHANGED <<main, client, pc, status, metrics, received, overMax, checking>>

DegradedWinsFault ==
    /\ checking /\ left = {}
    /\ verdict' = IF overMax /\ verdict = "Healthy" THEN "Unhealthy" ELSE verdict
    /\ checking' = FALSE
    /\ UNCHANGED <<main, client, pc, status, metrics, received, left, overMax>>

EndCheck ==
    /\ checking /\ left = {}
    /\ verdict' = IF overMax THEN "Unhealthy" ELSE verdict
    /\ checking' = FALSE
    /\ UNCHANGED <<main, client, pc, status, metrics, received, left, overMax>>

Check == StartCheck \/ EndCheck \/ \E n \in DOMAIN Thresholds : ReadPercentile(n)

-----------------------------------------------------------------------------
(* main of the server.                                                      *)

\* ListenAndServe listens, or fails and ends the process.
Listen ==
    /\ main = "start"
    /\ main' \in {"serving", "exit1"}
    /\ UNCHANGED <<client, pc, status, metrics, received, health>>

\* main waits for the signal from before the port is open; Shutdown then keeps
\* ListenAndServe from serving.
Signal ==
    /\ main \in {"start", "serving"}
    /\ main' = "shutdown"
    /\ UNCHANGED <<client, pc, status, metrics, received, health>>

Idle == ~checking /\ \A r \in Reqs : pc[r] \notin InServer

ShutdownReturns ==
    /\ main = "shutdown" /\ Idle
    /\ main' = "exit0"
    /\ UNCHANGED <<client, pc, status, metrics, received, health>>

\* Shutdown without a deadline.
NoDeadlineFault == FALSE /\ UNCHANGED vars

\* After ten seconds: os.Exit(1) breaks what is under way.
ShutdownTimesOut ==
    /\ main = "shutdown" /\ ~Idle
    /\ main' = "exit1"
    /\ pc' = [r \in Reqs |-> IF pc[r] \in InServer THEN "broken" ELSE pc[r]]
    /\ status' = [r \in Reqs |-> IF pc[r] \in InServer THEN 0 ELSE status[r]]
    /\ checking' = FALSE
    /\ UNCHANGED <<client, metrics, received, left, overMax, verdict>>

Next ==
    \/ Listen \/ Signal \/ ShutdownReturns \/ ShutdownTimesOut
    \/ PrintResults \/ Kill
    \/ \E r \in Reqs : Send(r) \/ Receive(r) \/ Serve(r)
    \/ Check

Spec == Init /\ [][Next]_vars

\* Both processes run.  Nobody need send a signal, kill anything or ask for health.
FairSpec ==
    /\ Spec
    /\ WF_vars(Listen) /\ WF_vars(ShutdownReturns \/ ShutdownTimesOut) /\ WF_vars(PrintResults)
    /\ \A r \in Reqs : WF_vars(Send(r)) /\ WF_vars(Receive(r)) /\ WF_vars(Serve(r))

-----------------------------------------------------------------------------
(* Properties.                                                              *)

\* Histogram and error tracker describe the same requests but for those between
\* the two locks, whatever was injected and whoever left (LatencyCalculator).
MetricsAgree ==
    main # "exit1" => Count = total + Cardinality({r \in Reqs : pc[r] = "count"})

\* What the load generator prints is what the server has counted: a response only
\* leaves when the middleware has recorded it.  Requests that found no server or
\* lost it are errors on one side alone.
BothSidesAgree ==
    client = "printed" /\ main # "exit1" =>
        LET lost == Cardinality({r \in Reqs : status[r] = 0})
        IN /\ received.total = total + lost
           /\ received.errors = errors + lost

\* A percentile is always an observation, from the smallest at 0 to the largest
\* at 100 (the index of Percentile).
PercentilesSpanRecords ==
    Count > 0 =>
        /\ \A n \in DOMAIN Thresholds \cup {0, 100} : \E i \in 1..Count : records[i] = Percentile(n)
        /\ \A i \in 1..Count : Percentile(0) <= records[i] /\ records[i] <= Percentile(100)

\* /health reads the metrics one by one while they change.  All the same a server
\* that is Healthy throughout, or Unhealthy throughout, is called so, and one
\* that is Degraded throughout is not called Unhealthy (GetHealth).
SteadyVerdict ==
    [][EndCheck => /\ moments = {"Healthy"} => verdict' = "Healthy"
                   /\ moments = {"Degraded"} => verdict' # "Unhealthy"
                   /\ moments = {"Unhealthy"} => verdict' = "Unhealthy"]_vars

\* Nothing but a hung request holds the load generator up, although it waits for
\* every goroutine (wg.Done on every path).
OnlyHangsHoldUp == [](client = "sending" => <>(client # "sending" \/ \E r \in Reqs : pc[r] = "hung"))

\* Stopping the server ends it, hung requests or not, and that frees the load
\* generator, which waits for them without a timeout (Shutdown's ten seconds).
SignalFreesClient == main = "shutdown" ~> main \in {"exit0", "exit1"} /\ client # "sending"
=============================================================================
