------------------------- MODULE Reliability_proofs -------------------------
(***************************************************************************)
(* For any number of requests, faults, latencies and thresholds: types,    *)
(* that client and server count the same requests, what a verdict of       *)
(* /health can be trusted for, and what a percentile is.                   *)
(***************************************************************************)
EXTENDS Reliability, FiniteSetTheorems, WellFoundedInduction, TLAPS

At(points) == {r \in Reqs : pc[r] \in points}

\* The requests the server's error tracker has counted, and their failures.
Counted == {r \in Reqs : pc[r] \in {"answered", "done"} /\ status[r] # 0}

Failed == {r \in Counted : status[r] >= 500}

Received == At({"done"})

ReceivedFailed == {r \in Received : Failure(r)}

Types ==
    /\ main \in {"start", "serving", "shutdown", "exit0", "exit1"}
    /\ client \in {"sending", "printed", "killed"}
    /\ pc \in [Reqs -> InServer \cup {"unsent", "answered", "broken", "done"}]
    /\ status \in [Reqs -> {0, 200, 500}]
    /\ records \in Seq(Latencies)
    /\ total \in Nat /\ errors \in 0..total
    /\ received \in [total : Nat, errors : Nat]
    /\ left \subseteq DOMAIN Thresholds
    /\ overMax \in BOOLEAN
    /\ verdict \in Verdicts
    /\ checking \in BOOLEAN
    /\ moments \subseteq Verdicts

\* No counter is ahead of the requests that have come this far.
Bounds ==
    /\ Count <= Cardinality(At({"count", "answered", "broken", "done"}))
    /\ total <= Cardinality(At({"answered", "broken", "done"}))
    /\ received.total = Cardinality(Received)
    /\ received.errors = Cardinality(ReceivedFailed)

\* Until the server breaks connections off, it has counted what it answered.
Tallies ==
    /\ \A r \in Reqs : pc[r] \in InServer \cup {"unsent", "answered"} => status[r] # 0
    /\ \A r \in Reqs : pc[r] = "broken" => status[r] = 0
    /\ main # "exit1" => /\ total = Cardinality(Counted)
                          /\ errors = Cardinality(Failed)
                          /\ Count = total + Cardinality(At({"count"}))
    /\ client = "printed" => \A r \in Reqs : pc[r] = "done"

\* What GetHealth has seen so far was the status of some moment.
Moments ==
    checking =>
        /\ StatusNow \in moments
        /\ overMax => "Unhealthy" \in moments
        /\ ~overMax => moments \cap {"Healthy", "Degraded"} # {}
        /\ verdict = "Degraded" => moments \cap {"Degraded", "Unhealthy"} # {}
        /\ verdict # "Unhealthy"

Inv == Types /\ Bounds /\ Tallies /\ Moments

USE FaultAssumption, ReqAssumption, HealthAssumption

LEMMA FiniteReqs ==
    ASSUME NEW S \in SUBSET Reqs
    PROVE  IsFiniteSet(S) /\ Cardinality(S) \in Nat /\ Cardinality(S) <= Cardinality(Reqs)
  <1>1. IsFiniteSet(S) /\ Cardinality(S) <= Cardinality(Reqs)
    BY FS_Subset
  <1> QED
    BY <1>1, FS_CardinalityType

LEMMA Grown ==
    ASSUME NEW S \in SUBSET Reqs, NEW T \in SUBSET Reqs, S \subseteq T
    PROVE  Cardinality(S) <= Cardinality(T)
  BY FiniteReqs, FS_Subset

LEMMA OneMore ==
    ASSUME NEW S \in SUBSET Reqs, NEW r \in Reqs, r \notin S
    PROVE  Cardinality(S \cup {r}) = Cardinality(S) + 1
  BY FiniteReqs, FS_AddElement

LEMMA InvImpliesTypeOK == Inv => TypeOK
  <1> SUFFICES ASSUME Inv PROVE TypeOK
    OBVIOUS
  <1>1. /\ At({"count", "answered", "broken", "done"}) \in SUBSET Reqs
        /\ At({"answered", "broken", "done"}) \in SUBSET Reqs
        /\ Received \in SUBSET Reqs /\ ReceivedFailed \in SUBSET Reqs
    BY DEF At, Received, ReceivedFailed
  <1>2. Cardinality(Reqs) \in Nat
    BY FS_CardinalityType
  <1>3. Len(records) <= Cardinality(Reqs)
    BY <1>1, <1>2, FiniteReqs DEF Inv, Types, Bounds, Count
  <1>4. total \in 0..Cardinality(Reqs)
    BY <1>1, <1>2, FiniteReqs DEF Inv, Types, Bounds
  <1>5. received.total \in 0..Cardinality(Reqs) /\ received.errors \in 0..Cardinality(Reqs)
    BY <1>1, <1>2, FiniteReqs DEF Inv, Types, Bounds
  <1> QED
    BY <1>3, <1>4, <1>5 DEF Inv, Types, TypeOK

LEMMA InitInv == Init => Inv
  <1> SUFFICES ASSUME Init PROVE Inv
    OBVIOUS
  <1>1. Types /\ Moments
    <2>1. /\ records \in Seq(Latencies) /\ received \in [total : Nat, errors : Nat]
          /\ total \in Nat /\ errors \in 0..total
      BY DEF Init
    <2>2. pc \in [Reqs -> InServer \cup {"unsent", "answered", "broken", "done"}]
      BY DEF Init
    <2>3. moments \subseteq Verdicts /\ left \subseteq DOMAIN Thresholds /\ verdict \in Verdicts
      BY DEF Init, Verdicts
    <2>4. status \in [Reqs -> {0, 200, 500}]
      BY DEF Init
    <2> QED
      BY <2>1, <2>2, <2>3, <2>4 DEF Init, Types, Moments
  <1>2. Counted = {} /\ Failed = {} /\ Received = {} /\ ReceivedFailed = {}
    BY DEF Init, Counted, Failed, Received, ReceivedFailed, At
  <1>3. Cardinality({}) = 0 /\ At({"count"}) = {} /\ Count = 0
    BY FS_EmptySet DEF Init, At, Count
  <1>4. Bounds
    <2>1. /\ Cardinality(At({"count", "answered", "broken", "done"})) \in Nat
          /\ Cardinality(At({"answered", "broken", "done"})) \in Nat
      BY FiniteReqs DEF At
    <2> QED
      BY <1>2, <1>3, <2>1 DEF Init, Bounds
  <1>5. Tallies
    <2>1. \A r \in Reqs : pc[r] = "unsent" /\ status[r] = 200
      BY DEF Init
    <2>2. /\ total = Cardinality(Counted) /\ errors = Cardinality(Failed)
          /\ Count = total + Cardinality(At({"count"}))
      <3>1. total = 0 /\ errors = 0
        BY DEF Init
      <3>2. Cardinality(At({"count"})) = 0 /\ Count = 0
        BY <1>3
      <3>3. Cardinality(Counted) = 0 /\ Cardinality(Failed) = 0
        BY <1>2, <1>3
      <3> QED
        BY <3>1, <3>2, <3>3
    <2>3. client # "printed"
      BY DEF Init
    <2> QED
      BY <2>1, <2>2, <2>3 DEF Tallies
  <1> QED
    BY <1>1, <1>4, <1>5 DEF Inv

-----------------------------------------------------------------------------
(* What GetHealth sees.                                                     *)

LEMMA SameStatus ==
    ASSUME records' = records, total' = total, errors' = errors
    PROVE  StatusNow' = StatusNow
  <1>1. RateOverMax' = RateOverMax
    BY DEF RateOverMax
  <1>2. \A ls : Recorded(ls)' = Recorded(ls)
    BY DEF Recorded
  <1>3. \A n : Percentile(n)' = Percentile(n)
    BY <1>2 DEF Percentile, Index, Count
  <1>4. \A n : TooSlow(n)' <=> TooSlow(n)
    BY <1>2, <1>3 DEF TooSlow, Count
  <1> QED
    BY <1>1, <1>4 DEF StatusNow

LEMMA StatusType == StatusNow \in Verdicts
  BY DEF StatusNow, Verdicts

\* Steps that change no metric and do not check.
LEMMA OthersKeepMoments ==
    ASSUME Moments, UNCHANGED <<metrics, health>>
    PROVE  Moments'
  <1>1. StatusNow' = StatusNow
    BY SameStatus DEF metrics
  <1> QED
    BY <1>1 DEF Moments, metrics, health

LEMMA ObservedMoments ==
    ASSUME Moments, Observe, UNCHANGED health
    PROVE  Moments'
  BY DEF Moments, Observe, health

LEMMA CheckKeepsMoments ==
    ASSUME Inv, Check
    PROVE  Moments' /\ moments' \subseteq Verdicts
  <1>1. StatusNow' = StatusNow
    BY SameStatus DEF Check, StartCheck, ReadPercentile, EndCheck, metrics
  <1>2. CASE StartCheck
    BY <1>1, <1>2, StatusType DEF StartCheck, Moments, StatusNow, Verdicts
  <1>3. ASSUME NEW n \in DOMAIN Thresholds, ReadPercentile(n)
        PROVE  Moments' /\ moments' \subseteq Verdicts
    <2>1. TooSlow(n) => StatusNow \in {"Degraded", "Unhealthy"}
      BY DEF StatusNow
    <2> QED
      BY <1>1, <1>3, <2>1 DEF ReadPercentile, metrics, Inv, Types, Moments
  <1>4. CASE EndCheck
    BY <1>4 DEF EndCheck, metrics, Inv, Types, Moments
  <1> QED
    BY <1>2, <1>3, <1>4 DEF Check

-----------------------------------------------------------------------------
(* The counters.                                                            *)

LEMMA SetsOfReqs ==
    /\ At({"count", "answered", "broken", "done"}) \in SUBSET Reqs
    /\ At({"count", "answered", "broken", "done"})' \in SUBSET Reqs
    /\ At({"answered", "broken", "done"}) \in SUBSET Reqs
    /\ At({"answered", "broken", "done"})' \in SUBSET Reqs
    /\ Received \in SUBSET Reqs /\ ReceivedFailed \in SUBSET Reqs
    /\ Counted \in SUBSET Reqs /\ Failed \in SUBSET Reqs
    /\ At({"count"}) \in SUBSET Reqs /\ At({"count"})' \in SUBSET Reqs
  BY DEF At, Received, ReceivedFailed, Counted, Failed

\* Steps that count nothing and let requests only go forward.
LEMMA UncountedKeepsBounds ==
    ASSUME Inv, records' = records, total' = total, received' = received,
           Received' = Received, ReceivedFailed' = ReceivedFailed,
           \A r \in Reqs : /\ pc[r] \in {"count", "answered", "broken", "done"} =>
                                  pc'[r] \in {"count", "answered", "broken", "done"}
                           /\ pc[r] \in {"answered", "broken", "done"} =>
                                  pc'[r] \in {"answered", "broken", "done"}
    PROVE  Bounds'
  <1>1. /\ At({"count", "answered", "broken", "done"}) \subseteq
               At({"count", "answered", "broken", "done"})'
        /\ At({"answered", "broken", "done"}) \subseteq At({"answered", "broken", "done"})'
    BY DEF At
  <1>2. /\ Cardinality(At({"count", "answered", "broken", "done"})) <=
               Cardinality(At({"count", "answered", "broken", "done"})')
        /\ Cardinality(At({"answered", "broken", "done"})) <=
               Cardinality(At({"answered", "broken", "done"})')
        /\ Cardinality(At({"count", "answered", "broken", "done"})) \in Nat
        /\ Cardinality(At({"count", "answered", "broken", "done"})') \in Nat
        /\ Cardinality(At({"answered", "broken", "done"})) \in Nat
        /\ Cardinality(At({"answered", "broken", "done"})') \in Nat
    BY <1>1, SetsOfReqs, Grown, FiniteReqs
  <1>3. Count' <= Cardinality(At({"count", "answered", "broken", "done"})')
    BY <1>2 DEF Inv, Types, Bounds, Count
  <1>4. total <= Cardinality(At({"answered", "broken", "done"})')
    BY <1>2 DEF Inv, Types, Bounds
  <1> QED
    BY <1>3, <1>4 DEF Inv, Bounds

\* Steps in which no request moves.
LEMMA SameRequests ==
    ASSUME Inv, UNCHANGED <<pc, status, records, total, errors, received>>,
           main' # "exit1" => main # "exit1",
           client' = "printed" => \A r \in Reqs : pc[r] = "done"
    PROVE  Bounds' /\ Tallies'
  <1>1. /\ Received' = Received /\ ReceivedFailed' = ReceivedFailed
        /\ Counted' = Counted /\ Failed' = Failed
        /\ At({"count"})' = At({"count"}) /\ Count' = Count
    BY DEF Received, ReceivedFailed, Counted, Failed, At, Failure, Count
  <1>2. Bounds'
    BY <1>1, UncountedKeepsBounds
  <1> QED
    BY <1>1, <1>2 DEF Inv, Tallies

\* A request moves outside the counters.
LEMMA MoveKeepsInv ==
    ASSUME Inv, NEW r \in Reqs, Send(r) \/ Inject(r) \/ Work(r) \/ Abandon(r)
    PROVE  Inv'
  <1> USE DEF Send, Inject, Work, Abandon
  <1>1. /\ main' = main /\ client' = client /\ UNCHANGED <<metrics, received, health>>
        /\ pc[r] \in {"unsent", "arrived", "working", "hung"}
    OBVIOUS
  <1> DEFINE Goes(to, code) == /\ to # "count" /\ pc' = [pc EXCEPT ![r] = to]
                               /\ status' = [status EXCEPT ![r] = code]
                               /\ (code = 0 <=> to = "broken")
  <1>2. PICK to \in InServer \cup {"broken"}, code \in {0, 200, 500} : Goes(to, code)
    <2>1. PICK old \in {200, 500} : status = [status EXCEPT ![r] = old]
      <3>1. status = [status EXCEPT ![r] = status[r]] /\ status[r] \in {200, 500}
        BY DEF Inv, Types, Tallies, InServer
      <3> QED
        BY <3>1
    <2>2. CASE Send(r) /\ main # "serving"
      <3>1. pc' = [pc EXCEPT ![r] = "broken"] /\ status' = [status EXCEPT ![r] = 0]
        BY <2>2
      <3>2. Goes("broken", 0)
        BY <3>1
      <3> HIDE DEF Goes
      <3> QED
        BY <3>2
    <2>3. CASE ~(Send(r) /\ main # "serving")
      <3>1. PICK code \in {200, 500} : status' = [status EXCEPT ![r] = code]
        BY <2>1, <2>3
      <3>2. PICK to \in InServer : to # "count" /\ pc' = [pc EXCEPT ![r] = to]
        <4>1. \/ pc' = [pc EXCEPT ![r] = "arrived"]
              \/ pc' = [pc EXCEPT ![r] = "hung"]
              \/ pc' = [pc EXCEPT ![r] = "record"]
              \/ pc' = [pc EXCEPT ![r] = "working"]
          BY <2>3
        <4>2. /\ "arrived" \in InServer /\ "hung" \in InServer
              /\ "record" \in InServer /\ "working" \in InServer
          BY DEF InServer
        <4> QED
          BY <4>1, <4>2
      <3>3. code \in {0, 200, 500} /\ to \in InServer \cup {"broken"} /\ (code = 0 <=> to = "broken")
        BY <3>1, <3>2 DEF InServer
      <3>4. Goes(to, code)
        BY <3>1, <3>2, <3>3
      <3> HIDE DEF Goes
      <3> QED
        BY <3>3, <3>4
    <2> QED
      BY <2>2, <2>3
  <1>3. Types'
    BY <1>1, <1>2 DEF Inv, Types, metrics, health
  <1>4. /\ Received' = Received /\ ReceivedFailed' = ReceivedFailed
        /\ Counted' = Counted /\ Failed' = Failed
        /\ At({"count"})' = At({"count"}) /\ Count' = Count
    BY <1>1, <1>2 DEF Inv, Types, Received, ReceivedFailed, Counted, Failed, At, Failure,
                      InServer, Count, metrics
  <1>5. Bounds'
    <2>1. \A q \in Reqs : pc[q] \in {"count", "answered", "broken", "done"} => pc'[q] = pc[q]
      BY <1>1, <1>2 DEF Inv, Types
    <2> QED
      BY <1>1, <1>4, <2>1, UncountedKeepsBounds DEF metrics
  <1>6. Tallies'
    <2>1. client # "printed"
      BY <1>1 DEF Inv, Tallies
    <2> QED
      BY <1>1, <1>2, <1>4, <2>1 DEF Inv, Types, Tallies, InServer, metrics
  <1>7. Moments'
    BY <1>1, OthersKeepMoments DEF Inv
  <1> QED
    BY <1>3, <1>5, <1>6, <1>7 DEF Inv

LEMMA RecordKeepsInv ==
    ASSUME Inv, NEW r \in Reqs, RecordLatency(r)
    PROVE  Inv'
  <1> USE DEF RecordLatency
  <1>1. records' \in Seq(Latencies) /\ Count' = Count + 1 /\ Count \in Nat
    BY DEF Inv, Types, Count
  <1>2. Types'
    <2>1. records' \in Seq(Latencies)
      BY <1>1
    <2>2. pc' \in [Reqs -> InServer \cup {"unsent", "answered", "broken", "done"}]
      BY DEF Inv, Types, InServer
    <2>3. moments' \subseteq Verdicts
      <3>1. StatusNow' \in Verdicts
        BY DEF StatusNow, Verdicts
      <3> QED
        BY <3>1 DEF Observe, Inv, Types
    <2> QED
      BY <2>1, <2>2, <2>3 DEF Inv, Types, health
  <1>3. /\ Received' = Received /\ ReceivedFailed' = ReceivedFailed
        /\ Counted' = Counted /\ Failed' = Failed
    BY DEF Inv, Types, Received, ReceivedFailed, Counted, Failed, At, Failure
  <1>4. Bounds'
    <2>1. /\ At({"count", "answered", "broken", "done"})' = At({"count", "answered", "broken", "done"}) \cup {r}
          /\ r \notin At({"count", "answered", "broken", "done"})
          /\ At({"answered", "broken", "done"})' = At({"answered", "broken", "done"})
      BY DEF At, Inv, Types
    <2>2. /\ Cardinality(At({"count", "answered", "broken", "done"})') =
                 Cardinality(At({"count", "answered", "broken", "done"})) + 1
          /\ Cardinality(At({"count", "answered", "broken", "done"})) \in Nat
      BY <2>1, SetsOfReqs, OneMore, FiniteReqs
    <2>3. Count' <= Cardinality(At({"count", "answered", "broken", "done"})')
      BY <1>1, <2>2 DEF Inv, Types, Bounds
    <2> QED
      BY <1>3, <2>1, <2>3 DEF Inv, Bounds
  <1>5. Tallies'
    <2>1. At({"count"})' = At({"count"}) \cup {r} /\ r \notin At({"count"})
      BY DEF At, Inv, Types
    <2>2. /\ Cardinality(At({"count"})') = Cardinality(At({"count"})) + 1
          /\ Cardinality(At({"count"})) \in Nat
      BY <2>1, SetsOfReqs, OneMore, FiniteReqs
    <2>3. main' # "exit1" => Count' = total' + Cardinality(At({"count"})')
      BY <1>1, <2>2 DEF Inv, Types, Tallies
    <2> QED
      BY <1>3, <2>3 DEF Inv, Types, Tallies, InServer
  <1>6. Moments'
    BY ObservedMoments DEF Inv
  <1> QED
    BY <1>2, <1>4, <1>5, <1>6 DEF Inv

LEMMA CountKeepsInv ==
    ASSUME Inv, NEW r \in Reqs, CountRequest(r)
    PROVE  Inv'
  <1> USE DEF CountRequest
  <1>1. status[r] \in {200, 500}
    BY DEF Inv, Types, Tallies, InServer
  <1>2. Types'
    <2>1. total' \in Nat /\ errors' \in 0..total'
      BY <1>1 DEF Inv, Types
    <2>2. pc' \in [Reqs -> InServer \cup {"unsent", "answered", "broken", "done"}]
      BY DEF Inv, Types, InServer
    <2>3. moments' \subseteq Verdicts
      <3>1. StatusNow' \in Verdicts
        BY DEF StatusNow, Verdicts
      <3> QED
        BY <3>1 DEF Observe, Inv, Types
    <2> QED
      BY <2>1, <2>2, <2>3 DEF Inv, Types, health
  <1>3. Received' = Received /\ ReceivedFailed' = ReceivedFailed
    BY DEF Inv, Types, Received, ReceivedFailed, At, Failure
  <1>4. /\ Counted' = Counted \cup {r} /\ r \notin Counted
        /\ Failed' = IF status[r] >= 500 THEN Failed \cup {r} ELSE Failed
        /\ r \notin Failed
    BY <1>1 DEF Inv, Types, Counted, Failed
  <1>5. Bounds'
    <2>1. /\ At({"count", "answered", "broken", "done"})' = At({"count", "answered", "broken", "done"})
          /\ At({"answered", "broken", "done"})' = At({"answered", "broken", "done"}) \cup {r}
          /\ r \notin At({"answered", "broken", "done"})
      BY DEF At, Inv, Types
    <2>2. /\ Cardinality(At({"answered", "broken", "done"})') = Cardinality(At({"answered", "broken", "done"})) + 1
          /\ Cardinality(At({"answered", "broken", "done"})) \in Nat
      BY <2>1, SetsOfReqs, OneMore, FiniteReqs
    <2>3. total' <= Cardinality(At({"answered", "broken", "done"})')
      BY <2>2 DEF Inv, Types, Bounds
    <2>4. Count' = Count
      BY DEF Count
    <2> QED
      BY <1>3, <2>1, <2>3, <2>4 DEF Inv, Bounds
  <1>6. Tallies'
    <2>1. main' # "exit1" => total' = Cardinality(Counted') /\ errors' = Cardinality(Failed')
      <3>1. /\ Cardinality(Counted') = Cardinality(Counted) + 1
            /\ Cardinality(Failed \cup {r}) = Cardinality(Failed) + 1
        BY <1>4, SetsOfReqs, OneMore
      <3> QED
        BY <1>1, <1>4, <3>1 DEF Inv, Types, Tallies
    <2>2. At({"count"}) = At({"count"})' \cup {r} /\ r \notin At({"count"})'
      BY DEF At, Inv, Types
    <2>3. /\ Cardinality(At({"count"})) = Cardinality(At({"count"})') + 1
          /\ Cardinality(At({"count"})') \in Nat
      BY <2>2, SetsOfReqs, OneMore, FiniteReqs
    <2>4. main' # "exit1" => Count' = total' + Cardinality(At({"count"})')
      BY <2>3 DEF Inv, Types, Tallies, Count
    <2> QED
      BY <2>1, <2>4 DEF Inv, Types, Tallies, InServer
  <1>7. Moments'
    BY ObservedMoments DEF Inv
  <1> QED
    BY <1>2, <1>5, <1>6, <1>7 DEF Inv

LEMMA ReceiveKeepsInv ==
    ASSUME Inv, NEW r \in Reqs, Receive(r)
    PROVE  Inv'
  <1> USE DEF Receive
  <1>1. Types'
    <2>1. received' \in [total : Nat, errors : Nat]
      BY DEF Inv, Types
    <2>2. pc' \in [Reqs -> InServer \cup {"unsent", "answered", "broken", "done"}]
      BY DEF Inv, Types
    <2> QED
      BY <2>1, <2>2 DEF Inv, Types, metrics, health
  <1>2. Counted' = Counted /\ Failed' = Failed
    BY DEF Inv, Types, Tallies, Counted, Failed
  <1>3. /\ Received' = Received \cup {r} /\ r \notin Received /\ r \notin ReceivedFailed
        /\ ReceivedFailed' = IF Failure(r) THEN ReceivedFailed \cup {r} ELSE ReceivedFailed
    BY DEF Inv, Types, Received, ReceivedFailed, At, Failure
  <1>4. Bounds'
    <2>1. /\ At({"count", "answered", "broken", "done"})' = At({"count", "answered", "broken", "done"})
          /\ At({"answered", "broken", "done"})' = At({"answered", "broken", "done"})
      BY DEF At, Inv, Types
    <2>2. /\ Cardinality(Received') = Cardinality(Received) + 1
          /\ Cardinality(ReceivedFailed \cup {r}) = Cardinality(ReceivedFailed) + 1
      BY <1>3, SetsOfReqs, OneMore
    <2>3. received'.total = Cardinality(Received')
      BY <2>2 DEF Inv, Bounds
    <2>4. received'.errors = Cardinality(ReceivedFailed')
      <3>1. received.errors + 0 = received.errors
        BY DEF Inv, Types
      <3> QED
        BY <1>3, <2>2, <3>1 DEF Inv, Bounds
    <2> QED
      BY <2>1, <2>3, <2>4 DEF Inv, Bounds, Count, metrics
  <1>5. Tallies'
    <2>1. At({"count"})' = At({"count"}) /\ Count' = Count
      BY DEF At, Count, metrics, Inv, Types
    <2> QED
      BY <1>2, <2>1 DEF Inv, Types, Tallies, InServer, metrics
  <1>6. Moments'
    BY OthersKeepMoments DEF Inv
  <1> QED
    BY <1>1, <1>4, <1>5, <1>6 DEF Inv

LEMMA TimeoutKeepsInv ==
    ASSUME Inv, ShutdownTimesOut
    PROVE  Inv'
  <1> USE DEF ShutdownTimesOut
  <1>1. Types'
    <2>1. /\ pc' \in [Reqs -> InServer \cup {"unsent", "answered", "broken", "done"}]
          /\ status' \in [Reqs -> {0, 200, 500}]
      BY DEF Inv, Types
    <2> QED
      BY <2>1 DEF Inv, Types, metrics
  <1>2. \A r \in Reqs : /\ pc[r] \notin InServer => pc'[r] = pc[r] /\ status'[r] = status[r]
                        /\ pc[r] \in InServer => pc'[r] = "broken" /\ status'[r] = 0
    OBVIOUS
  <1>3. Received' = Received /\ ReceivedFailed' = ReceivedFailed
    BY <1>2 DEF Received, ReceivedFailed, At, Failure, InServer
  <1>4. Bounds'
    BY <1>2, <1>3, UncountedKeepsBounds DEF metrics, InServer
  <1>5. Tallies'
    <2>1. \A r \in Reqs : pc'[r] \in InServer \cup {"unsent", "answered"} => status'[r] # 0
      BY <1>2 DEF Inv, Tallies, InServer
    <2>2. \A r \in Reqs : pc'[r] = "broken" => status'[r] = 0
      BY <1>2 DEF Inv, Tallies, InServer
    <2>3. client' = "printed" => \A r \in Reqs : pc'[r] = "done"
      BY <1>2 DEF Inv, Tallies, InServer
    <2> QED
      BY <2>1, <2>2, <2>3 DEF Tallies
  <1>6. Moments'
    BY DEF Moments
  <1> QED
    BY <1>1, <1>4, <1>5, <1>6 DEF Inv

\* Everything else moves no request.
LEMMA OthersKeepInv ==
    ASSUME Inv, Listen \/ Signal \/ ShutdownReturns \/ PrintResults \/ Kill \/ Check
    PROVE  Inv'
  <1>1. CASE Check
    <2>1. UNCHANGED <<main, client, pc, status, records, total, errors, received>>
      BY <1>1 DEF Check, StartCheck, ReadPercentile, EndCheck, metrics
    <2>2. Moments' /\ moments' \subseteq Verdicts
      BY <1>1, CheckKeepsMoments
    <2>3. /\ left' \subseteq DOMAIN Thresholds /\ overMax' \in BOOLEAN
          /\ verdict' \in Verdicts /\ checking' \in BOOLEAN
      <3>1. RateOverMax \in BOOLEAN
        BY DEF RateOverMax
      <3> QED
        BY <1>1, <3>1 DEF Check, StartCheck, ReadPercentile, EndCheck, Inv, Types, Verdicts
    <2>4. Types'
      BY <2>1, <2>2, <2>3 DEF Inv, Types
    <2>5. Bounds' /\ Tallies'
      BY <2>1, SameRequests DEF Inv, Tallies
    <2> QED
      BY <2>2, <2>4, <2>5 DEF Inv
  <1>2. CASE Listen \/ Signal \/ ShutdownReturns \/ PrintResults \/ Kill
    <2>1. /\ UNCHANGED <<pc, status, metrics, received, health>>
          /\ main' # "exit1" => main # "exit1"
          /\ client' = "printed" => client = "printed" \/ \A r \in Reqs : pc[r] = "done"
          /\ main' \in {"start", "serving", "shutdown", "exit0", "exit1"}
          /\ client' \in {"sending", "printed", "killed"}
      BY <1>2 DEF Listen, Signal, ShutdownReturns, PrintResults, Kill, Inv, Types
    <2>2. Types'
      BY <2>1 DEF Inv, Types, metrics, health
    <2>3. Bounds' /\ Tallies'
      BY <2>1, SameRequests DEF Inv, Tallies, metrics
    <2>4. Moments'
      BY <2>1, OthersKeepMoments DEF Inv
    <2> QED
      BY <2>2, <2>3, <2>4 DEF Inv
  <1> QED
    BY <1>1, <1>2

LEMMA StutterKeepsInv ==
    ASSUME Inv, UNCHANGED vars
    PROVE  Inv'
  <1>1. /\ UNCHANGED <<main, client, pc, status, records, total, errors, received>>
        /\ UNCHANGED <<metrics, health>>
    BY DEF vars, metrics, health
  <1>2. Types'
    BY <1>1 DEF Inv, Types, metrics, health
  <1>3. Bounds' /\ Tallies'
    BY <1>1, SameRequests DEF Inv, Tallies
  <1>4. Moments'
    BY <1>1, OthersKeepMoments DEF Inv
  <1> QED
    BY <1>2, <1>3, <1>4 DEF Inv

LEMMA Invariance == Spec => []Inv
  <1>1. Inv /\ [Next]_vars => Inv'
    <2> SUFFICES ASSUME Inv, [Next]_vars PROVE Inv'
      OBVIOUS
    <2>1. CASE Listen \/ Signal \/ ShutdownReturns \/ PrintResults \/ Kill \/ Check
      BY <2>1, OthersKeepInv
    <2>2. CASE ShutdownTimesOut
      BY <2>2, TimeoutKeepsInv
    <2>3. ASSUME NEW r \in Reqs, Send(r) \/ Receive(r) \/ Serve(r)
          PROVE  Inv'
      BY <2>3, MoveKeepsInv, ReceiveKeepsInv, RecordKeepsInv, CountKeepsInv DEF Serve
    <2>4. CASE UNCHANGED vars
      BY <2>4, StutterKeepsInv
    <2> QED
      BY <2>1, <2>2, <2>3, <2>4 DEF Next
  <1> QED
    BY <1>1, InitInv, PTL DEF Spec

-----------------------------------------------------------------------------
(* Percentiles.  Nothing is assumed of the histogram but its type.          *)

\* A set of naturals has a least element.
LEMMA LeastNatural ==
    ASSUME NEW S \in SUBSET Nat, S # {}
    PROVE  \E x \in S : \A y \in S : x <= y
  <1>1. PICK x \in S : \A y \in S : ~(<<y, x>> \in OpToRel(<, Nat))
    BY NatLessThanWellFounded, WFMin
  <1>2. \A y \in S : ~(y < x)
    BY <1>1 DEF OpToRel
  <1> QED
    BY <1>2

\* The observations that are not above k.
UpTo(k) == {i \in 1..Len(records) : records[i] <= k}

LEMMA ObservationsType ==
    ASSUME records \in Seq(Latencies)
    PROVE  /\ Count \in Nat
           /\ \A i \in 1..Count : records[i] \in Latencies /\ records[i] \in Nat
  <1>1. Count \in Nat /\ \A i \in 1..Count : records[i] \in Latencies
    BY DEF Count
  <1>2. Latencies \subseteq Nat
    OBVIOUS
  <1> QED
    BY <1>1, <1>2

LEMMA UpToType ==
    ASSUME records \in Seq(Latencies), NEW k \in Latencies
    PROVE  /\ UpTo(k) \in SUBSET (1..Count) /\ IsFiniteSet(UpTo(k))
           /\ Cardinality(UpTo(k)) \in Nat /\ Cardinality(UpTo(k)) <= Count
           /\ IsFiniteSet(1..Count) /\ Cardinality(1..Count) = Count
  <1>1. UpTo(k) \in SUBSET (1..Count) /\ Count \in Nat
    BY DEF UpTo, Count
  <1>2. IsFiniteSet(1..Count) /\ Cardinality(1..Count) = Count
    BY <1>1, FS_Interval
  <1> QED
    BY <1>1, <1>2, FS_Subset, FS_CardinalityType

LEMMA UpToIsRecorded ==
    ASSUME records \in Seq(Latencies), NEW k \in Latencies
    PROVE  Recorded({j \in Latencies : j <= k}) = Cardinality(UpTo(k))
  <1>1. UpTo(k) = {i \in 1..Len(records) : records[i] \in {j \in Latencies : j <= k}}
    BY DEF UpTo
  <1> QED
    BY <1>1 DEF Recorded

\* The index of a percentile is that of an observation: the first one of the
\* sorted copy for the 0th, the last one for the 100th.
LEMMA IndexInRange ==
    ASSUME Count \in Nat \ {0}, NEW n \in 0..100
    PROVE  /\ Index(n) \in Nat /\ Index(n) < Count
           /\ Index(0) = 0 /\ Index(100) = Count - 1
  <1> DEFINE c == Count - 1
  <1>1. c \in Nat /\ Index(n) = (c * n) \div 100
    BY DEF Index
  <1>2. c * n \in 0..(c * 100)
    BY <1>1
  <1>3. Index(n) \in 0..c
    BY <1>1, <1>2
  <1>4. Index(0) = 0 /\ Index(100) = c
    BY <1>1 DEF Index
  <1> QED
    BY <1>3, <1>4

\* Some latency has every observation at or below it: one of the observations.
LEMMA LargestObservation ==
    ASSUME records \in Seq(Latencies), Count > 0
    PROVE  \E k \in Latencies : UpTo(k) = 1..Count
  <1> DEFINE Above == {Count - Cardinality(UpTo(records[i])) : i \in 1..Count}
  <1>1. \A i \in 1..Count : /\ records[i] \in Latencies /\ records[i] \in Nat
                            /\ Cardinality(UpTo(records[i])) \in 0..Count
    BY ObservationsType, UpToType
  <1>2. Count \in Nat
    BY ObservationsType
  <1>3. Above \in SUBSET Nat /\ Above # {}
    <2>1. \A i \in 1..Count : Count - Cardinality(UpTo(records[i])) \in Nat
      BY <1>1, <1>2
    <2>2. 1 \in 1..Count
      BY <1>2
    <2> QED
      BY <2>1, <2>2
  <1>4. PICK i \in 1..Count : \A j \in 1..Count :
            Count - Cardinality(UpTo(records[i])) <= Count - Cardinality(UpTo(records[j]))
    <2> HIDE DEF Above
    <2>1. PICK x \in Above : \A y \in Above : x <= y
      BY <1>3, LeastNatural
    <2> USE DEF Above
    <2> QED
      BY <2>1
  <1>5. ASSUME NEW j \in 1..Count, records[i] < records[j]
        PROVE  FALSE
    <2>1. /\ records[i] \in Nat /\ records[j] \in Nat
          /\ UpTo(records[i]) \subseteq UpTo(records[j])
          /\ j \in UpTo(records[j]) /\ j \notin UpTo(records[i])
      <3>1. \A k \in 1..Count : records[k] \in Nat
        BY <1>1
      <3> QED
        BY <1>5, <3>1 DEF UpTo, Count
    <2>2. /\ IsFiniteSet(UpTo(records[j])) /\ UpTo(records[i]) \in SUBSET UpTo(records[j])
          /\ UpTo(records[i]) # UpTo(records[j])
      BY <1>1, <2>1, UpToType
    <2>3. Cardinality(UpTo(records[i])) < Cardinality(UpTo(records[j]))
      BY <1>1, <2>2, FS_Subset
    <2> QED
      BY <1>1, <1>2, <1>4, <2>3
  <1>6. UpTo(records[i]) = 1..Count
    <2>1. \A k \in 1..Count : records[k] \in Nat
      BY <1>1
    <2> QED
      BY <1>5, <2>1 DEF UpTo, Count
  <1> QED
    BY <1>1, <1>6

\* What the index of a percentile says of it.
LEMMA PercentileAtIndex ==
    ASSUME records \in Seq(Latencies), Count > 0, NEW n \in 0..100
    PROVE  /\ Percentile(n) \in Latencies
           /\ Cardinality(UpTo(Percentile(n))) > Index(n)
           /\ \A k \in Latencies : k < Percentile(n) => Cardinality(UpTo(k)) <= Index(n)
  <1> DEFINE Reaching == {l \in Latencies : Cardinality(UpTo(l)) > Index(n)}
             Reached(l) == /\ Recorded({k \in Latencies : k <= l}) > Index(n)
                           /\ \A k \in Latencies : k < l => Recorded({j \in Latencies : j <= k}) <= Index(n)
  <1>1. Count \in Nat /\ Index(n) \in Nat /\ Index(n) < Count
    <2>1. Count \in Nat \ {0}
      BY ObservationsType
    <2> QED
      BY <2>1, IndexInRange
  <1>2. \E k \in Latencies : Cardinality(UpTo(k)) > Index(n)
    <2>1. PICK k \in Latencies : UpTo(k) = 1..Count
      BY LargestObservation
    <2>2. Cardinality(UpTo(k)) = Count
      BY <2>1, UpToType
    <2> QED
      BY <1>1, <2>2
  <1>3. PICK l \in Reaching : \A k \in Reaching : l <= k
    <2>1. Reaching \in SUBSET Nat /\ Reaching # {}
      BY <1>2
    <2> HIDE DEF Reaching
    <2> QED
      BY <2>1, LeastNatural
  <1>4. \A k \in Latencies : Recorded({j \in Latencies : j <= k}) = Cardinality(UpTo(k))
                              /\ Cardinality(UpTo(k)) \in Nat
    BY UpToIsRecorded, UpToType
  <1>5. \A k \in Latencies : k < l => Cardinality(UpTo(k)) <= Index(n)
    <2> SUFFICES ASSUME NEW k \in Latencies, k < l
                 PROVE  Cardinality(UpTo(k)) <= Index(n)
      OBVIOUS
    <2>1. k \in Nat /\ l \in Nat /\ Cardinality(UpTo(k)) \in Nat
      BY <1>3, <1>4
    <2>2. k \notin Reaching
      BY <1>3, <2>1
    <2>3. ~(Cardinality(UpTo(k)) > Index(n))
      BY <2>2
    <2> QED
      BY <1>1, <2>1, <2>3
  <1>6. l \in Latencies /\ Reached(l)
    BY <1>3, <1>4, <1>5
  <1>7. Percentile(n) = CHOOSE k \in Latencies : Reached(k)
    BY DEF Percentile
  <1>8. Percentile(n) \in Latencies /\ Reached(Percentile(n))
    <2> HIDE DEF Reached
    <2> QED
      BY <1>6, <1>7
  <1> QED
    BY <1>4, <1>8

\* Were it not, the largest observation below it would reach the index as well.
LEMMA PercentileIsObserved ==
    ASSUME records \in Seq(Latencies), Count > 0, NEW n \in 0..100
    PROVE  \E i \in 1..Count : records[i] = Percentile(n)
  <1> SUFFICES ASSUME \A i \in 1..Count : records[i] # Percentile(n) PROVE FALSE
    OBVIOUS
  <1> DEFINE p == Percentile(n)
             Below == {p - records[i] : i \in UpTo(p)}
  <1>1. /\ p \in Latencies /\ Cardinality(UpTo(p)) > Index(n)
        /\ \A k \in Latencies : k < p => Cardinality(UpTo(k)) <= Index(n)
    BY PercentileAtIndex
  <1>2. Count \in Nat /\ Index(n) \in Nat
    <2>1. Count \in Nat \ {0}
      BY ObservationsType
    <2> QED
      BY <2>1, IndexInRange
  <1>3. UpTo(p) # {}
    <2>1. Cardinality({}) = 0
      BY FS_EmptySet
    <2>2. Cardinality(UpTo(p)) > Index(n)
      BY <1>1
    <2>3. ~(0 > Index(n))
      BY <1>2
    <2> HIDE DEF p
    <2> QED
      BY <2>1, <2>2, <2>3
  <1>4. \A i \in 1..Count : records[i] \in Latencies /\ records[i] \in Nat
    BY ObservationsType
  <1>5. \A i \in UpTo(p) : i \in 1..Count /\ records[i] <= p
    BY DEF UpTo, Count
  <1> HIDE DEF p
  <1>6. Below \in SUBSET Nat /\ Below # {}
    BY <1>1, <1>3, <1>4, <1>5
  <1>7. PICK i \in UpTo(p) : \A j \in UpTo(p) : p - records[i] <= p - records[j]
    <2> HIDE DEF Below
    <2>1. PICK x \in Below : \A y \in Below : x <= y
      BY <1>6, LeastNatural
    <2> USE DEF Below
    <2> QED
      BY <2>1
  <1>8. \A j \in UpTo(p) : records[j] <= records[i]
    BY <1>1, <1>4, <1>5, <1>7
  <1>9. records[i] \in Nat /\ p \in Nat /\ records[i] < p
    <2>1. records[i] # p
      BY <1>5 DEF p
    <2> QED
      BY <1>1, <1>4, <1>5, <2>1
  <1>10. UpTo(p) = UpTo(records[i])
    <2>1. ASSUME NEW j \in 1..Count
          PROVE  j \in UpTo(p) <=> j \in UpTo(records[i])
      <3>1. records[j] \in Nat
        BY <1>4
      <3>2. j \in UpTo(p) => records[j] <= records[i]
        BY <1>8
      <3> QED
        BY <1>9, <3>1, <3>2 DEF UpTo, Count
    <2>2. UpTo(p) \subseteq 1..Count /\ UpTo(records[i]) \subseteq 1..Count
      BY DEF UpTo, Count
    <2> QED
      BY <2>1, <2>2
  <1>11. Cardinality(UpTo(p)) \in Nat
    BY <1>1, <1>2, UpToType
  <1> QED
    BY <1>1, <1>2, <1>4, <1>5, <1>9, <1>10, <1>11

LEMMA PercentileBounds ==
    ASSUME records \in Seq(Latencies), Count > 0, NEW i \in 1..Count
    PROVE  Percentile(0) <= records[i] /\ records[i] <= Percentile(100)
  <1>1. Count \in Nat /\ Index(0) = 0 /\ Index(100) = Count - 1
    <2>1. Count \in Nat \ {0} /\ 0 \in 0..100
      BY ObservationsType
    <2> QED
      BY <2>1, IndexInRange
  <1>2. records[i] \in Latencies /\ records[i] \in Nat
    BY ObservationsType
  <1>3. /\ Percentile(0) \in Nat /\ Percentile(100) \in Latencies /\ Percentile(100) \in Nat
        /\ \A k \in Latencies : k < Percentile(0) => Cardinality(UpTo(k)) <= Index(0)
        /\ Cardinality(UpTo(Percentile(100))) > Index(100)
    <2>1. 0 \in 0..100 /\ 100 \in 0..100 /\ Latencies \subseteq Nat
      OBVIOUS
    <2> QED
      BY <2>1, PercentileAtIndex
  <1>4. Percentile(0) <= records[i]
    <2> SUFFICES ASSUME records[i] < Percentile(0) PROVE FALSE
      BY <1>2, <1>3
    <2>1. IsFiniteSet(UpTo(records[i])) /\ Cardinality(UpTo(records[i])) \in Nat
      BY <1>1, <1>2, UpToType
    <2>2. Cardinality(UpTo(records[i])) = 0
      <3>1. Cardinality(UpTo(records[i])) <= Index(0)
        BY <1>2, <1>3
      <3>2. Index(0) = 0
        BY <1>1
      <3> QED
        BY <2>1, <3>1, <3>2
    <2>3. UpTo(records[i]) = {}
      BY <2>1, <2>2, FS_EmptySet
    <2> QED
      BY <1>2, <2>3 DEF UpTo, Count
  <1>5. records[i] <= Percentile(100)
    <2>1. /\ UpTo(Percentile(100)) \in SUBSET (1..Count) /\ IsFiniteSet(1..Count)
          /\ Cardinality(UpTo(Percentile(100))) \in 0..Count /\ Cardinality(1..Count) = Count
      BY <1>3, UpToType
    <2>2. Cardinality(UpTo(Percentile(100))) > Count - 1
      BY <1>1, <1>3
    <2>3. Cardinality(UpTo(Percentile(100))) = Cardinality(1..Count)
      BY <1>1, <2>1, <2>2
    <2>4. UpTo(Percentile(100)) = 1..Count
      BY <2>1, <2>3, FS_Subset
    <2> QED
      BY <2>4 DEF UpTo
  <1> QED
    BY <1>4, <1>5

-----------------------------------------------------------------------------
(* The theorems.                                                            *)

\* Every variable keeps its type, and no counter counts more than the requests
\* there are: each is recorded, counted and received once at most.
THEOREM TypeCorrect == Spec => []TypeOK
  BY Invariance, InvImpliesTypeOK, PTL

\* What the load generator prints is what the server has counted and, on its
\* side alone, the requests that found no server or lost it.
THEOREM BothSides == Spec => []BothSidesAgree
  <1>1. Inv => BothSidesAgree
    <2> SUFFICES ASSUME Inv, client = "printed", main # "exit1"
                 PROVE  LET lost == Cardinality({r \in Reqs : status[r] = 0})
                        IN  received.total = total + lost /\ received.errors = errors + lost
      BY DEF BothSidesAgree
    <2> DEFINE Lost == {r \in Reqs : status[r] = 0}
    <2>1. /\ Received = Counted \cup Lost /\ Counted \cap Lost = {}
          /\ ReceivedFailed = Failed \cup Lost /\ Failed \cap Lost = {}
      BY DEF Inv, Types, Tallies, Received, ReceivedFailed, Counted, Failed, At, Failure
    <2>2. /\ IsFiniteSet(Lost) /\ IsFiniteSet(Counted) /\ IsFiniteSet(Failed)
          /\ Cardinality(Lost) \in Nat
          /\ Cardinality(Counted) \in Nat /\ Cardinality(Failed) \in Nat
      <3>1. Lost \in SUBSET Reqs
        OBVIOUS
      <3> QED
        BY <3>1, SetsOfReqs, FiniteReqs
    <2>3. Cardinality(Counted \cup Lost) = Cardinality(Counted) + Cardinality(Lost)
      <3> HIDE DEF Lost
      <3>1. Cardinality(Counted \cap Lost) = 0
        BY <2>1, FS_EmptySet
      <3>2. Cardinality(Counted \cup Lost) =
                Cardinality(Counted) + Cardinality(Lost) - Cardinality(Counted \cap Lost)
        BY <2>2, FS_Union
      <3> QED
        BY <2>2, <3>1, <3>2
    <2>4. Cardinality(Failed \cup Lost) = Cardinality(Failed) + Cardinality(Lost)
      <3> HIDE DEF Lost
      <3>1. Cardinality(Failed \cap Lost) = 0
        BY <2>1, FS_EmptySet
      <3>2. Cardinality(Failed \cup Lost) =
                Cardinality(Failed) + Cardinality(Lost) - Cardinality(Failed \cap Lost)
        BY <2>2, FS_Union
      <3> QED
        BY <2>2, <3>1, <3>2
    <2> QED
      BY <2>1, <2>3, <2>4 DEF Inv, Bounds, Tallies
  <1> QED
    BY <1>1, Invariance, PTL

\* /health calls a server that is Healthy or Unhealthy throughout so, and never
\* calls one Unhealthy that is Degraded throughout.
THEOREM Steady == Spec => SteadyVerdict
  <1>1. Inv /\ [Next]_vars =>
            [EndCheck => /\ moments = {"Healthy"} => verdict' = "Healthy"
                         /\ moments = {"Degraded"} => verdict' # "Unhealthy"
                         /\ moments = {"Unhealthy"} => verdict' = "Unhealthy"]_vars
    <2> SUFFICES ASSUME Inv, EndCheck
                 PROVE  /\ moments = {"Healthy"} => verdict' = "Healthy"
                        /\ moments = {"Degraded"} => verdict' # "Unhealthy"
                        /\ moments = {"Unhealthy"} => verdict' = "Unhealthy"
      OBVIOUS
    <2> QED
      BY DEF EndCheck, Inv, Types, Moments, Verdicts
  <1> QED
    BY <1>1, Invariance, PTL DEF Spec, SteadyVerdict

\* The histogram and the error tracker, each under its own lock, describe the same
\* requests but for those that are between the two.
THEOREM Agreement == Spec => []MetricsAgree
  <1>1. Inv => MetricsAgree
    BY DEF Inv, Tallies, MetricsAgree, At
  <1> QED
    BY <1>1, Invariance, PTL

\* A percentile is one of the observations; none is below the 0th or above the
\* 100th.
THEOREM Percentiles == Spec => []PercentilesSpanRecords
  <1>1. Inv => PercentilesSpanRecords
    <2> SUFFICES ASSUME records \in Seq(Latencies), Count > 0
                 PROVE  /\ \A n \in DOMAIN Thresholds \cup {0, 100} :
                               \E i \in 1..Count : records[i] = Percentile(n)
                        /\ \A i \in 1..Count : /\ Percentile(0) <= records[i]
                                               /\ records[i] <= Percentile(100)
      BY DEF Inv, Types, PercentilesSpanRecords
    <2>1. ASSUME NEW n \in 0..100
          PROVE  \E i \in 1..Count : records[i] = Percentile(n)
      BY <2>1, PercentileIsObserved
    <2>2. ASSUME NEW i \in 1..Count
          PROVE  Percentile(0) <= records[i] /\ records[i] <= Percentile(100)
      BY <2>2, PercentileBounds
    <2>3. DOMAIN Thresholds \cup {0, 100} \subseteq 0..100
      OBVIOUS
    <2> QED
      BY <2>1, <2>2, <2>3
  <1> QED
    BY <1>1, Invariance, PTL
=============================================================================
