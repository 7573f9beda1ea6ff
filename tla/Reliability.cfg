SPECIFICATION FairSpec
CONSTANTS
    q1 = q1
    q2 = q2
    q3 = q3
    Reqs <- ThreeReqs
    Faults <- BothFaults
    Latencies <- TwoLatencies
    Thresholds <- SomeThresholds
    MaxErrorRate = 50
CHECK_DEADLOCK FALSE
INVARIANTS
    TypeOK
    MetricsAgree
    BothSidesAgree
    PercentilesSpanRecords
PROPERTIES
    SteadyVerdict
    OnlyHangsHoldUp
    SignalFreesClient
