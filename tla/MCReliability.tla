--------------------------- MODULE MCReliability ---------------------------
(* Reliability on small instances. *)
EXTENDS Reliability, TLC

CONSTANTS q1, q2, q3

ThreeReqs == {q1, q2, q3}
BothFaults == {"hung", "failed"}
TwoLatencies == {1, 2}

\* 1 is acceptable and 2 is too slow, for the median and for p99.
SomeThresholds == (50 :> 1) @@ (99 :> 1)
=============================================================================
