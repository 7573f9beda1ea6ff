---------------------------- MODULE MCRateLimiter ----------------------------
(* RateLimiter on small instances. *)
EXTENDS RateLimiter

CONSTANTS i1, i2, g1, g2, l1, l2

TwoIps == {i1, i2}
TwoReqs == {g1, g2}
TwoLimiters == {l1, l2}
=============================================================================
