---------------------------- MODULE MCDevServer ----------------------------
(* DevServer on small instances. *)
EXTENDS DevServer

CONSTANTS c1, c2, u1, u2, r1, r2, r3

TwoCodes == {c1, c2}
TwoUrls == {u1, u2}
TwoReqs == {r1, r2}
ThreeReqs == {r1, r2, r3}
ExpireAtOne == {1}
=============================================================================
