---------------------------- MODULE MCShortLinks ----------------------------
(* ShortLinks on small instances. *)
EXTENDS ShortLinks

CONSTANTS c1, c2, u1, u2, r1, r2

TwoCodes == {c1, c2}
TwoUrls == {u1, u2}
OneUrl == {u1}
TwoReqs == {r1, r2}

\* Links that expire at time 2, while requests are under way.
ExpireAtTwo == {2}
=============================================================================
