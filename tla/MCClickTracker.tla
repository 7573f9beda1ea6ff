---------------------------- MODULE MCClickTracker ----------------------------
(* ClickTracker on small instances. *)
EXTENDS ClickTracker

CONSTANTS k1, k2, k3, k4

FourClicks == {k1, k2, k3, k4}
=============================================================================
