---------------------------- MODULE MCNmiEvents ----------------------------
(* The CPUs do not interact but through the posters: two of them suffice.  *)
EXTENDS NmiEvents, TLC

CONSTANTS c1, c2

MCCPUs == {c1, c2}
=============================================================================
