-------------------------- MODULE MCFaultReporting --------------------------
(* Two units, of which one may be reprogrammed and the other not yet, and  *)
(* two CPUs between which the reporting changes.                           *)
EXTENDS FaultReporting, TLC

CONSTANTS c1, c2

MCCPUs == {c1, c2}
=============================================================================
