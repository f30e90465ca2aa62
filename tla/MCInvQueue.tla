----------------------------- MODULE MCInvQueue -----------------------------
(* Two CPUs and two units whose rings hold three descriptors, so that the  *)
(* request and its wait descriptor often lie on both sides of the wrap.    *)
EXTENDS InvQueue, TLC

CONSTANTS c1, c2

MCCPUs == {c1, c2}
MCJobs == {"domain", "irte"}
=============================================================================
