---------------------------- MODULE MCTicketLock ----------------------------
(* Four CPUs and four tickets: both halves wrap often, and the lock word is *)
(* as crowded as LockAssumption allows.                                    *)
EXTENDS TicketLock, TLC

CONSTANTS c1, c2, c3, c4

MCCPUs == {c1, c2, c3, c4}
=============================================================================
