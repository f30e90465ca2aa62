----------------------------- MODULE MCIntRemap -----------------------------
(* Three devices on two buses and an interrupt chip compete for four table *)
(* entries and three pages, so that both run out; a device with two vectors *)
(* finds its run in different places as the others come and go.            *)
EXTENDS IntRemap, TLC

CONSTANTS c1, c2, d1, d2, d3, chip, root, other

MCVectors == d1 :> 2 @@ d2 :> 1 @@ d3 :> 1 @@ chip :> 1
MCBus == d1 :> 0 @@ d2 :> 0 @@ d3 :> 1
=============================================================================
