---------------------------- MODULE MCPioAccess ----------------------------
(* Whitelists from four regions: one with neither special register, one    *)
(* around the i8042 command register, one that is the command register     *)
(* alone, and one that reaches into the PM timer's ports; they overlap     *)
(* each other in part.                                                     *)
EXTENDS PioAccess, TLC

CONSTANTS root, t1, t2

MCTargets == {root, t1, t2}
MCPorts == 0 .. 11
MCPmTimer == 8 .. 11

MCRegions ==
  {[base |-> 0, length |-> 3], [base |-> 2, length |-> 4],
   [base |-> 4, length |-> 1], [base |-> 7, length |-> 2]}

MCConfigs == [MCTargets -> SUBSET MCRegions]
=============================================================================
