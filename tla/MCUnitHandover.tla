--------------------------- MODULE MCUnitHandover ---------------------------
(* Two units with queues of three descriptors: Linux's position in them    *)
(* differs at each handover, and the third descriptor takes it round to    *)
(* slot 0 again.                                                           *)
EXTENDS UnitHandover, TLC

\* What vtd_init accepts or refuses by its rules.
MCConfigs ==
  {[u \in {0, 1} |-> "on"], [u \in {0, 1} |-> "off"],
   (0 :> "on" @@ 1 :> "off"), (0 :> "on" @@ 1 :> "other"),
   (0 :> "other" @@ 1 :> "off")}

\* IR and QI are on in some units only.
MCMixed == {(0 :> "off" @@ 1 :> "on"), (0 :> "on" @@ 1 :> "off")}
=============================================================================
