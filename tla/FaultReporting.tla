--------------------------- MODULE FaultReporting ---------------------------
(***************************************************************************)
(* Reporting of DMA and interrupt faults by the VT-d units                 *)
(* (hypervisor/arch/x86/vtd.c).  A unit that records a fault sends an NMI  *)
(* to the CPU programmed into its registers.  vtd_init_fault_nmi, run on   *)
(* each change of the configuration, picks a new reporting CPU and         *)
(* reprograms the units one by one while they keep recording faults; the   *)
(* CPUs that get an NMI run iommu_check_pending_faults, which looks at the *)
(* units only on the CPU that fault_reporting_cpu_id names.  The units are *)
(* external, as is the way from an NMI to the check (NmiEvents).           *)
(***************************************************************************)
EXTENDS Integers, FiniteSetsExt

CONSTANTS
  CPUs,
  Units,    \* dmar_units
  Records,  \* fault recording registers of a unit
  Burst     \* faults a unit has pending at most

ASSUME FaultAssumption ==
  /\ Units \in Nat \ {0}
  /\ Records \in Nat \ {0}
  /\ Burst \in 1 .. Records

VARIABLES
  reporter,  \* fault_reporting_cpu_id
  faults,    \* records of each unit with F set
  dest,      \* CPU programmed into FEADDR
  mask,      \* FECTL.IM
  latch,     \* FECTL.IP: an event waits for IM to be cleared
  flying,    \* CPUs with an interrupt message of the unit on its way
  nmi,       \* CPUs with a pending NMI
  check,     \* the unit a CPU looks at in iommu_check_pending_faults
  step, unit \* where vtd_init_fault_nmi is, and its loop counter

unitVars == <<faults, mask, latch, flying>>
setupVars == <<reporter, dest, step, unit>>
vars == <<unitVars, setupVars, nmi, check>>

UnitIds == 0 .. Units - 1
RecordIds == 0 .. Records - 1

Idle == -1

\* The first configuration commit has just selected a reporting CPU; the units
\* are still as Linux programmed them.
Init ==
  /\ reporter \in CPUs
  /\ faults = [u \in UnitIds |-> {}]
  /\ dest \in [UnitIds -> CPUs]
  /\ mask \in [UnitIds -> BOOLEAN]
  /\ latch = [u \in UnitIds |-> FALSE]
  /\ flying = [u \in UnitIds |-> {}]
  /\ nmi = {}
  /\ check = [c \in CPUs |-> Idle]
  /\ step = "mask"
  /\ unit = 0

-----------------------------------------------------------------------------
(* The units                                                               *)

\* A fault is recorded.  Only the first one pending raises an event, which
\* waits while the event is masked.
Fault(u) ==
  /\ Cardinality(faults[u]) < Burst
  /\ \E r \in RecordIds \ faults[u] :
       faults' = [faults EXCEPT ![u] = @ \cup {r}]
  /\ IF faults[u] # {}
     THEN UNCHANGED <<latch, flying>>
     ELSE IF mask[u]
          THEN latch' = [latch EXCEPT ![u] = TRUE] /\ UNCHANGED flying
          ELSE flying' = [flying EXCEPT ![u] = @ \cup {dest[u]}] /\ UNCHANGED latch
  /\ UNCHANGED <<mask, setupVars, nmi, check>>

Deliver(u) ==
  \E c \in flying[u] :
    /\ flying' = [flying EXCEPT ![u] = @ \ {c}]
    /\ nmi' = nmi \cup {c}
    /\ UNCHANGED <<faults, mask, latch, setupVars, check>>

-----------------------------------------------------------------------------
(* iommu_check_pending_faults                                              *)

\* The NMI led to a check of events; the function returns at once on a CPU
\* that is not the reporting one.
CheckBegin(c) ==
  /\ c \in nmi /\ check[c] = Idle
  /\ nmi' = nmi \ {c}
  /\ check' = [check EXCEPT ![c] = IF reporter = c THEN 0 ELSE Idle]
  /\ UNCHANGED <<unitVars, setupVars>>

\* Slip: run the loop once too often.
CheckUnitPast(c) ==
  LET u == check[c] IN
  /\ u # Idle
  /\ faults' = [faults EXCEPT ![u] = IF @ = {} THEN @ ELSE @ \ {Min(@)}]
  /\ latch' = [latch EXCEPT ![u] = @ /\ faults'[u] # {}]
  /\ check' = [check EXCEPT ![c] = IF u + 1 <= Units THEN u + 1 ELSE Idle]
  /\ UNCHANGED <<mask, flying, setupVars, nmi>>

\* One unit of the loop: if PPF is set, print the record FRI names and clear
\* it; the unit drops a latched event when nothing is pending any more.
CheckUnit(c) ==
  LET u == check[c] IN
  /\ u # Idle
  /\ faults' = [faults EXCEPT ![u] = IF @ = {} THEN @ ELSE @ \ {Min(@)}]
  /\ latch' = [latch EXCEPT ![u] = @ /\ faults'[u] # {}]
  /\ check' = [check EXCEPT ![c] = IF u + 1 < Units THEN u + 1 ELSE Idle]
  /\ UNCHANGED <<mask, flying, setupVars, nmi>>

-----------------------------------------------------------------------------
(* vtd_init_fault_nmi                                                      *)

Select ==
  /\ step = "idle"
  /\ reporter' \in CPUs
  /\ step' = "mask"
  /\ unit' = 0
  /\ UNCHANGED <<unitVars, dest, nmi, check>>

Mask ==
  /\ step = "mask"
  /\ mask' = [mask EXCEPT ![unit] = TRUE]
  /\ step' = "drain"
  /\ UNCHANGED <<faults, latch, flying, reporter, dest, unit, nmi, check>>

\* The read of FECTL returns when no message is on its way any more.
Drain ==
  /\ step = "drain"
  /\ flying[unit] = {}
  /\ step' = "program"
  /\ UNCHANGED <<unitVars, reporter, dest, unit, nmi, check>>

Program ==
  /\ step = "program"
  /\ dest' = [dest EXCEPT ![unit] = reporter]
  /\ step' = "unmask"
  /\ UNCHANGED <<unitVars, reporter, unit, nmi, check>>

\* Clearing IM releases a latched event.
Unmask ==
  /\ step = "unmask"
  /\ mask' = [mask EXCEPT ![unit] = FALSE]
  /\ latch' = [latch EXCEPT ![unit] = FALSE]
  /\ flying' = IF latch[unit] THEN [flying EXCEPT ![unit] = @ \cup {dest[unit]}]
               ELSE flying
  /\ step' = IF unit + 1 < Units THEN "mask" ELSE "kick"
  /\ unit' = IF unit + 1 < Units THEN unit + 1 ELSE 0
  /\ UNCHANGED <<faults, reporter, dest, nmi, check>>

\* Slip: rely on the units alone.
KickDropped ==
  /\ step = "kick"
  /\ step' = "idle"
  /\ UNCHANGED <<unitVars, reporter, dest, unit, nmi, check>>

\* The NMI to the new reporting CPU that closes the race window.
Kick ==
  /\ step = "kick"
  /\ nmi' = nmi \cup {reporter}
  /\ step' = "idle"
  /\ UNCHANGED <<unitVars, reporter, dest, unit, check>>

Setup == Mask \/ Drain \/ Program \/ Unmask \/ Kick

Next ==
  \/ \E u \in UnitIds : Fault(u) \/ Deliver(u)
  \/ \E c \in CPUs : CheckBegin(c) \/ CheckUnit(c)
  \/ Select \/ Setup

Spec == Init /\ [][Next]_vars

\* Messages arrive, NMIs lead to a check, and code runs on; nobody has to
\* change the configuration, and no fault has to occur.
FairSpec ==
  /\ Spec
  /\ WF_vars(Setup)
  /\ \A u \in UnitIds : WF_vars(Deliver(u))
  /\ \A c \in CPUs : WF_vars(CheckBegin(c)) /\ WF_vars(CheckUnit(c))

-----------------------------------------------------------------------------
TypeOK ==
  /\ reporter \in CPUs
  /\ faults \in [UnitIds -> SUBSET RecordIds]
  /\ dest \in [UnitIds -> CPUs]
  /\ mask \in [UnitIds -> BOOLEAN]
  /\ latch \in [UnitIds -> BOOLEAN]
  /\ flying \in [UnitIds -> SUBSET CPUs]
  /\ nmi \subseteq CPUs
  /\ check \in [CPUs -> UnitIds \cup {Idle}]
  /\ step \in {"idle", "mask", "drain", "program", "unmask", "kick"}
  /\ unit \in UnitIds

\* A recorded fault is always on its way to being reported: an event waits
\* in the unit, a message flies, an NMI or a running check will see it, or
\* vtd_init_fault_nmi has still to kick the reporting CPU.
FaultNotForgotten ==
  \A u \in UnitIds : faults[u] # {} /\ step = "idle" =>
    \/ latch[u]
    \/ reporter \in flying[u] \cup nmi
    \/ check[reporter] \in 0 .. u

\* Every fault is reported even if the reporting CPU changed while it was
\* being signalled, the race window vtd_init_fault_nmi describes, provided
\* that the configuration does not go on changing forever.
FaultReported ==
  <>[](step = "idle") =>
    \A u \in UnitIds, r \in RecordIds : r \in faults[u] ~> r \notin faults[u]
=============================================================================
