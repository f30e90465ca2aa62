------------------------ MODULE FaultReporting_proofs ------------------------
(***************************************************************************)
(* vtd_init_fault_nmi closes its race window, for every number of units    *)
(* and CPUs: whenever it is not at work, a recorded fault is on its way to *)
(* the CPU that fault_reporting_cpu_id names, as long as no unit has more  *)
(* than one fault pending (MCFaultBurst shows why that is needed).         *)
(***************************************************************************)
EXTENDS FaultReporting, FiniteSetTheorems, TLAPS

\* The unit has been reprogrammed by the running or the last call.
Programmed(u) == dest[u] = reporter /\ ~mask[u]

\* How far vtd_init_fault_nmi is: the units before its loop counter, and all
\* of them once the loop is over, report to the reporting CPU.
Progress ==
  /\ \A u \in UnitIds :
       step \in {"kick", "idle"} \/ u < unit => Programmed(u)
  /\ step = "unmask" => dest[unit] = reporter

\* No unit has two faults pending.
OneFault == \A u \in UnitIds : \A r, s \in faults[u] : r = s

IInv == TypeOK /\ Progress /\ OneFault /\ FaultNotForgotten

\* With room for one fault, a unit that can record one has none.
LEMMA RoomIsEmpty ==
  ASSUME NEW S \in SUBSET RecordIds, Cardinality(S) < 1
  PROVE  S = {}
<1>1. IsFiniteSet(RecordIds)
  BY FaultAssumption, FS_Interval DEF RecordIds
<1>2. IsFiniteSet(S)
  BY <1>1, FS_Subset
<1>3. Cardinality(S) \in Nat /\ (Cardinality(S) = 0 <=> S = {})
  BY <1>2, FS_CardinalityType, FS_EmptySet
<1> QED
  BY <1>3

\* iommu_check_pending_faults clears the record FRI names: the only one.
LEMMA OnlyFaultCleared ==
  ASSUME NEW S \in SUBSET RecordIds, \A r, s \in S : r = s, S # {}
  PROVE  S \ {Min(S)} = {}
<1>1. PICK r \in S : S = {r}
  OBVIOUS
<1>2. r \in Int
  BY FaultAssumption DEF RecordIds
<1>3. Min({r}) = r
  BY <1>2, SMT DEF Min
<1> QED
  BY <1>1, <1>3

LEMMA InitType == Init => TypeOK
BY FaultAssumption DEF Init, TypeOK, UnitIds, RecordIds, Idle

LEMMA InitIInv == Init => IInv
BY InitType, FaultAssumption
   DEF Init, IInv, TypeOK, Progress, Programmed, OneFault, FaultNotForgotten, UnitIds

LEMMA StepType ==
  ASSUME TypeOK, [Next]_vars
  PROVE  TypeOK'
<1> USE FaultAssumption
<1>1. ASSUME NEW u \in UnitIds, Fault(u) PROVE TypeOK'
  <2>1. faults' \in [UnitIds -> SUBSET RecordIds]
    BY <1>1 DEF Fault, TypeOK
  <2>2. latch' \in [UnitIds -> BOOLEAN]
    BY <1>1, Zenon DEF Fault, TypeOK
  <2>3. flying' \in [UnitIds -> SUBSET CPUs]
    <3>1. flying' = flying \/ flying' = [flying EXCEPT ![u] = @ \cup {dest[u]}]
      BY <1>1, Zenon DEF Fault
    <3> QED
      BY <3>1 DEF TypeOK
  <2> QED
    BY <1>1, <2>1, <2>2, <2>3 DEF Fault, TypeOK, setupVars
<1>2. ASSUME NEW u \in UnitIds, Deliver(u) PROVE TypeOK'
  BY <1>2 DEF Deliver, TypeOK, setupVars
<1>3. ASSUME NEW c \in CPUs, CheckBegin(c) PROVE TypeOK'
  BY <1>3 DEF CheckBegin, TypeOK, unitVars, setupVars, UnitIds, Idle
<1>4. ASSUME NEW c \in CPUs, CheckUnit(c) PROVE TypeOK'
  <2>1. faults' \in [UnitIds -> SUBSET RecordIds]
    BY <1>4 DEF CheckUnit, TypeOK
  <2>2. latch' \in [UnitIds -> BOOLEAN]
    BY <1>4, Zenon DEF CheckUnit, TypeOK
  <2>3. check' \in [CPUs -> UnitIds \cup {Idle}]
    BY <1>4 DEF CheckUnit, TypeOK, UnitIds, Idle
  <2> QED
    BY <1>4, <2>1, <2>2, <2>3 DEF CheckUnit, TypeOK, setupVars
<1>5. CASE Select
  BY <1>5 DEF Select, TypeOK, unitVars, UnitIds
<1>6. CASE Mask
  BY <1>6 DEF Mask, TypeOK
<1>7. CASE Drain
  BY <1>7 DEF Drain, TypeOK, unitVars
<1>8. CASE Program
  BY <1>8 DEF Program, TypeOK, unitVars
<1>9. CASE Unmask
  BY <1>9 DEF Unmask, TypeOK, UnitIds
<1>10. CASE Kick
  BY <1>10 DEF Kick, TypeOK, unitVars
<1>11. CASE UNCHANGED vars
  BY <1>11 DEF vars, unitVars, setupVars, TypeOK
<1> QED
  BY <1>1, <1>2, <1>3, <1>4, <1>5, <1>6, <1>7, <1>8, <1>9, <1>10, <1>11
     DEF Next, Setup

\* Every recorded fault is typed, whatever is in flight, for every burst.
THEOREM FaultTypeCorrect == Spec => []TypeOK
BY InitType, StepType, PTL DEF Spec

LEMMA StepIInv ==
  ASSUME Burst = 1, IInv, [Next]_vars
  PROVE  IInv'
<1> USE FaultAssumption DEF IInv
<1>0. TypeOK'
  BY StepType
<1>1. ASSUME NEW u \in UnitIds, Fault(u) PROVE IInv'
  <2>1. faults[u] = {}
    BY <1>1, RoomIsEmpty DEF Fault, TypeOK
  <2>2. PICK r \in RecordIds : faults' = [faults EXCEPT ![u] = {r}]
    BY <1>1, <2>1 DEF Fault
  <2>3. Progress'
    BY <1>1 DEF Fault, Progress, Programmed, setupVars
  <2>4. OneFault'
    BY <2>2 DEF OneFault, TypeOK
  <2>5. FaultNotForgotten'
    <3> SUFFICES ASSUME NEW v \in UnitIds, faults'[v] # {}, step = "idle"
                 PROVE  reporter \in flying'[v] \cup nmi \/ latch'[v]
                        \/ check[reporter] \in 0 .. v
      BY <1>1 DEF Fault, FaultNotForgotten, setupVars
    <3>1. CASE v = u
      <4>1. dest[u] = reporter /\ ~mask[u]
        BY DEF Progress, Programmed
      <4>2. flying' = [flying EXCEPT ![u] = @ \cup {reporter}]
        BY <1>1, <2>1, <4>1 DEF Fault
      <4> QED
        BY <3>1, <4>2 DEF TypeOK
    <3>2. CASE v # u
      <4>1. faults[v] # {} /\ flying'[v] = flying[v] /\ latch'[v] = latch[v]
        BY <1>1, <2>2, <3>2 DEF Fault, TypeOK
      <4> QED
        BY <4>1 DEF FaultNotForgotten
    <3> QED
      BY <3>1, <3>2
  <2> QED
    BY <1>0, <2>3, <2>4, <2>5
<1>2. ASSUME NEW u \in UnitIds, Deliver(u) PROVE IInv'
  <2>1. PICK c \in flying[u] : /\ flying' = [flying EXCEPT ![u] = @ \ {c}]
                               /\ nmi' = nmi \cup {c}
                               /\ UNCHANGED <<faults, mask, latch, setupVars, check>>
    BY <1>2 DEF Deliver
  <2>2. Progress' /\ OneFault'
    BY <2>1 DEF Progress, Programmed, OneFault, setupVars
  <2>3. FaultNotForgotten'
    BY <2>1 DEF FaultNotForgotten, setupVars, TypeOK
  <2> QED
    BY <1>0, <2>2, <2>3
<1>3. ASSUME NEW c \in CPUs, CheckBegin(c) PROVE IInv'
  <2>1. Progress' /\ OneFault'
    BY <1>3 DEF CheckBegin, Progress, Programmed, OneFault, unitVars, setupVars
  <2>2. FaultNotForgotten'
    <3> SUFFICES ASSUME NEW v \in UnitIds, faults[v] # {}, step = "idle"
                 PROVE  reporter \in flying[v] \cup nmi' \/ latch[v]
                        \/ check'[reporter] \in 0 .. v
      BY <1>3 DEF CheckBegin, FaultNotForgotten, unitVars, setupVars
    <3>1. CASE c = reporter
      <4>1. check'[reporter] = 0
        BY <1>3, <3>1 DEF CheckBegin, TypeOK
      <4> QED
        BY <4>1 DEF UnitIds
    <3>2. CASE c # reporter
      <4>1. check'[reporter] = check[reporter] /\ (reporter \in nmi => reporter \in nmi')
        BY <1>3, <3>2 DEF CheckBegin, TypeOK
      <4> QED
        BY <4>1 DEF FaultNotForgotten
    <3> QED
      BY <3>1, <3>2
  <2> QED
    BY <1>0, <2>1, <2>2
<1>4. ASSUME NEW c \in CPUs, CheckUnit(c) PROVE IInv'
  <2> DEFINE w == check[c]
  <2>1. w \in UnitIds
    BY <1>4 DEF CheckUnit, TypeOK
  <2>2. faults' = [faults EXCEPT ![w] = {}]
    <3>1. CASE faults[w] = {}
      BY <1>4, <2>1, <3>1 DEF CheckUnit, TypeOK
    <3>2. CASE faults[w] # {}
      <4>1. faults[w] \ {Min(faults[w])} = {}
        BY <2>1, <3>2, OnlyFaultCleared DEF OneFault, TypeOK
      <4>2. faults' = [faults EXCEPT ![w] = faults[w] \ {Min(faults[w])}]
        BY <1>4, <3>2 DEF CheckUnit
      <4> QED
        BY <4>1, <4>2
    <3> QED
      BY <3>1, <3>2
  <2>3. \A v \in UnitIds \ {w} : faults'[v] = faults[v] /\ latch'[v] = latch[v]
    BY <1>4, <2>2 DEF CheckUnit, TypeOK
  <2>4. Progress'
    BY <1>4 DEF CheckUnit, Progress, Programmed, setupVars
  <2>5. OneFault'
    BY <2>1, <2>2 DEF OneFault, TypeOK
  <2>6. FaultNotForgotten'
    <3> SUFFICES ASSUME NEW v \in UnitIds, faults'[v] # {}, step = "idle"
                 PROVE  reporter \in flying[v] \cup nmi \/ latch'[v]
                        \/ check'[reporter] \in 0 .. v
      BY <1>4 DEF CheckUnit, FaultNotForgotten, setupVars
    <3>1. v # w
      BY <2>1, <2>2 DEF TypeOK
    <3>2. faults[v] # {} /\ latch'[v] = latch[v]
      BY <2>3, <3>1
    <3>3. CASE check[reporter] \in 0 .. v
      <4>1. CASE c = reporter
        <5>1. w < v /\ w + 1 \in 0 .. v /\ w + 1 < Units
          BY <2>1, <3>1, <3>3, <4>1 DEF UnitIds
        <5>2. check'[reporter] = w + 1
          BY <1>4, <4>1, <5>1 DEF CheckUnit, TypeOK
        <5> QED
          BY <5>1, <5>2
      <4>2. CASE c # reporter
        <5>1. check'[reporter] = check[reporter]
          BY <1>4, <4>2 DEF CheckUnit, TypeOK
        <5> QED
          BY <3>3, <5>1
      <4> QED
        BY <4>1, <4>2
    <3> QED
      BY <3>2, <3>3 DEF FaultNotForgotten
  <2> QED
    BY <1>0, <2>4, <2>5, <2>6
<1>5. CASE Select
  BY <1>0, <1>5
     DEF Select, Progress, OneFault, FaultNotForgotten, unitVars, UnitIds
<1>6. CASE Mask
  BY <1>0, <1>6
     DEF Mask, Progress, Programmed, OneFault, FaultNotForgotten, UnitIds, TypeOK
<1>7. CASE Drain
  BY <1>0, <1>7
     DEF Drain, Progress, Programmed, OneFault, FaultNotForgotten, unitVars
<1>8. CASE Program
  BY <1>0, <1>8
     DEF Program, Progress, Programmed, OneFault, FaultNotForgotten, unitVars, TypeOK
<1>9. CASE Unmask
  <2>1. OneFault' /\ FaultNotForgotten'
    BY <1>9 DEF Unmask, OneFault, FaultNotForgotten
  <2>2. ASSUME NEW v \in UnitIds, v <= unit PROVE Programmed(v)'
    BY <1>9, <2>2 DEF Unmask, Progress, Programmed, UnitIds, TypeOK
  <2>3. unit \in UnitIds
    BY DEF TypeOK
  <2>4. CASE unit + 1 < Units
    <3>1. step' = "mask" /\ unit' = unit + 1
      BY <1>9, <2>4 DEF Unmask
    <3>2. \A v \in UnitIds : v < unit' => v <= unit
      BY <2>3, <3>1 DEF UnitIds
    <3> QED
      BY <1>0, <2>1, <2>2, <3>1, <3>2 DEF Progress
  <2>5. CASE ~(unit + 1 < Units)
    <3>1. step' = "kick"
      BY <1>9, <2>5 DEF Unmask
    <3>2. \A v \in UnitIds : v <= unit
      BY <2>3, <2>5 DEF UnitIds
    <3> QED
      BY <1>0, <2>1, <2>2, <3>1, <3>2 DEF Progress
  <2> QED
    BY <1>0, <2>1, <2>4, <2>5
<1>10. CASE Kick
  BY <1>0, <1>10
     DEF Kick, Progress, Programmed, OneFault, FaultNotForgotten, unitVars
<1>11. CASE UNCHANGED vars
  BY <1>0, <1>11
     DEF vars, unitVars, setupVars, Progress, Programmed, OneFault, FaultNotForgotten
<1> QED
  BY <1>1, <1>2, <1>3, <1>4, <1>5, <1>6, <1>7, <1>8, <1>9, <1>10, <1>11
     DEF Next, Setup

\* Whenever vtd_init_fault_nmi is not at work, every recorded fault is on its
\* way to the reporting CPU, although CPU and units changed while it was being
\* signalled.
THEOREM FaultNotForgottenHolds ==
  ASSUME Burst = 1
  PROVE  Spec => []FaultNotForgotten
<1>1. IInv /\ [Next]_vars => IInv'
  BY StepIInv
<1>2. IInv => FaultNotForgotten
  BY DEF IInv
<1> QED
  BY InitIInv, <1>1, <1>2, PTL DEF Spec
=============================================================================
