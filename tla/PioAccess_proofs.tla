-------------------------- MODULE PioAccess_proofs --------------------------
(***************************************************************************)
(* Which ports the targets share, for every set of targets, every set of   *)
(* ports and every configuration, overlapping whitelists included, in      *)
(* whatever order the targets come and go.                                 *)
(***************************************************************************)
EXTENDS PioAccess, FiniteSetTheorems, TLAPS

\* The bits vcpu_target_init sets in the bitmap of a new target.
OwnBits(t) == ((Ports \ Whitelist(t)) \cup {CmdReg}) \ PmTimer

\* The root target comes first, only finitely many targets exist, and the
\* bitmap of a target other than the root target stays as it was made.
Shape ==
  /\ IsFiniteSet(active)
  /\ active # {} => Root \in active
  /\ \A t \in active \ {Root} : trapped[t] = OwnBits(t)

IInv == TypeOK /\ Shape /\ RootPorts

\* What RootPorts says of one port while the root target exists.
RootPort(p) ==
  /\ p \in Direct(Root) => p \in Whitelist(Root)
  /\ Users(p) \cap active = {} =>
       (p \in Direct(Root) <=> p \in Whitelist(Root))
  /\ p \in Direct(Root) => Users(p) = {} \/ ~ (Users(p) \subseteq active)

\* A whitelist names ports only, and what it consists of are its entries.
LEMMA WhitelistPorts ==
  ASSUME config \in Configs, NEW t \in Targets
  PROVE  Whitelist(t) \subseteq Ports
<1>1. config[t] \subseteq Region
  BY PioAssumption
<1> QED
  BY <1>1 DEF Whitelist, Region

\* The interval vcpu_target_exit computes from two entries, from the larger
\* start to the smaller end, is their intersection.
LEMMA OverlapIsIntersection ==
  ASSUME NEW r \in Region, NEW s \in Region
  PROVE  Overlap(r, s) = PortsOf(r) \cap PortsOf(s)
<1>1. Cardinality(Ports) \in Nat /\ Ports \subseteq Int
  BY PioAssumption, FS_CardinalityType
<1>2. 1 .. Cardinality(Ports) \subseteq Int
  BY <1>1
<1>3. /\ r.base \in Int /\ r.length \in Int
      /\ s.base \in Int /\ s.length \in Int
  BY <1>1, <1>2, Zenon DEF Region
<1>4. Max({r.base, s.base}) = IF r.base >= s.base THEN r.base ELSE s.base
  BY <1>3, SMT DEF Max
<1>5. Min({r.base + r.length, s.base + s.length})
        = IF r.base + r.length <= s.base + s.length
          THEN r.base + r.length ELSE s.base + s.length
  BY <1>3, SMT DEF Min
<1> QED
  BY <1>3, <1>4, <1>5 DEF Overlap, PortsOf

\* So the root target gets back exactly the ports both whitelists name.
LEMMA RefundIsIntersection ==
  ASSUME config \in Configs, NEW t \in Targets
  PROVE  Refund(t) = Whitelist(t) \cap Whitelist(Root)
<1>1. config[t] \subseteq Region /\ config[Root] \subseteq Region
  BY PioAssumption
<1>2. \A r \in config[t], s \in config[Root] :
         Overlap(r, s) = PortsOf(r) \cap PortsOf(s)
  BY <1>1, OverlapIsIntersection
<1>3. ASSUME NEW p
      PROVE  p \in Refund(t) <=>
               \E r \in config[t], s \in config[Root] :
                 p \in PortsOf(r) /\ p \in PortsOf(s)
  BY <1>2 DEF Refund
<1>4. ASSUME NEW p
      PROVE  p \in Whitelist(t) \cap Whitelist(Root) <=>
               \E r \in config[t], s \in config[Root] :
                 p \in PortsOf(r) /\ p \in PortsOf(s)
  BY DEF Whitelist
<1> QED
  BY <1>3, <1>4

LEMMA InitIInv == Init => IInv
<1> SUFFICES ASSUME Init PROVE IInv
  OBVIOUS
<1>1. IsFiniteSet(active) /\ Cardinality(active) = 0
  BY FS_EmptySet DEF Init
<1>2. TypeOK
  BY <1>1, PioAssumption DEF Init, TypeOK
<1> QED
  BY <1>1, <1>2 DEF Init, IInv, Shape, RootPorts

\* A target is created: the root target's bitmap loses its ports.
LEMMA TargetInitIInv ==
  ASSUME IInv, NEW t \in Targets, TargetInit(t)
  PROVE  IInv'
<1>0. config' = config /\ config \in Configs
  BY DEF TargetInit, IInv, TypeOK
<1>1. \A s \in Targets : Whitelist(s)' = Whitelist(s) /\ Whitelist(s) \subseteq Ports
  BY <1>0, WhitelistPorts DEF Whitelist
<1>2. CASE UNCHANGED <<trapped, allowed, active, pages>>
  BY <1>0, <1>2
     DEF IInv, TypeOK, Shape, RootPorts, OwnBits, Direct, Users, Whitelist
<1>3. CASE /\ trapped' = IF t = Root THEN [trapped EXCEPT ![t] = OwnBits(t)]
                         ELSE [trapped EXCEPT ![t] = OwnBits(t), ![Root] = Shrink(t)]
           /\ allowed' = [allowed EXCEPT ![t] = CmdReg \in Whitelist(t)]
           /\ active' = active \cup {t}
           /\ pages' = pages - BitmapPages
  <2>1. t \notin active /\ (t # Root => Root \in active) /\ active \subseteq Targets
        /\ Root \in Targets
    BY PioAssumption DEF TargetInit, IInv, TypeOK
  <2>2. IsFiniteSet(active') /\ Cardinality(active') = Cardinality(active) + 1
    BY <1>3, <2>1, FS_AddElement DEF IInv, Shape
  <2>3. OwnBits(t) \subseteq Ports
    BY PioAssumption DEF OwnBits
  <2>4. TypeOK'
    <3>1. trapped' \in [Targets -> SUBSET Ports]
      BY <1>1, <1>3, <2>1, <2>3 DEF IInv, TypeOK, Shrink
    <3>2. allowed' \in [Targets -> BOOLEAN]
      BY <1>3 DEF IInv, TypeOK
    <3>3. Cardinality(active) \in Nat
      BY FS_CardinalityType DEF IInv, Shape
    <3>4. pages' = Pages - BitmapPages * Cardinality(active')
      BY <1>3, <2>2, <3>3, PioAssumption DEF IInv, TypeOK
    <3> QED
      BY <1>0, <1>3, <2>1, <3>1, <3>2, <3>4 DEF TypeOK
  <2>5. Shape'
    <3>1. ASSUME NEW s \in active' \ {Root}
          PROVE  trapped'[s] = OwnBits(s)'
      <4>1. OwnBits(s)' = OwnBits(s)
        BY <1>0 DEF OwnBits, Whitelist
      <4>2. trapped'[s] = OwnBits(s)
        BY <1>3, <2>1 DEF IInv, Shape, TypeOK
      <4> QED
        BY <4>1, <4>2
    <3>2. Root \in active'
      BY <1>3, <2>1
    <3> QED
      BY <2>2, <3>1, <3>2 DEF Shape
  <2>6. RootPorts'
    <3> SUFFICES ASSUME NEW p \in Ports \ ({CmdReg} \cup PmTimer)
                 PROVE  RootPort(p)'
      BY DEF RootPorts, RootPort
    <3>1. Users(p)' = Users(p)
      BY <1>1, <2>1 DEF Users
    <3>2. p \in Direct(Root)' <=> p \notin trapped'[Root]
      BY <1>3, <2>1 DEF Direct
    <3>3. CASE t = Root
      <4>1. active' \ {Root} = {} /\ Users(p) \cap active' = {}
        BY <1>3, <2>1, <3>3 DEF IInv, Shape, Users
      <4>2. trapped'[Root] = OwnBits(Root)
        BY <1>3, <2>1, <3>3 DEF IInv, TypeOK
      <4>3. p \in Direct(Root)' <=> p \in Whitelist(Root)
        BY <1>1, <2>1, <3>2, <4>2 DEF OwnBits
      <4> QED
        BY <1>1, <2>1, <3>1, <4>1, <4>3 DEF RootPort
    <3>4. CASE t # Root
      <4>1. RootPort(p) /\ (p \in Direct(Root) <=> p \notin trapped[Root])
        BY <2>1, <3>4 DEF IInv, RootPorts, RootPort, Direct
      <4>2. trapped'[Root] = trapped[Root] \cup Whitelist(t)
        BY <1>3, <2>1, <3>4 DEF IInv, TypeOK, Shrink
      <4>3. p \in Direct(Root)' <=> p \in Direct(Root) /\ p \notin Whitelist(t)
        BY <3>2, <4>1, <4>2
      <4>4. t \in Users(p) <=> p \in Whitelist(t)
        BY <3>4 DEF Users
      <4>5. Users(p) \cap active' = {} => p \notin Whitelist(t)
                                            /\ Users(p) \cap active = {}
        BY <1>3, <4>4
      <4>6. t \notin Users(p) /\ Users(p) \subseteq active' => Users(p) \subseteq active
        BY <1>3
      <4> QED
        BY <1>1, <2>1, <3>1, <4>1, <4>3, <4>4, <4>5, <4>6 DEF RootPort
    <3> QED
      BY <3>3, <3>4
  <2> QED
    BY <2>4, <2>5, <2>6 DEF IInv
<1> QED
  BY <1>2, <1>3 DEF TargetInit, OwnBits

\* A target is destroyed: the root target regains its own share of the ports.
LEMMA TargetExitIInv ==
  ASSUME IInv, NEW t \in Targets, TargetExit(t)
  PROVE  IInv'
<1>0. config' = config /\ config \in Configs
  BY DEF TargetExit, IInv, TypeOK
<1>1. /\ t \in active /\ t # Root /\ Root \in active /\ Root \in Targets
      /\ active \subseteq Targets
      /\ active' = active \ {t}
      /\ trapped' = [trapped EXCEPT ![Root] = @ \ Refund(t), ![t] = {}]
      /\ trapped \in [Targets -> SUBSET Ports]
  BY PioAssumption DEF TargetExit, IInv, TypeOK, Shape
<1>2. \A s \in Targets : Whitelist(s)' = Whitelist(s) /\ Whitelist(s) \subseteq Ports
  BY <1>0, WhitelistPorts DEF Whitelist
<1>3. IsFiniteSet(active') /\ Cardinality(active') = Cardinality(active) - 1
  BY <1>1, FS_RemoveElement DEF IInv, Shape
<1>4. TypeOK'
  <2>1. trapped' \in [Targets -> SUBSET Ports]
    BY <1>1
  <2>2. allowed' \in [Targets -> BOOLEAN]
    BY DEF TargetExit, IInv, TypeOK
  <2>3. Cardinality(active) \in Nat
    BY FS_CardinalityType DEF IInv, Shape
  <2>4. pages' = Pages - BitmapPages * Cardinality(active')
    BY <1>3, <2>3, PioAssumption DEF TargetExit, IInv, TypeOK
  <2> QED
    BY <1>0, <1>1, <2>1, <2>2, <2>4 DEF TypeOK
<1>5. Shape'
  <2>1. ASSUME NEW s \in active' \ {Root}
        PROVE  trapped'[s] = OwnBits(s)'
    <3>1. OwnBits(s)' = OwnBits(s)
      BY <1>0 DEF OwnBits, Whitelist
    <3>2. trapped'[s] = OwnBits(s)
      BY <1>1 DEF IInv, Shape
    <3> QED
      BY <3>1, <3>2
  <2> QED
    BY <1>1, <1>3, <2>1 DEF Shape
<1>6. RootPorts'
  <2> SUFFICES ASSUME NEW p \in Ports \ ({CmdReg} \cup PmTimer)
               PROVE  RootPort(p)'
    BY DEF RootPorts, RootPort
  <2>1. Users(p)' = Users(p)
    BY <1>1, <1>2 DEF Users
  <2>2. p \in Direct(Root)' <=> p \notin trapped'[Root]
    BY <1>1 DEF Direct
  <2>3. RootPort(p) /\ (p \in Direct(Root) <=> p \notin trapped[Root])
    BY <1>1 DEF IInv, RootPorts, RootPort, Direct
  <2>4. p \in trapped'[Root]
          <=> p \in trapped[Root] /\ ~(p \in Whitelist(t) /\ p \in Whitelist(Root))
    BY <1>0, <1>1, RefundIsIntersection
  <2>5. p \in Direct(Root)'
          <=> p \in Direct(Root) \/ (p \in Whitelist(t) /\ p \in Whitelist(Root))
    BY <2>2, <2>3, <2>4
  <2>6. t \in Users(p) <=> p \in Whitelist(t)
    BY <1>1 DEF Users
  <2>7. CASE p \in Whitelist(t)
    <3>1. ~ (Users(p) \subseteq active')
      BY <1>1, <2>6, <2>7
    <3> QED
      BY <1>1, <1>2, <2>1, <2>3, <2>5, <2>7, <3>1 DEF RootPort
  <2>8. CASE p \notin Whitelist(t)
    <3>1. /\ Users(p) \cap active' = Users(p) \cap active
          /\ Users(p) \subseteq active' => Users(p) \subseteq active
      BY <1>1, <2>6, <2>8
    <3> QED
      BY <1>1, <1>2, <2>1, <2>3, <2>5, <2>8, <3>1 DEF RootPort
  <2> QED
    BY <2>7, <2>8
<1> QED
  BY <1>4, <1>5, <1>6 DEF IInv

LEMMA StutterIInv == ASSUME IInv, UNCHANGED vars PROVE IInv'
BY DEF vars, IInv, TypeOK, Shape, RootPorts, OwnBits, Direct, Users, Whitelist

LEMMA SpecIInv == Spec => []IInv
<1>1. IInv /\ [Next]_vars => IInv'
  BY TargetInitIInv, TargetExitIInv, StutterIInv DEF Next
<1> QED
  BY InitIInv, <1>1, PTL DEF Spec

\* Every bitmap is one of the ports, and the pages of the bitmaps are
\* accounted for however often vcpu_target_init fails or targets go.
THEOREM PioTypeCorrect == Spec => []TypeOK
<1>1. IInv => TypeOK
  BY DEF IInv
<1> QED
  BY SpecIInv, <1>1, PTL

\* After any sequence of vcpu_target_init and vcpu_target_exit the root target
\* drives only ports of its whitelist: all of those that no existing target
\* names, none of those all of whose users exist, and, as vcpu_target_exit does
\* not ask who else has a port, possibly one that several targets name and one
\* of them has left.  The command register and the PM timer are not covered.
THEOREM RootPortsHold == Spec => []RootPorts
<1>1. IInv => RootPorts
  BY DEF IInv
<1> QED
  BY SpecIInv, <1>1, PTL

\* Two targets can drive the same port behind the hypervisor's back, the PM
\* timer apart, only if both whitelists name it; and the root target can share
\* it with another target only if a third one that names it too does not exist.
THEOREM PortsExclusiveHolds == Spec => []PortsExclusive
<1>1. ASSUME IInv PROVE PortsExclusive
  <2> SUFFICES ASSUME NEW t \in active, NEW s \in active, t # s,
                      NEW p \in (Direct(t) \cap Direct(s)) \ PmTimer
               PROVE  /\ p \in Whitelist(t) \cap Whitelist(s)
                      /\ Root \in {t, s} => ~ (Users(p) \subseteq active)
    BY DEF PortsExclusive
  <2>1. active \subseteq Targets /\ Root \in active /\ p \in Ports
    BY <1>1 DEF IInv, TypeOK, Shape, Direct
  <2>2. ASSUME NEW u \in active \ {Root}, p \in Direct(u)
        PROVE  p \in Whitelist(u) /\ p # CmdReg /\ u \in Users(p)
    BY <1>1, <2>1, <2>2 DEF IInv, Shape, Direct, OwnBits, Users
  <2>3. ASSUME NEW u \in active \ {Root}, p \in Direct(u), p \in Direct(Root)
        PROVE  p \in Whitelist(Root) /\ ~ (Users(p) \subseteq active)
    <3>1. p # CmdReg /\ Users(p) # {}
      BY <2>2, <2>3
    <3> QED
      BY <1>1, <2>1, <2>3, <3>1 DEF IInv, RootPorts
  <2>4. CASE t # Root /\ s # Root
    BY <2>1, <2>2, <2>4
  <2>5. CASE t = Root
    BY <2>2, <2>3, <2>5
  <2>6. CASE s = Root
    BY <2>2, <2>3, <2>6
  <2> QED
    BY <2>4, <2>5, <2>6
<1> QED
  BY SpecIInv, <1>1, PTL
=============================================================================
