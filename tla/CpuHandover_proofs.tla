------------------------- MODULE CpuHandover_proofs -------------------------
(***************************************************************************)
(* CpuHandover for every set of CPUs and all changes of registers: no CPU  *)
(* takes an exception in the hypervisor, Linux finds its registers as a    *)
(* guest, and it gets them back.                                           *)
(***************************************************************************)
EXTENDS CpuHandover, TLAPS

\* The position in InitRoutine of the statement that saves a register, and of
\* the one that gives it the hypervisor's value (past the end: it is kept).
SaveAt ==
  [gdtr |-> 1, tr |-> 2, cs |-> 4, segs |-> 5, bases |-> 6, idtr |-> 9,
   cr0 |-> 14, cr4 |-> 15, vmxe |-> 15, cr3 |-> 16, pat |-> 18, efer |-> 20]

SpyAt ==
  [gdtr |-> 7, cs |-> 8, idtr |-> 10, segs |-> 11, tr |-> 13, cr3 |-> 17,
   pat |-> 19, cr0 |-> 24, cr4 |-> 25, vmxe |-> 25,
   bases |-> 28, efer |-> 28, sysenter |-> 28]

\* The position in RestoreRoutine of the statement that loads a register.
LoadAt ==
  [sysenter |-> 0, pat |-> 2, efer |-> 3, cr0 |-> 4, cr4 |-> 5, vmxe |-> 5,
   cr3 |-> 6, tr |-> 10, gdtr |-> 12, idtr |-> 13, cs |-> 14, segs |-> 15,
   bases |-> 16]

SavedRegs == Saved \ {"mtrr"}

\* Nothing has changed for Linux.
Untouched(c) == hw[c] = linux[c] /\ vmxop[c] = LinuxVmx(c)

InVmx(c) == vmxop[c] = "spy" /\ linux[c].vmxe = "off"

\* What arch_cpu_restore starts from.
Restorable(c) ==
  /\ init[c]
  /\ hw[c].gdtr = "spy" /\ hw[c].cr3 = "spy"
  /\ hw[c].sysenter = linux[c].sysenter
  /\ \A r \in SavedRegs \ {"vmxe"} : saved[c][r] = linux[c][r]
  /\ InVmx(c) \/ (vmxop[c] = LinuxVmx(c) /\ saved[c].vmxe = linux[c].vmxe)

\* Before statement k of arch_cpu_init: the registers before k are saved or
\* replaced, the others are Linux's.
Initializing(c) ==
  LET k == pc[c].at IN
  /\ init[c] <=> k > 21
  /\ \A r \in Regs : hw[c][r] = IF SpyAt[r] < k THEN SpyRegs[r] ELSE linux[c][r]
  /\ \A r \in SavedRegs : SaveAt[r] < k => saved[c][r] = linux[c][r]
  /\ k > 18 => saved[c].mtrr = "on"
  /\ k > 23 => linux[c].vmxe = "off"
  /\ vmxop[c] = IF k > 26 THEN "spy" ELSE LinuxVmx(c)

\* The VMCS is set up, the guest not yet launched.
Prepared(c) ==
  /\ Restorable(c)
  /\ InVmx(c)
  /\ saved[c].mtrr = "on"
  /\ vmcs[c].pat = linux[c].pat
  /\ \A r \in GuestRegs : vmcs[c][r] = linux[c][r]

Running(c) ==
  /\ init[c]
  /\ InVmx(c)
  /\ saved[c].pat = linux[c].pat
  /\ hw[c].pat = GuestPat(saved[c].mtrr, linux[c].pat)
  /\ \A r \in GuestRegs : hw[c][r] = linux[c][r]

Deactivating(c) ==
  /\ init[c]
  /\ InVmx(c)
  /\ hw[c].gdtr = "spy" /\ hw[c].cr3 = "spy"
  /\ saved[c].pat = linux[c].pat
  /\ \A r \in GuestRegs : vmcs[c][r] = linux[c][r]

\* Before statement k of arch_cpu_restore: the registers before k are Linux's
\* again, and what the rest of the routine needs is still the hypervisor's.
Restoring(c) ==
  LET k == pc[c].at IN
  /\ init[c]
  /\ k <= 12 => hw[c].gdtr = "spy"
  /\ k <= 6 => hw[c].cr3 = "spy"
  /\ \A r \in Regs : LoadAt[r] < k => hw[c][r] = linux[c][r]
  /\ \A r \in SavedRegs \ {"vmxe"} : saved[c][r] = linux[c][r]
  /\ \/ k = 1 /\ InVmx(c)
     \/ vmxop[c] = LinuxVmx(c) /\ saved[c].vmxe = linux[c].vmxe

\* What a CPU's place in the code says of its registers.
Here(c) ==
  LET op == pc[c].op IN
  /\ op = "enter" => Untouched(c) /\ ~ init[c]
  /\ op = "init" => Initializing(c)
  /\ op \in {"done", "wait"} => Prepared(c)
  /\ op = "back" => IF init[c] THEN Restorable(c) ELSE Untouched(c)
  /\ op = "guest" => Running(c)
  /\ op = "deactivate" => Deactivating(c)
  /\ op = "restore" => Restoring(c)
  /\ op = "linux" => Untouched(c)
  /\ op # "dead"

\* CPUs are initialized one at a time, so that the TSS that one of them has
\* made busy is not loaded by the next before its flag is cleared.
InTurn(c) ==
  /\ pc[c].op \in {"init", "done"} <=> boot.lock = c
  /\ pc[c].op = "init" /\ pc[c].at = 13 => ~ gdt.spy

\* tss_lock covers the copy of Linux's TSS descriptor and its use.
TssCopied(c) ==
  LET k == IF pc[c].op = "restore" THEN pc[c].at ELSE 1 IN
  /\ k \in 8 .. 11 <=> tssLock = c
  /\ k \in 9 .. 10 => gdt.low = <<c, linux[c].tr>> /\ ~ gdt.busy
  /\ k = 10 => gdt.high = gdt.low

Ops == {"enter", "init", "done", "wait", "back", "restore", "guest",
        "deactivate", "linux", "dead"}

PcOK ==
  /\ pc \in [CPUs -> [op : Ops, at : Nat]]
  /\ \A c \in CPUs : pc[c].at \in 1 .. Len(Routine(pc[c].op))

RegsOK ==
  /\ hw \in [CPUs -> [Regs -> Values]]
  /\ vmxop \in [CPUs -> {"off", "linux", "spy"}]
  /\ saved \in [CPUs -> [Saved -> Values]]
  /\ init \in [CPUs -> BOOLEAN]
  /\ vmcs \in [CPUs -> [Regs -> Values]]
  /\ linux \in [CPUs -> [Regs -> {"old", "new", "on", "off"}]]

SharedOK ==
  /\ gdt \in [spy : BOOLEAN, low : (CPUs \X Values) \cup {<<>>},
              high : (CPUs \X Values) \cup {<<>>}, busy : BOOLEAN]
  /\ tssLock \in CPUs \cup {Nobody}
  /\ boot \in [lock : CPUs \cup {Nobody}, err : BOOLEAN, active : BOOLEAN]

\* The inductive invariant.
IInv ==
  /\ PcOK
  /\ RegsOK
  /\ SharedOK
  /\ \A c \in CPUs : Here(c) /\ InTurn(c) /\ TssCopied(c)

SameCpu(d) ==
  /\ pc'[d] = pc[d] /\ hw'[d] = hw[d] /\ vmxop'[d] = vmxop[d]
  /\ saved'[d] = saved[d] /\ init'[d] = init[d] /\ vmcs'[d] = vmcs[d]
  /\ linux'[d] = linux[d]

\* A step of CPU c leaves the other CPUs alone.
Elsewhere(c) == \A d \in CPUs \ {c} : SameCpu(d)

\* What statement k of InitRoutine does to the registers of CPU c.
InitEffect(c, k) ==
  /\ linux' = linux
  /\ \A q \in Regs : hw'[c][q] = IF SpyAt[q] = k THEN SpyRegs[q] ELSE hw[c][q]
  /\ \A q \in SavedRegs :
       saved'[c][q] = IF SaveAt[q] = k THEN hw[c][q] ELSE saved[c][q]
  /\ saved'[c].mtrr = IF k = 18 THEN "on" ELSE saved[c].mtrr
  /\ init'[c] <=> init[c] \/ k = 21
  /\ k = 23 => linux[c].vmxe = "off"
  /\ vmxop'[c] = IF k = 26 THEN "spy" ELSE vmxop[c]

\* What statement k of RestoreRoutine does to them.
RestoreEffect(c, k) ==
  /\ linux' = linux
  /\ init' = init
  /\ hw' \in [CPUs -> [Regs -> Values]]
  /\ \A q \in Regs :
       /\ LoadAt[q] = k => hw'[c][q] = linux[c][q]
       /\ LoadAt[q] # k => hw'[c][q] = hw[c][q] \/ (k = 15 /\ q = "bases")
  /\ \A q \in SavedRegs \ {"vmxe"} : saved'[c][q] = saved[c][q]
  /\ vmxop'[c] = LinuxVmx(c)
  /\ saved'[c].vmxe = linux[c].vmxe

-----------------------------------------------------------------------------
(***************************************************************************)
(* The registers and the routines.                                         *)
(***************************************************************************)
LEMMA RegisterSets ==
  /\ GuestRegs \subseteq Regs /\ SavedRegs \subseteq Regs
  /\ SavedRegs \subseteq Saved
  /\ SavedRegs = Regs \ {"sysenter"}
  /\ GuestRegs = Regs \ {"pat", "vmxe"}
  /\ "mtrr" \notin Regs
  /\ Saved = SavedRegs \cup {"mtrr"}
  BY SMT DEF GuestRegs, Regs, Saved, SavedRegs

LEMMA Positions ==
  /\ \A r \in Regs : SpyAt[r] \in 7 .. 28 /\ LoadAt[r] \in 0 .. 16
  /\ \A r \in SavedRegs : SaveAt[r] \in 1 .. 20 /\ SaveAt[r] < SpyAt[r]
  /\ SaveAt["gdtr"] = 1 /\ SaveAt["tr"] = 2 /\ SaveAt["pat"] = 18
  /\ SaveAt["vmxe"] = 15 /\ SaveAt["cr3"] = 16 /\ SaveAt["cr4"] = 15
  /\ SpyAt["gdtr"] = 7 /\ SpyAt["cr3"] = 17 /\ SpyAt["vmxe"] = 25
  /\ SpyAt["cr4"] = 25 /\ SpyAt["pat"] = 19 /\ SpyAt["tr"] = 13
  /\ SpyAt["sysenter"] = 28
  /\ LoadAt["sysenter"] = 0 /\ LoadAt["cr3"] = 6 /\ LoadAt["vmxe"] = 5
  /\ LoadAt["cr4"] = 5 /\ LoadAt["pat"] = 2 /\ LoadAt["gdtr"] = 12
  /\ LoadAt["tr"] = 10 /\ LoadAt["segs"] = 15 /\ LoadAt["bases"] = 16
<1> USE DEF GuestRegs, Regs, Saved, SavedRegs, SaveAt, SpyAt, LoadAt
<1>1. \A r \in Regs : SpyAt[r] \in 7 .. 28
  BY SMT
<1>2. \A r \in Regs : LoadAt[r] \in 0 .. 16
  BY SMT
<1>3. \A r \in SavedRegs : SaveAt[r] \in 1 .. 20 /\ SaveAt[r] < SpyAt[r]
  BY SMT
<1> QED BY <1>1, <1>2, <1>3

\* What is in InitRoutine, statement by statement.
LEMMA InitStatement ==
  ASSUME NEW k \in 1 .. Len(InitRoutine)
  PROVE  LET s == InitRoutine[k] IN
         /\ Len(InitRoutine) = 27
         /\ s[1] \in {"save", "spy", "check", "unbusy", "initialized",
                      "vmxon", "setup"}
         /\ s[1] = "save" =>
              /\ s[2] \in SavedRegs \ {"vmxe"}
              /\ \A r \in SavedRegs : r \in Group(s[2]) <=> SaveAt[r] = k
              /\ s[2] = "pat" <=> k = 18
              /\ s[2] \in {"tr", "cs", "segs"} => k < 6
         /\ s[1] = "spy" =>
              /\ s[2] \in SavedRegs \ {"vmxe"}
              /\ \A r \in Regs : r \in Group(s[2]) <=> SpyAt[r] = k
              /\ s[2] = "tr" <=> k = 13
              /\ s[2] = "cs" => k = 8
         /\ s[1] = "check" <=> k \in {3, 22, 23}
         /\ s[2] = "vmx" <=> k = 23
         /\ s[1] # "save" => \A r \in SavedRegs : SaveAt[r] # k
         /\ s[1] # "spy" => \A r \in Regs : SpyAt[r] # k
         /\ s[1] = "unbusy" <=> k = 12
         /\ s[1] = "initialized" <=> k = 21
         /\ s[1] = "vmxon" <=> k = 26
         /\ s[1] = "setup" <=> k = 27
<1> USE DEF InitRoutine, SavedRegs, Saved, Regs, GuestRegs, SaveAt, SpyAt, Group
<1>1. Len(InitRoutine) = 27
  OBVIOUS
<1>2. CASE k \in 1 .. 3
  BY <1>1, <1>2, SMTT(60)
<1>3. CASE k \in 4 .. 6
  BY <1>1, <1>3, SMTT(60)
<1>4. CASE k \in 7 .. 9
  BY <1>1, <1>4, SMTT(60)
<1>5. CASE k \in 10 .. 12
  BY <1>1, <1>5, SMTT(60)
<1>6. CASE k \in 13 .. 15
  BY <1>1, <1>6, SMTT(60)
<1>7. CASE k \in 16 .. 18
  BY <1>1, <1>7, SMTT(60)
<1>8. CASE k \in 19 .. 21
  BY <1>1, <1>8, SMTT(60)
<1>9. CASE k \in 22 .. 24
  BY <1>1, <1>9, SMTT(60)
<1>10. CASE k \in 25 .. 27
  BY <1>1, <1>10, SMTT(60)
<1> HIDE DEF InitRoutine, SavedRegs, Saved, Regs, GuestRegs, SaveAt, SpyAt, Group
<1>11. \/ k \in 1 .. 3 \/ k \in 4 .. 6 \/ k \in 7 .. 9 \/ k \in 10 .. 12
       \/ k \in 13 .. 15 \/ k \in 16 .. 18 \/ k \in 19 .. 21 \/ k \in 22 .. 24
       \/ k \in 25 .. 27
  BY <1>1
<1> QED
  BY <1>2, <1>3, <1>4, <1>5, <1>6, <1>7, <1>8, <1>9, <1>10, <1>11, Zenon

\* What is in RestoreRoutine.
LEMMA RestoreStatement ==
  ASSUME NEW k \in 1 .. Len(RestoreRoutine)
  PROVE  LET s == RestoreRoutine[k] IN
         /\ Len(RestoreRoutine) = 16
         /\ s[1] \in {"exit", "load", "lock", "copy", "unlock"}
         /\ s[1] = "load" =>
              /\ s[2] \in SavedRegs \ {"vmxe"}
              /\ \A r \in Regs : r \in Group(s[2]) <=> LoadAt[r] = k
              /\ s[2] = "tr" <=> k = 10
              /\ s[2] = "cr4" <=> k = 5
              /\ s[2] = "cs" <=> k = 14
              /\ s[2] = "segs" <=> k = 15
         /\ s[1] # "load" => \A r \in Regs : LoadAt[r] # k
         /\ s[1] = "exit" <=> k = 1
         /\ s[1] = "lock" <=> k = 7
         /\ s[1] = "unlock" <=> k = 11
         /\ s[1] = "copy" <=> k \in {8, 9}
         /\ s[2] = "low" <=> k = 8
<1> USE DEF RestoreRoutine, SavedRegs, Saved, Regs, GuestRegs, LoadAt, Group
<1>1. Len(RestoreRoutine) = 16
  OBVIOUS
<1>2. CASE k \in 1 .. 3
  BY <1>1, <1>2, SMTT(60)
<1>3. CASE k \in 4 .. 6
  BY <1>1, <1>3, SMTT(60)
<1>4. CASE k \in 7 .. 9
  BY <1>1, <1>4, SMTT(60)
<1>5. CASE k \in 10 .. 12
  BY <1>1, <1>5, SMTT(60)
<1>6. CASE k \in 13 .. 16
  BY <1>1, <1>6, SMTT(60)
<1> HIDE DEF RestoreRoutine, SavedRegs, Saved, Regs, GuestRegs, LoadAt, Group
<1>7. \/ k \in 1 .. 3 \/ k \in 4 .. 6 \/ k \in 7 .. 9 \/ k \in 10 .. 12
      \/ k \in 13 .. 16
  BY <1>1
<1> QED
  BY <1>2, <1>3, <1>4, <1>5, <1>6, <1>7, Zenon

-----------------------------------------------------------------------------
(***************************************************************************)
(* Where a CPU is in a routine, and where it goes.                         *)
(***************************************************************************)
LEMMA Lengths == Len(InitRoutine) = 27 /\ Len(RestoreRoutine) = 16
<1>1. Len(InitRoutine) = 27
  BY DEF InitRoutine
<1>2. Len(RestoreRoutine) = 16
  BY DEF RestoreRoutine
<1> QED BY <1>1, <1>2

LEMMA RoutineLength ==
  ASSUME NEW op
  PROVE  Len(Routine(op)) \in {16, 27}
  BY Lengths DEF Routine

LEMMA RoutineStart ==
  ASSUME NEW op
  PROVE  1 \in 1 .. Len(Routine(op))
<1>1. Len(Routine(op)) \in {16, 27}
  BY RoutineLength
<1> QED BY <1>1

LEMMA InitPoint ==
  ASSUME PcOK, NEW c \in CPUs, pc[c].op = "init"
  PROVE  /\ pc[c].at \in 1 .. 27
         /\ pc[c].at \in 1 .. Len(InitRoutine)
         /\ Len(Routine(pc[c].op)) = 27
         /\ Statement(c) = InitRoutine[pc[c].at]
<1>1. Routine(pc[c].op) = InitRoutine
  BY DEF Routine
<1> QED BY <1>1, Lengths DEF PcOK, Statement

LEMMA RestorePoint ==
  ASSUME PcOK, NEW c \in CPUs, pc[c].op = "restore"
  PROVE  /\ pc[c].at \in 1 .. 16
         /\ pc[c].at \in 1 .. Len(RestoreRoutine)
         /\ Len(Routine(pc[c].op)) = 16
         /\ Statement(c) = RestoreRoutine[pc[c].at]
<1>1. Routine(pc[c].op) = RestoreRoutine
  BY DEF Routine
<1> QED BY <1>1, Lengths DEF PcOK, Statement

\* The kinds of statement tell in which routine a CPU is.
LEMMA InitKinds ==
  ASSUME PcOK, NEW c \in CPUs,
         NEW what \in {"save", "spy", "check", "unbusy", "initialized",
                       "vmxon", "setup"},
         At(c, what)
  PROVE  pc[c].op = "init" /\ InitRoutine[pc[c].at][1] = what
<1>1. CASE pc[c].op = "restore"
  <2>1. Statement(c) = RestoreRoutine[pc[c].at]
    BY <1>1, RestorePoint
  <2>2. Statement(c)[1] \in {"exit", "load", "lock", "copy", "unlock"}
    BY <1>1, <2>1, RestorePoint, RestoreStatement
  <2> QED BY <2>2 DEF At
<1>2. CASE pc[c].op = "init"
  BY <1>2, InitPoint DEF At
<1> QED BY <1>1, <1>2 DEF At

LEMMA RestoreKinds ==
  ASSUME PcOK, NEW c \in CPUs,
         NEW what \in {"exit", "load", "lock", "copy", "unlock"},
         At(c, what)
  PROVE  pc[c].op = "restore" /\ RestoreRoutine[pc[c].at][1] = what
<1>1. CASE pc[c].op = "init"
  <2>1. Statement(c) = InitRoutine[pc[c].at]
    BY <1>1, InitPoint
  <2>2. Statement(c)[1] \in {"save", "spy", "check", "unbusy", "initialized",
                            "vmxon", "setup"}
    BY <1>1, <2>1, InitPoint, InitStatement
  <2> QED BY <2>2 DEF At
<1>2. CASE pc[c].op = "restore"
  BY <1>2, RestorePoint DEF At
<1> QED BY <1>1, <1>2 DEF At

LEMMA GotoFacts ==
  ASSUME PcOK, NEW c \in CPUs, NEW op \in Ops, Goto(c, op)
  PROVE  /\ PcOK'
         /\ pc'[c].op = op /\ pc'[c].at = 1
         /\ \A d \in CPUs \ {c} : pc'[d] = pc[d]
<1>1. pc' = [pc EXCEPT ![c] = [op |-> op, at |-> 1]]
  BY DEF Goto
<1>2. [op |-> op, at |-> 1] \in [op : Ops, at : Nat]
  OBVIOUS
<1>3. pc \in [CPUs -> [op : Ops, at : Nat]]
  BY DEF PcOK
<1>4. pc' \in [CPUs -> [op : Ops, at : Nat]]
  BY <1>1, <1>2, <1>3
<1>5. pc'[c] = [op |-> op, at |-> 1] /\ \A d \in CPUs \ {c} : pc'[d] = pc[d]
  BY <1>1, <1>3
<1>6. \A d \in CPUs : pc'[d].at \in 1 .. Len(Routine(pc'[d].op))
  <2> SUFFICES ASSUME NEW d \in CPUs
               PROVE  pc'[d].at \in 1 .. Len(Routine(pc'[d].op))
    OBVIOUS
  <2>1. CASE d = c
    <3>1. pc'[d].at = 1
      BY <1>5, <2>1
    <3> QED BY <3>1, RoutineStart
  <2>2. CASE d # c
    <3>1. pc'[d] = pc[d]
      BY <1>5, <2>2
    <3> QED BY <3>1 DEF PcOK
  <2> QED BY <2>1, <2>2
<1> QED BY <1>4, <1>5, <1>6 DEF PcOK

LEMMA ContinueFacts ==
  ASSUME PcOK, NEW c \in CPUs, Continue(c), pc[c].op \in {"init", "restore"}
  PROVE  /\ PcOK'
         /\ \A d \in CPUs \ {c} : pc'[d] = pc[d]
         /\ pc[c].at < Len(Routine(pc[c].op)) =>
              pc'[c].op = pc[c].op /\ pc'[c].at = pc[c].at + 1
         /\ pc[c].at = Len(Routine(pc[c].op)) =>
              /\ pc'[c].op = IF pc[c].op = "init" THEN "done" ELSE "linux"
              /\ pc'[c].at = 1
<1>1. pc[c].at \in Nat /\ Len(Routine(pc[c].op)) \in Nat
      /\ pc[c].at \in 1 .. Len(Routine(pc[c].op))
  BY RoutineLength DEF PcOK
<1>2. CASE pc[c].at < Len(Routine(pc[c].op))
  <2>1. pc' = [pc EXCEPT ![c].at = pc[c].at + 1]
    BY <1>2 DEF Continue
  <2>2. pc \in [CPUs -> [op : Ops, at : Nat]]
    BY DEF PcOK
  <2>3. pc'[c] = [pc[c] EXCEPT !.at = pc[c].at + 1]
    BY <2>1, <2>2
  <2>4. pc'[c].op = pc[c].op /\ pc'[c].at = pc[c].at + 1
    BY <2>2, <2>3
  <2>5. \A d \in CPUs \ {c} : pc'[d] = pc[d]
    BY <2>1, <2>2
  <2>6. pc' \in [CPUs -> [op : Ops, at : Nat]]
    BY <1>1, <2>1, <2>2
  <2>7. \A d \in CPUs : pc'[d].at \in 1 .. Len(Routine(pc'[d].op))
    <3> SUFFICES ASSUME NEW d \in CPUs
                 PROVE  pc'[d].at \in 1 .. Len(Routine(pc'[d].op))
      OBVIOUS
    <3>1. CASE d = c
      <4>1. pc[c].at + 1 \in 1 .. Len(Routine(pc[c].op))
        BY <1>1, <1>2
      <4> QED BY <2>4, <3>1, <4>1
    <3>2. CASE d # c
      BY <2>5, <3>2 DEF PcOK
    <3> QED BY <3>1, <3>2
  <2> QED BY <1>1, <1>2, <2>4, <2>5, <2>6, <2>7 DEF PcOK
<1>3. CASE pc[c].at = Len(Routine(pc[c].op))
  <2> DEFINE op == IF pc[c].op = "init" THEN "done" ELSE "linux"
  <2>1. op \in Ops
    BY DEF Ops
  <2>2. Goto(c, op)
    BY <1>1, <1>3 DEF Continue
  <2> HIDE DEF op
  <2>3. PcOK' /\ pc'[c].op = op /\ pc'[c].at = 1
        /\ \A d \in CPUs \ {c} : pc'[d] = pc[d]
    BY <2>1, <2>2, GotoFacts
  <2> QED BY <1>1, <1>3, <2>3 DEF op
<1> QED BY <1>1, <1>2, <1>3

-----------------------------------------------------------------------------
(***************************************************************************)
(* What a step leaves alone.                                               *)
(***************************************************************************)
LEMMA HereKept ==
  ASSUME NEW d, Here(d), SameCpu(d)
  PROVE  Here(d)'
<1> USE DEF SameCpu
<1>1. Untouched(d)' = Untouched(d)
  BY DEF Untouched, LinuxVmx
<1>2. InVmx(d)' = InVmx(d)
  BY DEF InVmx
<1>3. Restorable(d)' = Restorable(d)
  BY <1>2 DEF Restorable, LinuxVmx
<1>4. Initializing(d)' = Initializing(d)
  BY DEF Initializing, LinuxVmx
<1>5. Prepared(d)' = Prepared(d)
  BY <1>2, <1>3 DEF Prepared
<1>6. Running(d)' = Running(d)
  BY <1>2 DEF Running
<1>7. Deactivating(d)' = Deactivating(d)
  BY <1>2 DEF Deactivating
<1>8. Restoring(d)' = Restoring(d)
  BY <1>2 DEF Restoring, LinuxVmx
<1> QED
  BY <1>1, <1>3, <1>4, <1>5, <1>6, <1>7, <1>8 DEF Here

LEMMA TurnKept ==
  ASSUME NEW d, InTurn(d), pc'[d] = pc[d],
         boot'.lock = d <=> boot.lock = d,
         pc[d].op = "init" /\ pc[d].at = 13 => gdt'.spy = gdt.spy
  PROVE  InTurn(d)'
  BY DEF InTurn

LEMMA CopyKept ==
  ASSUME NEW d, TssCopied(d), pc'[d] = pc[d], linux'[d] = linux[d],
         tssLock' = d <=> tssLock = d,
         tssLock = d => /\ gdt'.low = gdt.low
                        /\ gdt'.high = gdt.high
                        /\ gdt'.busy = gdt.busy
  PROVE  TssCopied(d)'
<1> DEFINE k == IF pc[d].op = "restore" THEN pc[d].at ELSE 1
<1>1. /\ k \in 8 .. 11 <=> tssLock = d
      /\ k \in 9 .. 10 => gdt.low = <<d, linux[d].tr>> /\ ~ gdt.busy
      /\ k = 10 => gdt.high = gdt.low
  BY DEF TssCopied
<1>2. k \in 9 .. 10 => k \in 8 .. 11
  OBVIOUS
<1>3. k = 10 => k \in 9 .. 10
  OBVIOUS
<1> HIDE DEF k
<1>4. /\ k \in 8 .. 11 <=> tssLock' = d
      /\ k \in 9 .. 10 => gdt'.low = <<d, linux'[d].tr>> /\ ~ gdt'.busy
      /\ k = 10 => gdt'.high = gdt'.low
  BY <1>1, <1>2, <1>3
<1> QED BY <1>4 DEF TssCopied, k

LEMMA TypeOKFollows ==
  ASSUME IInv
  PROVE  TypeOK
<1>1. PcOK /\ RegsOK /\ SharedOK
  BY DEF IInv
<1>2. \A c \in CPUs : pc[c].op \in Ops /\ pc[c].at \in 1 .. Len(Routine(pc[c].op))
  BY <1>1 DEF PcOK
<1> QED
  BY <1>1, <1>2 DEF TypeOK, RegsOK, SharedOK, Ops

-----------------------------------------------------------------------------
(***************************************************************************)
(* arch_cpu_init: what holds between two statements.                       *)
(***************************************************************************)
\* A step of one CPU keeps the invariant if it keeps the parts that it can
\* disturb.
LEMMA IInvFrom ==
  ASSUME IInv, NEW c \in CPUs,
         PcOK', RegsOK', SharedOK', Elsewhere(c), Here(c)',
         \A d \in CPUs : InTurn(d)' /\ TssCopied(d)'
  PROVE  IInv'
<1>1. \A d \in CPUs : Here(d)'
  <2> SUFFICES ASSUME NEW d \in CPUs PROVE Here(d)'
    OBVIOUS
  <2>1. CASE d = c
    BY <2>1
  <2>2. CASE d # c
    <3>1. SameCpu(d)
      BY <2>2 DEF Elsewhere
    <3>2. Here(d)
      BY DEF IInv
    <3> QED BY <3>1, <3>2, HereKept
  <2> QED BY <2>1, <2>2
<1>2. \A d \in CPUs : Here(d)' /\ InTurn(d)' /\ TssCopied(d)'
  BY <1>1
<1> QED BY <1>2 DEF IInv

LEMMA InitHere ==
  ASSUME IInv, NEW c \in CPUs, pc[c].op = "init"
  PROVE  /\ Initializing(c)
         /\ pc[c].at \in 1 .. 27
         /\ pc[c].at \in 1 .. Len(InitRoutine)
         /\ Statement(c) = InitRoutine[pc[c].at]
         /\ Len(Routine(pc[c].op)) = 27
         /\ boot.lock = c
         /\ tssLock # c
         /\ \A d \in CPUs \ {c} : pc[d].op \notin {"init", "done"}
<1>1. PcOK /\ Here(c) /\ InTurn(c) /\ TssCopied(c)
  BY DEF IInv
<1>2. Initializing(c)
  BY <1>1 DEF Here
<1>3. boot.lock = c
  BY <1>1 DEF InTurn
<1>4. tssLock # c
  BY <1>1 DEF TssCopied
<1>5. ASSUME NEW d \in CPUs \ {c} PROVE pc[d].op \notin {"init", "done"}
  <2>1. InTurn(d)
    BY DEF IInv
  <2> QED BY <1>3, <2>1 DEF InTurn
<1> QED BY <1>1, <1>2, <1>3, <1>4, <1>5, InitPoint

LEMMA InitSharedKept ==
  ASSUME IInv, NEW c \in CPUs, pc[c].op = "init", Elsewhere(c),
         pc'[c].op \in {"init", "done"},
         boot'.lock = boot.lock, tssLock' = tssLock,
         gdt'.low = gdt.low, gdt'.high = gdt.high, gdt'.busy = gdt.busy,
         pc'[c].op = "init" /\ pc'[c].at = 13 => ~ gdt'.spy
  PROVE  \A d \in CPUs : InTurn(d)' /\ TssCopied(d)'
<1> SUFFICES ASSUME NEW d \in CPUs PROVE InTurn(d)' /\ TssCopied(d)'
  OBVIOUS
<1>1. boot.lock = c /\ tssLock # c
      /\ \A e \in CPUs \ {c} : pc[e].op \notin {"init", "done"}
  BY InitHere
<1>2. InTurn(d) /\ TssCopied(d)
  BY DEF IInv
<1>3. CASE d = c
  <2>1. InTurn(d)'
    BY <1>1, <1>3 DEF InTurn
  <2>2. pc'[d].op # "restore" /\ tssLock' # d
    BY <1>1, <1>3
  <2> QED BY <2>1, <2>2 DEF TssCopied
<1>4. CASE d # c
  <2>1. pc'[d] = pc[d] /\ linux'[d] = linux[d]
    BY <1>4 DEF Elsewhere, SameCpu
  <2>2. pc[d].op # "init"
    BY <1>1, <1>4
  <2>3. InTurn(d)'
    BY <1>2, <2>1, <2>2, TurnKept
  <2>4. TssCopied(d)'
    BY <1>2, <2>1, CopyKept
  <2> QED BY <2>3, <2>4
<1> QED BY <1>3, <1>4

LEMMA FailSharedKept ==
  ASSUME IInv, NEW c \in CPUs, pc[c].op = "init", Elsewhere(c),
         pc'[c].op = "back",
         boot'.lock = Nobody, tssLock' = tssLock, gdt' = gdt
  PROVE  \A d \in CPUs : InTurn(d)' /\ TssCopied(d)'
<1> SUFFICES ASSUME NEW d \in CPUs PROVE InTurn(d)' /\ TssCopied(d)'
  OBVIOUS
<1>1. boot.lock = c /\ tssLock # c
      /\ \A e \in CPUs \ {c} : pc[e].op \notin {"init", "done"}
  BY InitHere
<1>2. InTurn(d) /\ TssCopied(d)
  BY DEF IInv
<1>3. boot'.lock # d
  BY CpuAssumption DEF CpuAssumption
<1>4. CASE d = c
  <2>1. InTurn(d)'
    BY <1>3, <1>4 DEF InTurn
  <2>2. pc'[d].op # "restore" /\ tssLock' # d
    BY <1>1, <1>4
  <2> QED BY <2>1, <2>2 DEF TssCopied
<1>5. CASE d # c
  <2>1. pc'[d] = pc[d] /\ linux'[d] = linux[d]
    BY <1>5 DEF Elsewhere, SameCpu
  <2>2. boot.lock # d
    BY <1>1, <1>5
  <2>3. InTurn(d)'
    BY <1>2, <1>3, <2>1, <2>2, TurnKept
  <2>4. TssCopied(d)'
    BY <1>2, <2>1, CopyKept
  <2> QED BY <2>3, <2>4
<1> QED BY <1>4, <1>5

\* What each kind of statement is not.
LEMMA SaveStatement ==
  ASSUME NEW k \in 1 .. Len(InitRoutine), InitRoutine[k][1] = "save"
  PROVE  LET r == InitRoutine[k][2] IN
         /\ k \notin {3, 12, 13, 21, 22, 23, 26, 27}
         /\ r \in SavedRegs \ {"vmxe"}
         /\ \A q \in SavedRegs : q \in Group(r) <=> SaveAt[q] = k
         /\ \A q \in Regs : SpyAt[q] # k
         /\ r = "pat" <=> k = 18
         /\ r \in {"tr", "cs", "segs"} => k < 6
<1>1. "tr" \in Regs
  BY DEF Regs, GuestRegs
<1>2. k # 13
  BY <1>1, InitStatement, Positions
<1> QED BY <1>2, InitStatement

LEMMA SpyStatement ==
  ASSUME NEW k \in 1 .. Len(InitRoutine), InitRoutine[k][1] = "spy"
  PROVE  LET r == InitRoutine[k][2] IN
         /\ k \notin {3, 12, 18, 21, 22, 23, 26, 27}
         /\ r \in SavedRegs \ {"vmxe"}
         /\ \A q \in Regs : q \in Group(r) <=> SpyAt[q] = k
         /\ \A q \in SavedRegs : SaveAt[q] # k
         /\ r = "tr" <=> k = 13
         /\ r = "cs" => k = 8
<1>1. "pat" \in SavedRegs
  BY DEF SavedRegs, Saved, Regs
<1>2. k # 18
  BY <1>1, InitStatement, Positions
<1> QED BY <1>2, InitStatement

LEMMA OtherStatement ==
  ASSUME NEW k \in 1 .. Len(InitRoutine), InitRoutine[k][1] \notin {"save", "spy"}
  PROVE  /\ k \notin {13, 18}
         /\ \A q \in Regs : SpyAt[q] # k
         /\ \A q \in SavedRegs : SaveAt[q] # k
<1>1. "pat" \in SavedRegs /\ "tr" \in Regs
  BY DEF SavedRegs, Saved, Regs, GuestRegs
<1> QED BY <1>1, InitStatement, Positions

LEMMA InitAdvance ==
  ASSUME IInv, NEW c \in CPUs, pc[c].op = "init",
         NEW k \in 1 .. 27, k = pc[c].at, InitEffect(c, k),
         pc'[c].op = "init", pc'[c].at = k + 1
  PROVE  Here(c)'
<1>1. Initializing(c)
  BY InitHere
<1>2. /\ init[c] <=> k > 21
      /\ \A q \in Regs : hw[c][q] = IF SpyAt[q] < k THEN SpyRegs[q] ELSE linux[c][q]
      /\ \A q \in SavedRegs : SaveAt[q] < k => saved[c][q] = linux[c][q]
      /\ k > 18 => saved[c].mtrr = "on"
      /\ k > 23 => linux[c].vmxe = "off"
      /\ vmxop[c] = IF k > 26 THEN "spy" ELSE LinuxVmx(c)
  BY <1>1 DEF Initializing
<1>3. linux' = linux
  BY DEF InitEffect
<1>4. init'[c] <=> k + 1 > 21
  BY <1>2 DEF InitEffect
<1>5. ASSUME NEW q \in Regs
      PROVE  hw'[c][q] = IF SpyAt[q] < k + 1 THEN SpyRegs[q] ELSE linux'[c][q]
  <2>1. SpyAt[q] \in 7 .. 28
    BY Positions
  <2>2. SpyAt[q] < k + 1 <=> SpyAt[q] < k \/ SpyAt[q] = k
    BY <2>1
  <2>3. hw'[c][q] = IF SpyAt[q] = k THEN SpyRegs[q] ELSE hw[c][q]
    BY DEF InitEffect
  <2> QED BY <1>2, <1>3, <2>2, <2>3
<1>6. ASSUME NEW q \in SavedRegs, SaveAt[q] < k + 1
      PROVE  saved'[c][q] = linux'[c][q]
  <2>1. SaveAt[q] \in 1 .. 20 /\ SpyAt[q] \in 7 .. 28 /\ SaveAt[q] < SpyAt[q]
        /\ q \in Regs
    BY Positions, RegisterSets
  <2>2. SaveAt[q] < k \/ SaveAt[q] = k
    BY <1>6, <2>1
  <2>3. saved'[c][q] = IF SaveAt[q] = k THEN hw[c][q] ELSE saved[c][q]
    BY DEF InitEffect
  <2>4. CASE SaveAt[q] = k
    <3>1. ~ (SpyAt[q] < k)
      BY <2>1, <2>4
    <3>2. hw[c][q] = linux[c][q]
      BY <1>2, <2>1, <3>1
    <3> QED BY <1>3, <2>3, <2>4, <3>2
  <2>5. CASE SaveAt[q] # k
    BY <1>2, <1>3, <2>2, <2>3, <2>5
  <2> QED BY <2>4, <2>5
<1>7. k + 1 > 18 => saved'[c].mtrr = "on"
  BY <1>2 DEF InitEffect
<1>8. k + 1 > 23 => linux'[c].vmxe = "off"
  BY <1>2, <1>3 DEF InitEffect
<1>9. LinuxVmx(c)' = LinuxVmx(c)
  BY <1>3 DEF LinuxVmx
<1>10. vmxop'[c] = IF k + 1 > 26 THEN "spy" ELSE LinuxVmx(c)'
  BY <1>2, <1>9 DEF InitEffect
<1>11. Initializing(c)'
  BY <1>4, <1>5, <1>6, <1>7, <1>8, <1>10, ZenonT(60) DEF Initializing
<1> QED BY <1>11 DEF Here

-----------------------------------------------------------------------------
(***************************************************************************)
(* arch_cpu_init: the statements.                                          *)
(***************************************************************************)
LEMMA InitContinue ==
  ASSUME IInv, NEW c \in CPUs, pc[c].op = "init", pc[c].at # 27, Continue(c)
  PROVE  /\ PcOK'
         /\ pc'[c].op = "init" /\ pc'[c].at = pc[c].at + 1
         /\ \A d \in CPUs \ {c} : pc'[d] = pc[d]
<1>1. PcOK /\ pc[c].at \in 1 .. 27 /\ Len(Routine(pc[c].op)) = 27
  BY InitHere DEF IInv
<1>2. pc[c].at < Len(Routine(pc[c].op))
  <2> DEFINE k == pc[c].at
             n == Len(Routine(pc[c].op))
  <2>1. k \in 1 .. 27 /\ n = 27 /\ k # 27
    BY <1>1
  <2> HIDE DEF k, n
  <2>2. k < n
    BY <2>1
  <2> QED BY <2>2 DEF k, n
<1>3. pc[c].op \in {"init", "restore"}
  OBVIOUS
<1>4. /\ PcOK'
      /\ pc'[c].op = pc[c].op /\ pc'[c].at = pc[c].at + 1
      /\ \A d \in CPUs \ {c} : pc'[d] = pc[d]
  BY <1>1, <1>2, <1>3, ContinueFacts
<1> QED BY <1>4

LEMMA CopyFacts ==
  ASSUME NEW S, NEW to \in [S -> Values], NEW T, NEW from \in [T -> Values],
         NEW set, set \cap S \subseteq T
  PROVE  /\ Copy(to, from, set) \in [S -> Values]
         /\ \A q \in S : Copy(to, from, set)[q] = IF q \in set THEN from[q] ELSE to[q]
  BY DEF Copy

LEMMA GroupFacts ==
  ASSUME NEW r \in SavedRegs \ {"vmxe"}
  PROVE  /\ Group(r) \subseteq SavedRegs
         /\ r \in Group(r)
         /\ r # "cr4" => Group(r) = {r}
  BY DEF Group, SavedRegs, Saved, Regs

LEMMA SaveStep ==
  ASSUME IInv, NEW c \in CPUs, Save(c)
  PROVE  IInv'
<1> DEFINE k == pc[c].at
           r == Statement(c)[2]
           new == IF r = "pat"
                  THEN [Copy(saved[c], hw[c], {r}) EXCEPT !.mtrr = "on"]
                  ELSE Copy(saved[c], hw[c], Group(r))
<1>1. /\ PcOK /\ RegsOK /\ SharedOK
      /\ At(c, "save")
      /\ saved' = [saved EXCEPT ![c] = new]
      /\ Unless(c, r \in {"tr", "cs", "segs"} /\ ~ LinuxMapped(c))
      /\ hw' = hw /\ vmxop' = vmxop /\ init' = init /\ vmcs' = vmcs
      /\ linux' = linux /\ gdt' = gdt /\ tssLock' = tssLock /\ boot' = boot
  BY DEF IInv, Save, linuxVars, sharedVars
<1>2. pc[c].op = "init" /\ InitRoutine[k][1] = "save"
  BY <1>1, InitKinds
<1>3. /\ Initializing(c) /\ k \in 1 .. 27 /\ k \in 1 .. Len(InitRoutine)
      /\ r = InitRoutine[k][2]
  BY <1>2, InitHere
<1>4. /\ k \notin {3, 12, 13, 21, 22, 23, 26, 27}
      /\ r \in SavedRegs \ {"vmxe"}
      /\ \A q \in SavedRegs : q \in Group(r) <=> SaveAt[q] = k
      /\ \A q \in Regs : SpyAt[q] # k
      /\ r = "pat" <=> k = 18
      /\ r \in {"tr", "cs", "segs"} => k < 6
  BY <1>2, <1>3, SaveStatement
<1>5. r \in {"tr", "cs", "segs"} => LinuxMapped(c)
  <2>1. "cr3" \in Regs
    BY DEF Regs, GuestRegs
  <2>2. k < 6 => hw[c].cr3 = linux[c].cr3
    BY <1>3, <2>1, Positions DEF Initializing
  <2> QED BY <1>4, <2>2 DEF LinuxMapped
<1>6. /\ new \in [Saved -> Values]
      /\ \A q \in SavedRegs : new[q] = IF SaveAt[q] = k THEN hw[c][q] ELSE saved[c][q]
      /\ new.mtrr = IF k = 18 THEN "on" ELSE saved[c].mtrr
  <2> DEFINE copy == Copy(saved[c], hw[c], Group(r))
  <2>1. saved[c] \in [Saved -> Values] /\ hw[c] \in [Regs -> Values]
    BY <1>1 DEF RegsOK
  <2>2. Group(r) \subseteq SavedRegs /\ SavedRegs \subseteq Saved
        /\ SavedRegs \subseteq Regs /\ "mtrr" \in Saved /\ "mtrr" \notin SavedRegs
    BY <1>4, GroupFacts, RegisterSets
  <2>3. copy \in [Saved -> Values]
        /\ \A q \in Saved : copy[q] = IF q \in Group(r) THEN hw[c][q] ELSE saved[c][q]
    BY <2>1, <2>2, CopyFacts
  <2> HIDE DEF copy
  <2>4. \A q \in SavedRegs : copy[q] = IF SaveAt[q] = k THEN hw[c][q] ELSE saved[c][q]
    BY <1>4, <2>2, <2>3
  <2>5. copy["mtrr"] = saved[c].mtrr
    BY <2>2, <2>3
  <2>6. r = "pat" => new = [copy EXCEPT !.mtrr = "on"]
    BY <1>4, GroupFacts DEF copy
  <2>7. r # "pat" => new = copy
    BY DEF copy
  <2> HIDE DEF new
  <2>8. CASE r = "pat"
    <3>1. "on" \in Values
      BY DEF Values
    <3> QED BY <1>4, <2>2, <2>3, <2>4, <2>6, <2>8, <3>1
  <2>9. CASE r # "pat"
    BY <1>4, <2>3, <2>4, <2>5, <2>7, <2>9
  <2> QED BY <2>8, <2>9
<1>7. Continue(c)
  BY <1>1, <1>5 DEF Unless
<1> HIDE DEF k, new, r
<1>8. PcOK' /\ pc'[c].op = "init" /\ pc'[c].at = k + 1
      /\ \A d \in CPUs \ {c} : pc'[d] = pc[d]
  BY <1>2, <1>4, <1>7, InitContinue DEF k
<1>9. saved' \in [CPUs -> [Saved -> Values]] /\ saved'[c] = new
      /\ \A d \in CPUs \ {c} : saved'[d] = saved[d]
  BY <1>1, <1>6 DEF RegsOK
<1>10. InitEffect(c, k)
  BY <1>1, <1>4, <1>6, <1>9 DEF InitEffect
<1>11. Here(c)'
  BY <1>2, <1>3, <1>8, <1>10, InitAdvance DEF k
<1>12. RegsOK' /\ SharedOK'
  BY <1>1, <1>9 DEF RegsOK, SharedOK
<1>13. Elsewhere(c)
  BY <1>1, <1>8, <1>9 DEF Elsewhere, SameCpu
<1>14. pc'[c].at # 13
  <2>1. k # 12 /\ k \in 1 .. 27
    BY <1>3, <1>4
  <2> QED BY <1>8, <2>1
<1>15. \A d \in CPUs : InTurn(d)' /\ TssCopied(d)'
  BY <1>1, <1>2, <1>8, <1>13, <1>14, InitSharedKept
<1> QED BY <1>8, <1>11, <1>12, <1>13, <1>15, IInvFrom

LEMMA LoadSpyStep ==
  ASSUME IInv, NEW c \in CPUs, LoadSpy(c)
  PROVE  IInv'
<1> DEFINE k == pc[c].at
           r == Statement(c)[2]
           new == Copy(hw[c], SpyRegs, Group(r))
<1>1. /\ PcOK /\ RegsOK /\ SharedOK
      /\ At(c, "spy")
      /\ hw' = [hw EXCEPT ![c] = new]
      /\ gdt' = IF r = "tr" THEN [gdt EXCEPT !.spy = TRUE] ELSE gdt
      /\ Unless(c, \/ r = "cs" /\ hw[c].gdtr # "spy"
                   \/ r = "tr" /\ (hw[c].gdtr # "spy" \/ gdt.spy))
      /\ vmxop' = vmxop /\ saved' = saved /\ init' = init /\ vmcs' = vmcs
      /\ linux' = linux /\ tssLock' = tssLock /\ boot' = boot
  BY DEF IInv, LoadSpy, linuxVars
<1>2. pc[c].op = "init" /\ InitRoutine[k][1] = "spy"
  BY <1>1, InitKinds
<1>3. /\ Initializing(c) /\ k \in 1 .. 27 /\ k \in 1 .. Len(InitRoutine)
      /\ r = InitRoutine[k][2]
  BY <1>2, InitHere
<1>4. /\ k \notin {3, 12, 18, 21, 22, 23, 26, 27}
      /\ r \in SavedRegs \ {"vmxe"}
      /\ \A q \in Regs : q \in Group(r) <=> SpyAt[q] = k
      /\ \A q \in SavedRegs : SaveAt[q] # k
      /\ r = "tr" <=> k = 13
      /\ r = "cs" => k = 8
  BY <1>2, <1>3, SpyStatement
<1>5. /\ new \in [Regs -> Values]
      /\ \A q \in Regs : new[q] = IF SpyAt[q] = k THEN SpyRegs[q] ELSE hw[c][q]
  <2>1. hw[c] \in [Regs -> Values] /\ SpyRegs \in [Regs -> Values]
    BY <1>1 DEF RegsOK, SpyRegs, Values
  <2>2. /\ new \in [Regs -> Values]
        /\ \A q \in Regs : new[q] = IF q \in Group(r) THEN SpyRegs[q] ELSE hw[c][q]
    BY <2>1, CopyFacts
  <2> HIDE DEF new
  <2> QED BY <1>4, <2>2
<1>6. k > 7 => hw[c].gdtr = "spy"
  <2>1. "gdtr" \in Regs /\ SpyRegs["gdtr"] = "spy"
    BY DEF Regs, GuestRegs, SpyRegs
  <2> QED BY <1>3, <2>1, Positions DEF Initializing
<1>7. k = 13 => ~ gdt.spy
  <2>1. InTurn(c)
    BY DEF IInv
  <2> QED BY <1>2, <2>1 DEF InTurn
<1>8. Continue(c)
  <2>1. r = "cs" \/ r = "tr" => k > 7
    BY <1>4
  <2> QED BY <1>1, <1>4, <1>6, <1>7, <2>1 DEF Unless
<1> HIDE DEF k, new, r
<1>9. PcOK' /\ pc'[c].op = "init" /\ pc'[c].at = k + 1
      /\ \A d \in CPUs \ {c} : pc'[d] = pc[d]
  BY <1>2, <1>4, <1>8, InitContinue DEF k
<1>10. hw' \in [CPUs -> [Regs -> Values]] /\ hw'[c] = new
       /\ \A d \in CPUs \ {c} : hw'[d] = hw[d]
  BY <1>1, <1>5 DEF RegsOK
<1>11. InitEffect(c, k)
  BY <1>1, <1>4, <1>5, <1>10 DEF InitEffect
<1>12. Here(c)'
  BY <1>2, <1>3, <1>9, <1>11, InitAdvance DEF k
<1>13. RegsOK'
  BY <1>1, <1>10 DEF RegsOK
<1>14. gdt' \in [spy : BOOLEAN, low : (CPUs \X Values) \cup {<<>>},
                 high : (CPUs \X Values) \cup {<<>>}, busy : BOOLEAN]
       /\ gdt'.low = gdt.low /\ gdt'.high = gdt.high /\ gdt'.busy = gdt.busy
  BY <1>1 DEF SharedOK
<1>15. SharedOK'
  BY <1>1, <1>14 DEF SharedOK
<1>16. Elsewhere(c)
  BY <1>1, <1>9, <1>10 DEF Elsewhere, SameCpu
<1>17. pc'[c].at # 13
  <2>1. k # 12 /\ k \in 1 .. 27
    BY <1>3, <1>4
  <2> QED BY <1>9, <2>1
<1>18. \A d \in CPUs : InTurn(d)' /\ TssCopied(d)'
  BY <1>1, <1>2, <1>9, <1>14, <1>16, <1>17, InitSharedKept
<1> QED BY <1>9, <1>12, <1>13, <1>15, <1>16, <1>18, IInvFrom

LEMMA ClearBusyStep ==
  ASSUME IInv, NEW c \in CPUs, ClearBusy(c)
  PROVE  IInv'
<1> DEFINE k == pc[c].at
<1>1. /\ PcOK /\ RegsOK /\ SharedOK
      /\ At(c, "unbusy")
      /\ gdt' = [gdt EXCEPT !.spy = FALSE]
      /\ Continue(c)
      /\ hw' = hw /\ vmxop' = vmxop /\ saved' = saved /\ init' = init
      /\ vmcs' = vmcs /\ linux' = linux /\ tssLock' = tssLock /\ boot' = boot
  BY DEF IInv, ClearBusy, linuxVars
<1>2. pc[c].op = "init" /\ InitRoutine[k][1] = "unbusy"
  BY <1>1, InitKinds
<1>3. k \in 1 .. 27 /\ k \in 1 .. Len(InitRoutine)
  BY <1>2, InitHere
<1>4. /\ k = 12
      /\ \A q \in Regs : SpyAt[q] # k
      /\ \A q \in SavedRegs : SaveAt[q] # k
  BY <1>2, <1>3, InitStatement
<1> HIDE DEF k
<1>5. /\ PcOK' /\ pc'[c].op = "init" /\ pc'[c].at = k + 1
      /\ \A d \in CPUs \ {c} : pc'[d] = pc[d]
  BY <1>1, <1>2, <1>4, InitContinue DEF k
<1>6. InitEffect(c, k)
  BY <1>1, <1>4 DEF InitEffect
<1>7. Here(c)'
  BY <1>2, <1>3, <1>5, <1>6, InitAdvance DEF k
<1>8. /\ gdt' \in [spy : BOOLEAN, low : (CPUs \X Values) \cup {<<>>},
                   high : (CPUs \X Values) \cup {<<>>}, busy : BOOLEAN]
      /\ gdt'.low = gdt.low /\ gdt'.high = gdt.high /\ gdt'.busy = gdt.busy
      /\ ~ gdt'.spy
  BY <1>1 DEF SharedOK
<1>9. RegsOK' /\ SharedOK'
  BY <1>1, <1>8 DEF RegsOK, SharedOK
<1>10. Elsewhere(c)
  BY <1>1, <1>5 DEF Elsewhere, SameCpu
<1>11. \A d \in CPUs : InTurn(d)' /\ TssCopied(d)'
  BY <1>1, <1>2, <1>5, <1>8, <1>10, InitSharedKept
<1> QED BY <1>5, <1>7, <1>9, <1>10, <1>11, IInvFrom

LEMMA InitializedStep ==
  ASSUME IInv, NEW c \in CPUs, Initialized(c)
  PROVE  IInv'
<1> DEFINE k == pc[c].at
<1>1. /\ PcOK /\ RegsOK /\ SharedOK
      /\ At(c, "initialized")
      /\ init' = [init EXCEPT ![c] = TRUE]
      /\ Continue(c)
      /\ hw' = hw /\ vmxop' = vmxop /\ saved' = saved /\ gdt' = gdt
      /\ vmcs' = vmcs /\ linux' = linux /\ tssLock' = tssLock /\ boot' = boot
  BY DEF IInv, Initialized, linuxVars, sharedVars
<1>2. pc[c].op = "init" /\ InitRoutine[k][1] = "initialized"
  BY <1>1, InitKinds
<1>3. k \in 1 .. 27 /\ k \in 1 .. Len(InitRoutine)
  BY <1>2, InitHere
<1>4. /\ k = 21
      /\ \A q \in Regs : SpyAt[q] # k
      /\ \A q \in SavedRegs : SaveAt[q] # k
  BY <1>2, <1>3, InitStatement
<1> HIDE DEF k
<1>5. /\ PcOK' /\ pc'[c].op = "init" /\ pc'[c].at = k + 1
      /\ \A d \in CPUs \ {c} : pc'[d] = pc[d]
  BY <1>1, <1>2, <1>4, InitContinue DEF k
<1>6. /\ init' \in [CPUs -> BOOLEAN] /\ init'[c]
      /\ \A d \in CPUs \ {c} : init'[d] = init[d]
  BY <1>1 DEF RegsOK
<1>7. InitEffect(c, k)
  BY <1>1, <1>4, <1>6 DEF InitEffect
<1>8. Here(c)'
  BY <1>2, <1>3, <1>5, <1>7, InitAdvance DEF k
<1>9. RegsOK' /\ SharedOK'
  BY <1>1, <1>6 DEF RegsOK, SharedOK
<1>10. Elsewhere(c)
  BY <1>1, <1>5, <1>6 DEF Elsewhere, SameCpu
<1>11. pc'[c].at # 13
  BY <1>4, <1>5
<1>12. \A d \in CPUs : InTurn(d)' /\ TssCopied(d)'
  BY <1>1, <1>2, <1>5, <1>10, <1>11, InitSharedKept
<1> QED BY <1>5, <1>8, <1>9, <1>10, <1>12, IInvFrom

\* What a failing CPU has done is what arch_cpu_restore can undo.
LEMMA FailHere ==
  ASSUME IInv, NEW c \in CPUs, pc[c].op = "init", pc[c].at \in {3} \cup 22 .. 27,
         pc'[c].op = "back",
         linux'[c] = linux[c], init'[c] = init[c], saved'[c] = saved[c],
         vmxop'[c] = vmxop[c],
         \A q \in Regs \ {"cr4", "vmxe"} : hw'[c][q] = hw[c][q],
         pc[c].at = 3 => hw'[c] = hw[c]
  PROVE  Here(c)'
<1> DEFINE k == pc[c].at
<1>1. Initializing(c) /\ RegsOK /\ k \in 1 .. 27
  BY InitHere DEF IInv
<1>2. CASE k = 3
  <2>1. \A q \in Regs : SpyAt[q] \in 7 .. 28 /\ ~ (SpyAt[q] < k)
    BY <1>2, Positions
  <2>2. \A q \in Regs : hw[c][q] = linux[c][q]
    BY <1>1, <2>1 DEF Initializing
  <2>3. hw[c] \in [Regs -> Values]
        /\ linux[c] \in [Regs -> {"old", "new", "on", "off"}]
    BY <1>1 DEF RegsOK
  <2>4. hw[c] = linux[c]
    BY <2>2, <2>3
  <2>5. ~ init[c] /\ vmxop[c] = LinuxVmx(c)
    BY <1>1, <1>2 DEF Initializing
  <2>6. Untouched(c)' /\ ~ init'[c]
    BY <1>2, <2>4, <2>5 DEF Untouched, LinuxVmx
  <2> QED BY <2>6 DEF Here
<1>3. CASE k \in 22 .. 27
  <2>1. init[c]
    BY <1>1, <1>3 DEF Initializing
  <2>2. {"gdtr", "cr3", "sysenter"} \subseteq Regs \ {"cr4", "vmxe"}
        /\ SpyRegs["gdtr"] = "spy" /\ SpyRegs["cr3"] = "spy"
    BY DEF Regs, GuestRegs, SpyRegs
  <2>3. SpyAt["gdtr"] < k /\ SpyAt["cr3"] < k /\ ~ (SpyAt["sysenter"] < k)
    BY <1>3, Positions
  <2>4. hw[c].gdtr = "spy" /\ hw[c].cr3 = "spy" /\ hw[c].sysenter = linux[c].sysenter
    BY <1>1, <2>2, <2>3 DEF Initializing
  <2>5. \A q \in SavedRegs : saved[c][q] = linux[c][q]
    <3>1. \A q \in SavedRegs : SaveAt[q] < k
      BY <1>3, Positions
    <3> QED BY <1>1, <3>1 DEF Initializing
  <2>6. "vmxe" \in SavedRegs
    BY DEF SavedRegs, Saved, Regs
  <2>7. InVmx(c) \/ vmxop[c] = LinuxVmx(c)
    <3>1. k > 26 => vmxop[c] = "spy" /\ linux[c].vmxe = "off"
      BY <1>1 DEF Initializing
    <3>2. ~ (k > 26) => vmxop[c] = LinuxVmx(c)
      BY <1>1 DEF Initializing
    <3> QED BY <3>1, <3>2 DEF InVmx
  <2>8. Restorable(c)'
    BY <2>1, <2>2, <2>4, <2>5, <2>6, <2>7 DEF Restorable, InVmx, LinuxVmx
  <2>9. init'[c]
    BY <2>1
  <2> QED BY <2>8, <2>9 DEF Here
<1> QED BY <1>2, <1>3

LEMMA FailFacts ==
  ASSUME IInv, NEW c \in CPUs, pc[c].op = "init", Fail(c)
  PROVE  /\ PcOK' /\ pc'[c].op = "back"
         /\ \A d \in CPUs \ {c} : pc'[d] = pc[d]
         /\ boot' \in [lock : CPUs \cup {Nobody}, err : BOOLEAN, active : BOOLEAN]
         /\ boot'.lock = Nobody
<1>1. PcOK /\ SharedOK /\ Goto(c, "back")
      /\ boot' = [boot EXCEPT !.lock = Nobody, !.err = TRUE]
  BY DEF IInv, Fail
<1>2. "back" \in Ops
  BY DEF Ops
<1>3. /\ PcOK' /\ pc'[c].op = "back"
      /\ \A d \in CPUs \ {c} : pc'[d] = pc[d]
  BY <1>1, <1>2, GotoFacts
<1>4. boot \in [lock : CPUs \cup {Nobody}, err : BOOLEAN, active : BOOLEAN]
  BY <1>1 DEF SharedOK
<1>5. /\ boot' \in [lock : CPUs \cup {Nobody}, err : BOOLEAN, active : BOOLEAN]
      /\ boot'.lock = Nobody
  BY <1>1, <1>4
<1> QED BY <1>3, <1>5

LEMMA CheckStep ==
  ASSUME IInv, NEW c \in CPUs, Check(c)
  PROVE  IInv'
<1> DEFINE k == pc[c].at
<1>1. /\ PcOK /\ RegsOK /\ SharedOK
      /\ At(c, "check")
      /\ \/ /\ Statement(c)[2] = "vmx" => saved[c].vmxe = "off"
            /\ Continue(c)
            /\ boot' = boot
         \/ Fail(c)
      /\ hw' = hw /\ vmxop' = vmxop /\ saved' = saved /\ init' = init
      /\ vmcs' = vmcs /\ linux' = linux /\ tssLock' = tssLock /\ gdt' = gdt
  BY DEF IInv, Check, linuxVars, sharedVars
<1>2. pc[c].op = "init" /\ InitRoutine[k][1] = "check"
  BY <1>1, InitKinds
<1>3. /\ Initializing(c) /\ k \in 1 .. 27 /\ k \in 1 .. Len(InitRoutine)
      /\ Statement(c) = InitRoutine[k]
  BY <1>2, InitHere
<1>4. /\ k \in {3, 22, 23}
      /\ \A q \in Regs : SpyAt[q] # k
      /\ \A q \in SavedRegs : SaveAt[q] # k
      /\ Statement(c)[2] = "vmx" <=> k = 23
  BY <1>2, <1>3, InitStatement
<1> HIDE DEF k
<1>5. RegsOK'
  BY <1>1 DEF RegsOK
<1>6. CASE /\ Statement(c)[2] = "vmx" => saved[c].vmxe = "off"
           /\ Continue(c)
           /\ boot' = boot
  <2>1. /\ PcOK' /\ pc'[c].op = "init" /\ pc'[c].at = k + 1
        /\ \A d \in CPUs \ {c} : pc'[d] = pc[d]
    BY <1>2, <1>4, <1>6, InitContinue DEF k
  <2>2. k = 23 => linux[c].vmxe = "off"
    <3>1. "vmxe" \in SavedRegs
      BY DEF SavedRegs, Saved, Regs
    <3>2. k = 23 => saved[c].vmxe = linux[c].vmxe
      BY <1>3, <3>1, Positions DEF Initializing, k
    <3> QED BY <1>4, <1>6, <3>2
  <2>3. InitEffect(c, k)
    BY <1>1, <1>4, <2>2 DEF InitEffect
  <2>4. Here(c)'
    BY <1>2, <1>3, <2>1, <2>3, InitAdvance DEF k
  <2>5. SharedOK'
    BY <1>1, <1>6 DEF SharedOK
  <2>6. Elsewhere(c)
    BY <1>1, <2>1 DEF Elsewhere, SameCpu
  <2>7. pc'[c].at # 13
    BY <1>4, <2>1
  <2>8. \A d \in CPUs : InTurn(d)' /\ TssCopied(d)'
    BY <1>1, <1>2, <1>6, <2>1, <2>6, <2>7, InitSharedKept
  <2> QED BY <1>5, <2>1, <2>4, <2>5, <2>6, <2>8, IInvFrom
<1>7. CASE Fail(c)
  <2>1. /\ PcOK' /\ pc'[c].op = "back"
        /\ \A d \in CPUs \ {c} : pc'[d] = pc[d]
        /\ boot' \in [lock : CPUs \cup {Nobody}, err : BOOLEAN, active : BOOLEAN]
        /\ boot'.lock = Nobody
    BY <1>2, <1>7, FailFacts
  <2>2. k \in {3} \cup 22 .. 27
    BY <1>4
  <2>3. Here(c)'
    BY <1>1, <1>2, <2>1, <2>2, FailHere DEF k
  <2>4. SharedOK'
    BY <1>1, <2>1 DEF SharedOK
  <2>5. Elsewhere(c)
    BY <1>1, <2>1 DEF Elsewhere, SameCpu
  <2>6. \A d \in CPUs : InTurn(d)' /\ TssCopied(d)'
    BY <1>1, <1>2, <2>1, <2>5, FailSharedKept
  <2> QED BY <1>5, <2>1, <2>3, <2>4, <2>5, <2>6, IInvFrom
<1> QED BY <1>1, <1>6, <1>7

LEMMA VmxonStep ==
  ASSUME IInv, NEW c \in CPUs, Vmxon(c)
  PROVE  IInv'
<1> DEFINE k == pc[c].at
           new == Copy(hw[c], saved[c], Group("cr4"))
<1>1. /\ PcOK /\ RegsOK /\ SharedOK
      /\ At(c, "vmxon")
      /\ \/ /\ vmxop' = [vmxop EXCEPT ![c] = "spy"]
            /\ Unless(c, hw[c].vmxe = "off")
            /\ hw' = hw /\ boot' = boot
         \/ /\ hw' = [hw EXCEPT ![c] = new]
            /\ Fail(c)
            /\ vmxop' = vmxop
      /\ saved' = saved /\ init' = init
      /\ vmcs' = vmcs /\ linux' = linux /\ tssLock' = tssLock /\ gdt' = gdt
  BY DEF IInv, Vmxon, linuxVars, sharedVars
<1>2. pc[c].op = "init" /\ InitRoutine[k][1] = "vmxon"
  BY <1>1, InitKinds
<1>3. /\ Initializing(c) /\ k \in 1 .. 27 /\ k \in 1 .. Len(InitRoutine)
  BY <1>2, InitHere
<1>4. /\ k = 26
      /\ \A q \in Regs : SpyAt[q] # k
      /\ \A q \in SavedRegs : SaveAt[q] # k
  BY <1>2, <1>3, InitStatement
<1>5. /\ new \in [Regs -> Values]
      /\ \A q \in Regs \ {"cr4", "vmxe"} : new[q] = hw[c][q]
  <2>1. saved[c] \in [Saved -> Values] /\ hw[c] \in [Regs -> Values]
    BY <1>1 DEF RegsOK
  <2>2. Group("cr4") = {"cr4", "vmxe"}
    BY DEF Group
  <2>3. Group("cr4") \cap Regs \subseteq Saved
    BY <2>2 DEF Saved
  <2> QED BY <2>1, <2>2, <2>3, CopyFacts
<1> HIDE DEF k, new
<1>6. CASE /\ vmxop' = [vmxop EXCEPT ![c] = "spy"]
           /\ Unless(c, hw[c].vmxe = "off")
           /\ hw' = hw /\ boot' = boot
  <2>1. hw[c].vmxe = "on"
    <3>1. "vmxe" \in Regs /\ SpyRegs["vmxe"] = "on"
      BY DEF Regs, SpyRegs
    <3> QED BY <1>3, <1>4, <3>1, Positions DEF Initializing, k
  <2>2. Continue(c)
    BY <1>6, <2>1 DEF Unless
  <2>3. /\ PcOK' /\ pc'[c].op = "init" /\ pc'[c].at = k + 1
        /\ \A d \in CPUs \ {c} : pc'[d] = pc[d]
    BY <1>2, <1>4, <2>2, InitContinue DEF k
  <2>4. /\ vmxop' \in [CPUs -> {"off", "linux", "spy"}] /\ vmxop'[c] = "spy"
        /\ \A d \in CPUs \ {c} : vmxop'[d] = vmxop[d]
    BY <1>1, <1>6 DEF RegsOK
  <2>5. InitEffect(c, k)
    BY <1>1, <1>4, <1>6, <2>4 DEF InitEffect
  <2>6. Here(c)'
    BY <1>2, <1>3, <2>3, <2>5, InitAdvance DEF k
  <2>7. RegsOK' /\ SharedOK'
    BY <1>1, <1>6, <2>4 DEF RegsOK, SharedOK
  <2>8. Elsewhere(c)
    BY <1>1, <1>6, <2>3, <2>4 DEF Elsewhere, SameCpu
  <2>9. pc'[c].at # 13
    BY <1>4, <2>3
  <2>10. \A d \in CPUs : InTurn(d)' /\ TssCopied(d)'
    BY <1>1, <1>2, <1>6, <2>3, <2>8, <2>9, InitSharedKept
  <2> QED BY <2>3, <2>6, <2>7, <2>8, <2>10, IInvFrom
<1>7. CASE /\ hw' = [hw EXCEPT ![c] = new]
           /\ Fail(c)
           /\ vmxop' = vmxop
  <2>1. /\ PcOK' /\ pc'[c].op = "back"
        /\ \A d \in CPUs \ {c} : pc'[d] = pc[d]
        /\ boot' \in [lock : CPUs \cup {Nobody}, err : BOOLEAN, active : BOOLEAN]
        /\ boot'.lock = Nobody
    BY <1>2, <1>7, FailFacts
  <2>2. k \in {3} \cup 22 .. 27 /\ k # 3
    BY <1>4
  <2>3. /\ hw' \in [CPUs -> [Regs -> Values]] /\ hw'[c] = new
        /\ \A d \in CPUs \ {c} : hw'[d] = hw[d]
    BY <1>1, <1>5, <1>7 DEF RegsOK
  <2>4. Here(c)'
    BY <1>1, <1>2, <1>5, <1>7, <2>1, <2>2, <2>3, FailHere DEF k
  <2>5. RegsOK' /\ SharedOK'
    BY <1>1, <1>7, <2>1, <2>3 DEF RegsOK, SharedOK
  <2>6. Elsewhere(c)
    BY <1>1, <1>7, <2>1, <2>3 DEF Elsewhere, SameCpu
  <2>7. \A d \in CPUs : InTurn(d)' /\ TssCopied(d)'
    BY <1>1, <1>2, <2>1, <2>6, FailSharedKept
  <2> QED BY <2>1, <2>4, <2>5, <2>6, <2>7, IInvFrom
<1> QED BY <1>1, <1>6, <1>7

LEMMA SetupVmcsStep ==
  ASSUME IInv, NEW c \in CPUs, SetupVmcs(c)
  PROVE  IInv'
<1> DEFINE k == pc[c].at
           copy == Copy(hw[c], saved[c], Regs \ {"sysenter"})
           new == [copy EXCEPT !.vmxe = "on"]
<1>1. /\ PcOK /\ RegsOK /\ SharedOK
      /\ At(c, "setup")
      /\ \/ /\ vmcs' = [vmcs EXCEPT ![c] = new]
            /\ Continue(c)
            /\ boot' = boot
         \/ Fail(c) /\ vmcs' = vmcs
      /\ hw' = hw /\ vmxop' = vmxop /\ saved' = saved /\ init' = init
      /\ linux' = linux /\ tssLock' = tssLock /\ gdt' = gdt
  BY DEF IInv, SetupVmcs, sharedVars
<1>2. pc[c].op = "init" /\ InitRoutine[k][1] = "setup"
  BY <1>1, InitKinds
<1>3. /\ Initializing(c) /\ k \in 1 .. 27 /\ k \in 1 .. Len(InitRoutine)
      /\ Len(Routine(pc[c].op)) = 27
  BY <1>2, InitHere
<1>4. k = 27
  BY <1>2, <1>3, InitStatement
<1> HIDE DEF k
<1>5. Elsewhere(c) <=> \A d \in CPUs \ {c} : pc'[d] = pc[d] /\ vmcs'[d] = vmcs[d]
  BY <1>1 DEF Elsewhere, SameCpu
<1>6. CASE /\ vmcs' = [vmcs EXCEPT ![c] = new]
           /\ Continue(c)
           /\ boot' = boot
  <2>1. /\ PcOK' /\ pc'[c].op = "done"
        /\ \A d \in CPUs \ {c} : pc'[d] = pc[d]
    <3>1. pc[c].at = Len(Routine(pc[c].op)) /\ pc[c].op \in {"init", "restore"}
      BY <1>2, <1>3, <1>4 DEF k
    <3> QED BY <1>1, <1>2, <1>6, <3>1, ContinueFacts
  <2>2. \A q \in SavedRegs : saved[c][q] = linux[c][q]
    <3>1. \A q \in SavedRegs : SaveAt[q] < k
      BY <1>4, Positions
    <3> QED BY <1>3, <3>1 DEF Initializing, k
  <2>3. /\ copy \in [Regs -> Values]
        /\ \A q \in Regs : copy[q] = IF q # "sysenter" THEN saved[c][q] ELSE hw[c][q]
    <3>1. saved[c] \in [Saved -> Values] /\ hw[c] \in [Regs -> Values]
      BY <1>1 DEF RegsOK
    <3>2. (Regs \ {"sysenter"}) \cap Regs \subseteq Saved
      BY DEF Saved
    <3>3. /\ copy \in [Regs -> Values]
          /\ \A q \in Regs : copy[q] = IF q \in Regs \ {"sysenter"}
                                       THEN saved[c][q] ELSE hw[c][q]
      BY <3>1, <3>2, CopyFacts
    <3> HIDE DEF copy
    <3> QED BY <3>3
  <2> HIDE DEF copy
  <2>4. hw[c].sysenter = linux[c].sysenter
    <3>1. "sysenter" \in Regs /\ ~ (SpyAt["sysenter"] < k)
      BY <1>4, Positions DEF Regs, GuestRegs
    <3> QED BY <1>3, <3>1 DEF Initializing, k
  <2>5. /\ new \in [Regs -> Values]
        /\ \A q \in Regs \ {"vmxe"} : new[q] = linux[c][q]
    <3>1. "on" \in Values
      BY DEF Values
    <3>2. \A q \in Regs : copy[q] = linux[c][q]
      BY <2>2, <2>3, <2>4, RegisterSets
    <3> QED BY <2>3, <3>1, <3>2
  <2> HIDE DEF new
  <2>6. /\ vmcs' \in [CPUs -> [Regs -> Values]] /\ vmcs'[c] = new
        /\ \A d \in CPUs \ {c} : vmcs'[d] = vmcs[d]
    BY <1>1, <1>6, <2>5 DEF RegsOK
  <2>7. /\ init[c] /\ saved[c].mtrr = "on" /\ linux[c].vmxe = "off"
        /\ vmxop[c] = "spy"
    BY <1>3, <1>4 DEF Initializing, k
  <2>8. hw[c].gdtr = "spy" /\ hw[c].cr3 = "spy"
    <3>1. {"gdtr", "cr3"} \subseteq Regs
          /\ SpyRegs["gdtr"] = "spy" /\ SpyRegs["cr3"] = "spy"
      BY DEF Regs, GuestRegs, SpyRegs
    <3> QED BY <1>3, <1>4, <3>1, Positions DEF Initializing, k
  <2>9. InVmx(c)
    BY <2>7 DEF InVmx
  <2>10. Restorable(c)
    BY <2>2, <2>4, <2>7, <2>8, <2>9 DEF Restorable
  <2>11. \A q \in GuestRegs \cup {"pat"} : q \in Regs \ {"vmxe"}
    BY DEF Regs, GuestRegs
  <2>12. Prepared(c)'
    <3>1. InVmx(c)' /\ Restorable(c)'
      BY <1>1, <2>9, <2>10 DEF InVmx, Restorable, LinuxVmx
    <3>2. saved'[c].mtrr = "on" /\ vmcs'[c].pat = linux'[c].pat
          /\ \A q \in GuestRegs : vmcs'[c][q] = linux'[c][q]
      BY <1>1, <2>5, <2>6, <2>7, <2>11
    <3> QED BY <3>1, <3>2 DEF Prepared
  <2>13. Here(c)'
    BY <2>1, <2>12 DEF Here
  <2>14. RegsOK' /\ SharedOK'
    BY <1>1, <1>6, <2>6 DEF RegsOK, SharedOK
  <2>15. Elsewhere(c)
    BY <1>5, <2>1, <2>6
  <2>16. \A d \in CPUs : InTurn(d)' /\ TssCopied(d)'
    BY <1>1, <1>2, <1>6, <2>1, <2>15, InitSharedKept
  <2> QED BY <2>1, <2>13, <2>14, <2>15, <2>16, IInvFrom
<1>7. CASE Fail(c) /\ vmcs' = vmcs
  <2>1. /\ PcOK' /\ pc'[c].op = "back"
        /\ \A d \in CPUs \ {c} : pc'[d] = pc[d]
        /\ boot' \in [lock : CPUs \cup {Nobody}, err : BOOLEAN, active : BOOLEAN]
        /\ boot'.lock = Nobody
    BY <1>2, <1>7, FailFacts
  <2>2. k \in {3} \cup 22 .. 27
    BY <1>4
  <2>3. Here(c)'
    BY <1>1, <1>2, <2>1, <2>2, FailHere DEF k
  <2>4. RegsOK' /\ SharedOK'
    BY <1>1, <1>7, <2>1 DEF RegsOK, SharedOK
  <2>5. Elsewhere(c)
    BY <1>5, <1>7, <2>1
  <2>6. \A d \in CPUs : InTurn(d)' /\ TssCopied(d)'
    BY <1>1, <1>2, <2>1, <2>5, FailSharedKept
  <2> QED BY <2>1, <2>3, <2>4, <2>5, <2>6, IInvFrom
<1> QED BY <1>1, <1>6, <1>7

-----------------------------------------------------------------------------
(***************************************************************************)
(* arch_cpu_restore.                                                       *)
(***************************************************************************)
LEMMA RestoreHere ==
  ASSUME IInv, NEW c \in CPUs, pc[c].op = "restore"
  PROVE  /\ Restoring(c)
         /\ pc[c].at \in 1 .. 16
         /\ pc[c].at \in 1 .. Len(RestoreRoutine)
         /\ Statement(c) = RestoreRoutine[pc[c].at]
         /\ Len(Routine(pc[c].op)) = 16
         /\ boot.lock # c
         /\ pc[c].at \in 8 .. 11 <=> tssLock = c
         /\ pc[c].at \in 9 .. 10 => gdt.low = <<c, linux[c].tr>> /\ ~ gdt.busy
         /\ pc[c].at = 10 => gdt.high = gdt.low
<1>1. PcOK /\ Here(c) /\ InTurn(c) /\ TssCopied(c)
  BY DEF IInv
<1>2. Restoring(c)
  BY <1>1 DEF Here
<1>3. boot.lock # c
  BY <1>1 DEF InTurn
<1>4. /\ pc[c].at \in 8 .. 11 <=> tssLock = c
      /\ pc[c].at \in 9 .. 10 => gdt.low = <<c, linux[c].tr>> /\ ~ gdt.busy
      /\ pc[c].at = 10 => gdt.high = gdt.low
  BY <1>1 DEF TssCopied
<1> QED BY <1>1, <1>2, <1>3, <1>4, RestorePoint

LEMMA RestoreContinue ==
  ASSUME IInv, NEW c \in CPUs, pc[c].op = "restore", Continue(c)
  PROVE  /\ PcOK'
         /\ pc[c].at < 16 => pc'[c].op = "restore" /\ pc'[c].at = pc[c].at + 1
         /\ pc[c].at = 16 => pc'[c].op = "linux" /\ pc'[c].at = 1
         /\ \A d \in CPUs \ {c} : pc'[d] = pc[d]
<1>1. PcOK /\ Len(Routine(pc[c].op)) = 16 /\ pc[c].op \in {"init", "restore"}
  BY RestoreHere DEF IInv
<1> QED BY <1>1, ContinueFacts

\* A statement other than the first two that change what comes after: the
\* registers before k are loaded, and statement k loads its own.
LEMMA RestoreAdvance ==
  ASSUME IInv, NEW c \in CPUs, pc[c].op = "restore",
         NEW k \in 1 .. 16, k = pc[c].at, RestoreEffect(c, k),
         k < 16 => pc'[c].op = "restore" /\ pc'[c].at = k + 1,
         k = 16 => pc'[c].op = "linux"
  PROVE  Here(c)'
<1>1. Restoring(c) /\ RegsOK
  BY RestoreHere DEF IInv
<1>2. /\ linux' = linux /\ init' = init
      /\ hw' \in [CPUs -> [Regs -> Values]]
      /\ vmxop'[c] = LinuxVmx(c) /\ saved'[c].vmxe = linux[c].vmxe
      /\ \A q \in SavedRegs \ {"vmxe"} : saved'[c][q] = saved[c][q]
  BY DEF RestoreEffect
<1>3. ASSUME NEW q \in Regs, LoadAt[q] < k + 1
      PROVE  hw'[c][q] = linux[c][q]
  <2>1. LoadAt[q] \in 0 .. 16
    BY Positions
  <2>2. CASE LoadAt[q] = k
    BY <2>2 DEF RestoreEffect
  <2>3. CASE LoadAt[q] # k
    <3>1. LoadAt[q] < k
      BY <1>3, <2>1, <2>3
    <3>2. ~ (k = 15 /\ q = "bases")
      BY <3>1, Positions
    <3>3. hw'[c][q] = hw[c][q]
      BY <2>3, <3>2 DEF RestoreEffect
    <3> QED BY <1>1, <3>1, <3>3 DEF Restoring
  <2> QED BY <2>2, <2>3
<1>4. {"gdtr", "cr3"} \subseteq Regs
  BY DEF Regs, GuestRegs
<1>5. k < 12 => hw'[c].gdtr = "spy"
  <2>1. k < 12 => LoadAt["gdtr"] # k
    BY Positions
  <2>2. k < 12 => hw'[c].gdtr = hw[c].gdtr
    BY <1>4, <2>1 DEF RestoreEffect
  <2>3. k < 12 => hw[c].gdtr = "spy"
    BY <1>1 DEF Restoring
  <2> QED BY <2>2, <2>3
<1>6. k < 6 => hw'[c].cr3 = "spy"
  <2>1. k < 6 => LoadAt["cr3"] # k
    BY Positions
  <2>2. k < 6 => hw'[c].cr3 = hw[c].cr3
    BY <1>4, <2>1 DEF RestoreEffect
  <2>3. k < 6 => hw[c].cr3 = "spy"
    BY <1>1 DEF Restoring
  <2> QED BY <2>2, <2>3
<1>7. \A q \in SavedRegs \ {"vmxe"} : saved'[c][q] = linux'[c][q]
  BY <1>1, <1>2 DEF Restoring
<1>8. init[c]
  BY <1>1 DEF Restoring
<1>9. vmxop'[c] = LinuxVmx(c)' /\ saved'[c].vmxe = linux'[c].vmxe
  BY <1>2 DEF LinuxVmx
<1>10. CASE k < 16
  <2>1. pc'[c].op = "restore" /\ pc'[c].at = k + 1
    BY <1>10
  <2>2. pc'[c].at <= 12 => hw'[c].gdtr = "spy"
    BY <1>5, <2>1
  <2>3. pc'[c].at <= 6 => hw'[c].cr3 = "spy"
    BY <1>6, <2>1
  <2>4. \A q \in Regs : LoadAt[q] < pc'[c].at => hw'[c][q] = linux'[c][q]
    BY <1>2, <1>3, <2>1
  <2>5. Restoring(c)'
    BY <1>2, <1>7, <1>8, <1>9, <2>2, <2>3, <2>4 DEF Restoring
  <2> QED BY <2>1, <2>5 DEF Here
<1>11. CASE k = 16
  <2>1. \A q \in Regs : LoadAt[q] < k + 1
    BY <1>11, Positions
  <2>2. \A q \in Regs : hw'[c][q] = linux[c][q]
    BY <1>3, <2>1
  <2>3. hw'[c] \in [Regs -> Values]
        /\ linux[c] \in [Regs -> {"old", "new", "on", "off"}]
    BY <1>1, <1>2 DEF RegsOK
  <2>4. hw'[c] = linux[c]
    BY <2>2, <2>3
  <2>5. Untouched(c)'
    BY <1>2, <1>9, <2>4 DEF Untouched
  <2> QED BY <1>11, <2>5 DEF Here
<1> QED BY <1>10, <1>11

\* A statement that neither takes nor uses the lock.
LEMMA RestoreSharedKept ==
  ASSUME IInv, NEW c \in CPUs, pc[c].op = "restore", Elsewhere(c),
         NEW k \in 1 .. 16, k = pc[c].at, k \notin 7 .. 11,
         k < 16 => pc'[c].op = "restore" /\ pc'[c].at = k + 1,
         k = 16 => pc'[c].op = "linux",
         boot' = boot, tssLock' = tssLock, gdt' = gdt
  PROVE  \A d \in CPUs : InTurn(d)' /\ TssCopied(d)'
<1> SUFFICES ASSUME NEW d \in CPUs PROVE InTurn(d)' /\ TssCopied(d)'
  OBVIOUS
<1>1. boot.lock # c /\ tssLock # c
  BY RestoreHere
<1>2. InTurn(d) /\ TssCopied(d)
  BY DEF IInv
<1>3. CASE d = c
  <2>1. pc'[d].op \in {"restore", "linux"}
    BY <1>3
  <2>2. InTurn(d)'
    BY <1>1, <1>3, <2>1 DEF InTurn
  <2>3. pc'[d].op = "restore" => pc'[d].at \notin 8 .. 11
    BY <1>3
  <2>4. ~ (1 \in 8 .. 11) /\ 9 .. 10 \subseteq 8 .. 11 /\ 10 \in 9 .. 10
    OBVIOUS
  <2>5. TssCopied(d)'
    BY <1>1, <1>3, <2>3, <2>4 DEF TssCopied
  <2> QED BY <2>2, <2>5
<1>4. CASE d # c
  <2>1. pc'[d] = pc[d] /\ linux'[d] = linux[d]
    BY <1>4 DEF Elsewhere, SameCpu
  <2> QED BY <1>2, <2>1, TurnKept, CopyKept
<1> QED BY <1>3, <1>4

LEMMA VcpuExitStep ==
  ASSUME IInv, NEW c \in CPUs, VcpuExit(c)
  PROVE  IInv'
<1> DEFINE k == pc[c].at
<1>1. /\ PcOK /\ RegsOK /\ SharedOK
      /\ At(c, "exit")
      /\ IF vmxop[c] = "spy"
         THEN /\ vmxop' = [vmxop EXCEPT ![c] = "off"]
              /\ saved' = [saved EXCEPT ![c].vmxe = "off"]
         ELSE vmxop' = vmxop /\ saved' = saved
      /\ Continue(c)
      /\ hw' = hw /\ init' = init /\ vmcs' = vmcs /\ linux' = linux
      /\ gdt' = gdt /\ tssLock' = tssLock /\ boot' = boot
  BY DEF IInv, VcpuExit, linuxVars, sharedVars
<1>2. pc[c].op = "restore" /\ RestoreRoutine[k][1] = "exit"
  BY <1>1, RestoreKinds
<1>3. Restoring(c) /\ k \in 1 .. 16 /\ k \in 1 .. Len(RestoreRoutine)
  BY <1>2, RestoreHere
<1>4. k = 1 /\ \A q \in Regs : LoadAt[q] # k
  BY <1>2, <1>3, RestoreStatement
<1>5. \/ InVmx(c)
      \/ vmxop[c] = LinuxVmx(c) /\ saved[c].vmxe = linux[c].vmxe
  BY <1>3 DEF Restoring
<1>6. /\ PcOK' /\ pc'[c].op = "restore" /\ pc'[c].at = k + 1
      /\ \A d \in CPUs \ {c} : pc'[d] = pc[d]
  <2>1. k < 16
    BY <1>4
  <2> QED BY <1>1, <1>2, <2>1, RestoreContinue
<1>7. "vmxe" \in Saved /\ SavedRegs \subseteq Saved
  BY DEF Saved, Regs, SavedRegs
<1>8. LinuxVmx(c) # "spy"
  BY DEF LinuxVmx
<1> HIDE DEF k
<1>9. /\ vmxop' \in [CPUs -> {"off", "linux", "spy"}]
      /\ saved' \in [CPUs -> [Saved -> Values]]
      /\ vmxop'[c] = LinuxVmx(c) /\ saved'[c].vmxe = linux[c].vmxe
      /\ \A q \in SavedRegs \ {"vmxe"} : saved'[c][q] = saved[c][q]
      /\ \A d \in CPUs \ {c} : vmxop'[d] = vmxop[d] /\ saved'[d] = saved[d]
  <2>1. CASE vmxop[c] = "spy"
    <3>1. linux[c].vmxe = "off" /\ LinuxVmx(c) = "off"
      BY <1>5, <1>8, <2>1 DEF InVmx, LinuxVmx
    <3>2. /\ vmxop' \in [CPUs -> {"off", "linux", "spy"}]
          /\ vmxop'[c] = "off"
          /\ \A d \in CPUs \ {c} : vmxop'[d] = vmxop[d]
      BY <1>1, <2>1 DEF RegsOK
    <3> DEFINE new == [saved[c] EXCEPT !.vmxe = "off"]
    <3>3. saved[c] \in [Saved -> Values] /\ "off" \in Values
      BY <1>1 DEF RegsOK, Values
    <3>4. /\ new \in [Saved -> Values] /\ new.vmxe = "off"
          /\ \A q \in SavedRegs \ {"vmxe"} : new[q] = saved[c][q]
      BY <1>7, <3>3
    <3>5. saved' = [saved EXCEPT ![c] = new]
      BY <1>1, <2>1 DEF RegsOK
    <3> HIDE DEF new
    <3>6. /\ saved' \in [CPUs -> [Saved -> Values]]
          /\ saved'[c] = new
          /\ \A d \in CPUs \ {c} : saved'[d] = saved[d]
      BY <1>1, <3>4, <3>5 DEF RegsOK
    <3> QED BY <3>1, <3>2, <3>4, <3>6
  <2>2. CASE vmxop[c] # "spy"
    BY <1>1, <1>5, <2>2 DEF RegsOK, InVmx
  <2> QED BY <2>1, <2>2
<1>10. RestoreEffect(c, k)
  BY <1>1, <1>4, <1>9 DEF RestoreEffect, RegsOK
<1>11. Here(c)'
  BY <1>2, <1>3, <1>4, <1>6, <1>10, RestoreAdvance DEF k
<1>12. RegsOK' /\ SharedOK'
  BY <1>1, <1>9 DEF RegsOK, SharedOK
<1>13. Elsewhere(c)
  BY <1>1, <1>6, <1>9 DEF Elsewhere, SameCpu
<1>14. \A d \in CPUs : InTurn(d)' /\ TssCopied(d)'
  BY <1>1, <1>2, <1>3, <1>4, <1>6, <1>13, RestoreSharedKept DEF k
<1> QED BY <1>6, <1>11, <1>12, <1>13, <1>14, IInvFrom

\* The statements under tss_lock: no other CPU holds it.
LEMMA TssHere ==
  ASSUME IInv, NEW c \in CPUs, pc[c].op = "restore", Elsewhere(c),
         pc'[c].op = "restore",
         boot' = boot, gdt'.spy = gdt.spy,
         tssLock \in {c, Nobody}, tssLock' \in {c, Nobody},
         TssCopied(c)'
  PROVE  \A d \in CPUs : InTurn(d)' /\ TssCopied(d)'
<1> SUFFICES ASSUME NEW d \in CPUs PROVE InTurn(d)' /\ TssCopied(d)'
  OBVIOUS
<1>1. boot.lock # c
  BY RestoreHere
<1>2. InTurn(d) /\ TssCopied(d)
  BY DEF IInv
<1>3. CASE d = c
  <2>1. InTurn(d)'
    BY <1>1, <1>3 DEF InTurn
  <2> QED BY <1>3, <2>1
<1>4. CASE d # c
  <2>1. pc'[d] = pc[d] /\ linux'[d] = linux[d]
    BY <1>4 DEF Elsewhere, SameCpu
  <2>2. tssLock # d /\ tssLock' # d
    BY <1>4, CpuAssumption DEF CpuAssumption
  <2>3. InTurn(d)'
    BY <1>2, <2>1, TurnKept
  <2>4. TssCopied(d)'
    BY <1>2, <2>1, <2>2, CopyKept
  <2> QED BY <2>3, <2>4
<1> QED BY <1>3, <1>4

\* The registers after a statement that changes none.
LEMMA RestoreNothing ==
  ASSUME IInv, NEW c \in CPUs, pc[c].op = "restore", pc[c].at \in 2 .. 16,
         \A q \in Regs : LoadAt[q] # pc[c].at,
         hw' = hw, vmxop' = vmxop, saved' = saved, init' = init, linux' = linux
  PROVE  RestoreEffect(c, pc[c].at)
<1>1. Restoring(c) /\ RegsOK
  BY RestoreHere DEF IInv
<1>2. vmxop[c] = LinuxVmx(c) /\ saved[c].vmxe = linux[c].vmxe
  BY <1>1 DEF Restoring
<1> QED BY <1>1, <1>2 DEF RestoreEffect, RegsOK

LEMMA LoadSavedStep ==
  ASSUME IInv, NEW c \in CPUs, LoadSaved(c)
  PROVE  IInv'
<1> DEFINE k == pc[c].at
           r == Statement(c)[2]
           copy == Copy(hw[c], saved[c], Group(r))
           new == CASE r = "tr" -> [hw[c] EXCEPT !.tr = CopiedTss(c)]
                    [] r = "segs" -> [hw[c] EXCEPT !.segs = saved[c].segs,
                                                   !.bases = "lost"]
                    [] OTHER -> copy
<1>1. /\ PcOK /\ RegsOK /\ SharedOK
      /\ At(c, "load")
      /\ hw' = [hw EXCEPT ![c] = new]
      /\ gdt' = IF r = "tr" THEN [gdt EXCEPT !.busy = TRUE] ELSE gdt
      /\ Unless(c, \/ r \in {"cs", "segs"} /\ hw[c].gdtr # linux[c].gdtr
                   \/ r = "tr" /\ (hw[c].gdtr # "spy" \/ gdt.busy)
                   \/ r = "cr4" /\ BadCr4(c, saved[c]))
      /\ vmxop' = vmxop /\ saved' = saved /\ init' = init /\ vmcs' = vmcs
      /\ linux' = linux /\ tssLock' = tssLock /\ boot' = boot
  BY DEF IInv, LoadSaved, linuxVars
<1>2. pc[c].op = "restore" /\ RestoreRoutine[k][1] = "load"
  BY <1>1, RestoreKinds
<1>3. /\ Restoring(c) /\ k \in 1 .. 16 /\ k \in 1 .. Len(RestoreRoutine)
      /\ r = RestoreRoutine[k][2]
      /\ k \in 8 .. 11 <=> tssLock = c
      /\ k \in 9 .. 10 => gdt.low = <<c, linux[c].tr>> /\ ~ gdt.busy
      /\ k = 10 => gdt.high = gdt.low
  BY <1>2, RestoreHere
<1>4. /\ r \in SavedRegs \ {"vmxe"}
      /\ \A q \in Regs : q \in Group(r) <=> LoadAt[q] = k
      /\ r = "tr" <=> k = 10
      /\ r = "cr4" <=> k = 5
      /\ r = "cs" <=> k = 14
      /\ r = "segs" <=> k = 15
      /\ k \notin {1, 7, 8, 9, 11}
  BY <1>2, <1>3, RestoreStatement
<1>5. /\ \A q \in SavedRegs : saved[c][q] = linux[c][q]
      /\ vmxop[c] = LinuxVmx(c) /\ saved[c].vmxe = linux[c].vmxe
  <2>1. vmxop[c] = LinuxVmx(c) /\ saved[c].vmxe = linux[c].vmxe
    BY <1>3, <1>4 DEF Restoring
  <2> QED BY <1>3, <2>1 DEF Restoring
<1>6. r = "tr" => CopiedTss(c) = linux[c].tr /\ CopiedTss(c) \in Values
  <2>1. SUFFICES ASSUME r = "tr"
                 PROVE  CopiedTss(c) = linux[c].tr /\ CopiedTss(c) \in Values
    OBVIOUS
  <2>2. gdt.low = <<c, linux[c].tr>> /\ gdt.high = gdt.low
    BY <1>3, <1>4, <2>1
  <2>3. CopiedTss(c) = linux[c].tr
    BY <2>2 DEF CopiedTss
  <2>4. linux[c].tr \in Values
    <3>1. "tr" \in Regs
      BY DEF Regs, GuestRegs
    <3>2. linux[c] \in [Regs -> {"old", "new", "on", "off"}]
      BY <1>1 DEF RegsOK
    <3> QED BY <3>1, <3>2 DEF Values
  <2> QED BY <2>3, <2>4
<1>7. Continue(c)
  <2>1. {"gdtr", "cr3"} \subseteq Regs
    BY DEF Regs, GuestRegs
  <2>2. r \in {"cs", "segs"} => hw[c].gdtr = linux[c].gdtr
    <3>1. k \in {14, 15} => LoadAt["gdtr"] < k
      BY Positions
    <3> QED BY <1>3, <1>4, <2>1, <3>1 DEF Restoring
  <2>3. r = "tr" => hw[c].gdtr = "spy" /\ ~ gdt.busy
    BY <1>3, <1>4 DEF Restoring
  <2>4. r = "cr4" => ~ BadCr4(c, saved[c])
    <3>1. k = 5 => hw[c].cr3 = "spy"
      BY <1>3 DEF Restoring
    <3>2. saved[c].vmxe = "off" => vmxop[c] = "off"
      BY <1>5 DEF LinuxVmx
    <3> QED BY <1>4, <3>1, <3>2 DEF BadCr4
  <2> QED BY <1>1, <2>2, <2>3, <2>4 DEF Unless
<1>8. /\ new \in [Regs -> Values]
      /\ \A q \in Regs : /\ LoadAt[q] = k => new[q] = linux[c][q]
                         /\ LoadAt[q] # k => new[q] = hw[c][q]
                                               \/ (k = 15 /\ q = "bases")
  <2>1. saved[c] \in [Saved -> Values] /\ hw[c] \in [Regs -> Values]
    BY <1>1 DEF RegsOK
  <2>2. /\ Group(r) \subseteq SavedRegs /\ SavedRegs \subseteq Saved
        /\ r # "cr4" => Group(r) = {r}
    BY <1>4, GroupFacts, RegisterSets
  <2>3. {"tr", "segs", "bases"} \subseteq Regs /\ "lost" \in Values
        /\ "segs" \in SavedRegs
    BY DEF Regs, GuestRegs, Values, SavedRegs, Saved
  <2>4. CASE r = "tr"
    <3>1. new = [hw[c] EXCEPT !.tr = CopiedTss(c)]
      BY <2>4
    <3> HIDE DEF new
    <3>2. /\ new \in [Regs -> Values] /\ new.tr = linux[c].tr
          /\ \A q \in Regs \ {"tr"} : new[q] = hw[c][q]
      BY <1>6, <2>1, <2>3, <2>4, <3>1
    <3>3. \A q \in Regs : LoadAt[q] = k <=> q = "tr"
      <4>1. Group(r) = {"tr"}
        BY <2>4 DEF Group
      <4> QED BY <1>4, <4>1
    <3> QED BY <3>2, <3>3
  <2>5. CASE r = "segs"
    <3>1. new = [hw[c] EXCEPT !.segs = saved[c].segs, !.bases = "lost"]
      BY <2>5
    <3> HIDE DEF new
    <3>2. saved[c].segs = linux[c].segs /\ saved[c].segs \in Values
      BY <1>5, <2>1, <2>2, <2>3
    <3>3. /\ new \in [Regs -> Values] /\ new.segs = linux[c].segs
          /\ \A q \in Regs \ {"segs", "bases"} : new[q] = hw[c][q]
      BY <2>1, <2>3, <3>1, <3>2
    <3>4. \A q \in Regs : LoadAt[q] = k <=> q = "segs"
      <4>1. Group(r) = {"segs"}
        BY <2>5 DEF Group
      <4> QED BY <1>4, <4>1
    <3> QED BY <1>4, <2>5, <3>3, <3>4
  <2>6. CASE r \notin {"tr", "segs"}
    <3>1. new = copy
      BY <2>6
    <3>2. /\ copy \in [Regs -> Values]
          /\ \A q \in Regs : copy[q] = IF q \in Group(r) THEN saved[c][q] ELSE hw[c][q]
      BY <2>1, <2>2, CopyFacts
    <3> HIDE DEF new, copy
    <3>3. \A q \in Regs : q \in Group(r) => saved[c][q] = linux[c][q]
      BY <1>5, <2>2
    <3> QED BY <1>4, <3>1, <3>2, <3>3
  <2> QED BY <2>4, <2>5, <2>6
<1> HIDE DEF new, copy, k, r
<1>9. /\ PcOK'
      /\ k < 16 => pc'[c].op = "restore" /\ pc'[c].at = k + 1
      /\ k = 16 => pc'[c].op = "linux" /\ pc'[c].at = 1
      /\ \A d \in CPUs \ {c} : pc'[d] = pc[d]
  BY <1>2, <1>7, RestoreContinue DEF k
<1>10. /\ hw' \in [CPUs -> [Regs -> Values]] /\ hw'[c] = new
       /\ \A d \in CPUs \ {c} : hw'[d] = hw[d]
  BY <1>1, <1>8 DEF RegsOK
<1>11. RestoreEffect(c, k)
  BY <1>1, <1>5, <1>8, <1>10 DEF RestoreEffect
<1>12. Here(c)'
  BY <1>2, <1>3, <1>9, <1>11, RestoreAdvance DEF k
<1>13. RegsOK'
  BY <1>1, <1>10 DEF RegsOK
<1>14. Elsewhere(c)
  BY <1>1, <1>9, <1>10 DEF Elsewhere, SameCpu
<1>15. CASE r = "tr"
  <2>1. /\ gdt' \in [spy : BOOLEAN, low : (CPUs \X Values) \cup {<<>>},
                     high : (CPUs \X Values) \cup {<<>>}, busy : BOOLEAN]
        /\ gdt'.spy = gdt.spy
    BY <1>1, <1>15 DEF SharedOK
  <2>2. SharedOK'
    BY <1>1, <2>1 DEF SharedOK
  <2>3. k = 10 /\ tssLock = c /\ pc'[c].op = "restore" /\ pc'[c].at = 11
    BY <1>3, <1>4, <1>9, <1>15
  <2>4. TssCopied(c)'
    BY <1>1, <2>3 DEF TssCopied
  <2>5. \A d \in CPUs : InTurn(d)' /\ TssCopied(d)'
    BY <1>1, <1>2, <1>14, <2>1, <2>3, <2>4, TssHere
  <2> QED BY <1>9, <1>12, <1>13, <1>14, <2>2, <2>5, IInvFrom
<1>16. CASE r # "tr"
  <2>1. k \notin 7 .. 11 /\ gdt' = gdt
    BY <1>1, <1>3, <1>4, <1>16
  <2>2. SharedOK'
    BY <1>1, <2>1 DEF SharedOK
  <2>3. \A d \in CPUs : InTurn(d)' /\ TssCopied(d)'
    BY <1>1, <1>2, <1>3, <1>9, <1>14, <2>1, RestoreSharedKept DEF k
  <2> QED BY <1>9, <1>12, <1>13, <1>14, <2>2, <2>3, IInvFrom
<1> QED BY <1>15, <1>16

LEMMA LockTssStep ==
  ASSUME IInv, NEW c \in CPUs, LockTss(c)
  PROVE  IInv'
<1> DEFINE k == pc[c].at
<1>1. /\ PcOK /\ RegsOK /\ SharedOK
      /\ At(c, "lock") /\ tssLock = Nobody /\ tssLock' = c
      /\ Continue(c)
      /\ hw' = hw /\ vmxop' = vmxop /\ saved' = saved /\ init' = init
      /\ vmcs' = vmcs /\ linux' = linux /\ gdt' = gdt /\ boot' = boot
  BY DEF IInv, LockTss, linuxVars
<1>2. pc[c].op = "restore" /\ RestoreRoutine[k][1] = "lock"
  BY <1>1, RestoreKinds
<1>3. k \in 1 .. 16 /\ k \in 1 .. Len(RestoreRoutine)
  BY <1>2, RestoreHere
<1>4. k = 7 /\ \A q \in Regs : LoadAt[q] # k
  BY <1>2, <1>3, RestoreStatement
<1>5. RestoreEffect(c, k)
  <2>1. pc[c].at \in 2 .. 16
    BY <1>4
  <2> QED BY <1>1, <1>2, <1>4, <2>1, RestoreNothing
<1> HIDE DEF k
<1>6. /\ PcOK' /\ pc'[c].op = "restore" /\ pc'[c].at = k + 1
      /\ \A d \in CPUs \ {c} : pc'[d] = pc[d]
  BY <1>1, <1>2, <1>4, RestoreContinue DEF k
<1>7. Here(c)'
  BY <1>2, <1>3, <1>4, <1>5, <1>6, RestoreAdvance DEF k
<1>8. RegsOK' /\ SharedOK'
  BY <1>1 DEF RegsOK, SharedOK
<1>9. Elsewhere(c)
  BY <1>1, <1>6 DEF Elsewhere, SameCpu
<1>10. TssCopied(c)'
  <2>1. pc'[c].at = 8
    BY <1>4, <1>6
  <2> QED BY <1>1, <1>6, <2>1 DEF TssCopied
<1>11. \A d \in CPUs : InTurn(d)' /\ TssCopied(d)'
  BY <1>1, <1>2, <1>6, <1>9, <1>10, TssHere
<1> QED BY <1>6, <1>7, <1>8, <1>9, <1>11, IInvFrom

LEMMA UnlockTssStep ==
  ASSUME IInv, NEW c \in CPUs, UnlockTss(c)
  PROVE  IInv'
<1> DEFINE k == pc[c].at
<1>1. /\ PcOK /\ RegsOK /\ SharedOK
      /\ At(c, "unlock") /\ tssLock' = Nobody
      /\ Continue(c)
      /\ hw' = hw /\ vmxop' = vmxop /\ saved' = saved /\ init' = init
      /\ vmcs' = vmcs /\ linux' = linux /\ gdt' = gdt /\ boot' = boot
  BY DEF IInv, UnlockTss, linuxVars
<1>2. pc[c].op = "restore" /\ RestoreRoutine[k][1] = "unlock"
  BY <1>1, RestoreKinds
<1>3. /\ k \in 1 .. 16 /\ k \in 1 .. Len(RestoreRoutine)
      /\ k \in 8 .. 11 <=> tssLock = c
  BY <1>2, RestoreHere
<1>4. k = 11 /\ \A q \in Regs : LoadAt[q] # k
  BY <1>2, <1>3, RestoreStatement
<1>5. RestoreEffect(c, k)
  <2>1. pc[c].at \in 2 .. 16
    BY <1>4
  <2> QED BY <1>1, <1>2, <1>4, <2>1, RestoreNothing
<1> HIDE DEF k
<1>6. /\ PcOK' /\ pc'[c].op = "restore" /\ pc'[c].at = k + 1
      /\ \A d \in CPUs \ {c} : pc'[d] = pc[d]
  BY <1>1, <1>2, <1>4, RestoreContinue DEF k
<1>7. Here(c)'
  BY <1>2, <1>3, <1>4, <1>5, <1>6, RestoreAdvance DEF k
<1>8. RegsOK' /\ SharedOK'
  BY <1>1 DEF RegsOK, SharedOK
<1>9. Elsewhere(c)
  BY <1>1, <1>6 DEF Elsewhere, SameCpu
<1>10. tssLock = c
  BY <1>3, <1>4
<1>11. TssCopied(c)'
  <2>1. pc'[c].at = 12
    BY <1>4, <1>6
  <2>2. Nobody # c
    BY CpuAssumption DEF CpuAssumption
  <2> QED BY <1>1, <1>6, <2>1, <2>2 DEF TssCopied
<1>12. \A d \in CPUs : InTurn(d)' /\ TssCopied(d)'
  BY <1>1, <1>2, <1>6, <1>9, <1>10, <1>11, TssHere
<1> QED BY <1>6, <1>7, <1>8, <1>9, <1>12, IInvFrom

LEMMA CopyTssStep ==
  ASSUME IInv, NEW c \in CPUs, CopyTss(c)
  PROVE  IInv'
<1> DEFINE k == pc[c].at
           half == Statement(c)[2]
           tss == <<c, IF saved[c].gdtr = linux[c].gdtr THEN linux[c].tr ELSE "lost">>
<1>1. /\ PcOK /\ RegsOK /\ SharedOK
      /\ At(c, "copy")
      /\ gdt' = IF half = "low" THEN [gdt EXCEPT !.low = tss, !.busy = FALSE]
                                ELSE [gdt EXCEPT !.high = tss]
      /\ Unless(c, ~ LinuxMapped(c))
      /\ hw' = hw /\ vmxop' = vmxop /\ saved' = saved /\ init' = init
      /\ vmcs' = vmcs /\ linux' = linux /\ tssLock' = tssLock /\ boot' = boot
  BY DEF IInv, CopyTss, linuxVars
<1>2. pc[c].op = "restore" /\ RestoreRoutine[k][1] = "copy"
  BY <1>1, RestoreKinds
<1>3. /\ Restoring(c) /\ k \in 1 .. 16 /\ k \in 1 .. Len(RestoreRoutine)
      /\ half = RestoreRoutine[k][2]
      /\ k \in 8 .. 11 <=> tssLock = c
      /\ k \in 9 .. 10 => gdt.low = <<c, linux[c].tr>> /\ ~ gdt.busy
  BY <1>2, RestoreHere
<1>4. /\ k \in {8, 9}
      /\ half = "low" <=> k = 8
      /\ \A q \in Regs : LoadAt[q] # k
  BY <1>2, <1>3, RestoreStatement
<1>5. RestoreEffect(c, k)
  <2>1. k \in {8, 9}
    BY <1>2, <1>3, RestoreStatement
  <2>2. pc[c].at \in 2 .. 16
    BY <2>1
  <2> QED BY <1>1, <1>2, <1>4, <2>2, RestoreNothing
<1>6. LinuxMapped(c)
  <2>1. "cr3" \in Regs /\ LoadAt["cr3"] < k
    <3>1. k \in {8, 9}
      BY <1>2, <1>3, RestoreStatement
    <3> QED BY <3>1, Positions DEF Regs, GuestRegs
  <2> QED BY <1>3, <2>1 DEF Restoring, LinuxMapped
<1>7. tss = <<c, linux[c].tr>> /\ linux[c].tr \in Values
  <2>1. "gdtr" \in SavedRegs \ {"vmxe"} /\ "tr" \in Regs
    BY DEF SavedRegs, Saved, Regs, GuestRegs
  <2>2. saved[c].gdtr = linux[c].gdtr
    BY <1>3, <2>1 DEF Restoring
  <2>3. linux[c] \in [Regs -> {"old", "new", "on", "off"}]
    BY <1>1 DEF RegsOK
  <2> QED BY <2>1, <2>2, <2>3 DEF Values
<1>8. Continue(c)
  BY <1>1, <1>6 DEF Unless
<1>9. k \in {8, 9} /\ k < 16 /\ tssLock = c
  BY <1>2, <1>3, RestoreStatement
<1> HIDE DEF k, half, tss
<1>10. /\ PcOK' /\ pc'[c].op = "restore" /\ pc'[c].at = k + 1
       /\ \A d \in CPUs \ {c} : pc'[d] = pc[d]
  BY <1>2, <1>8, <1>9, RestoreContinue DEF k
<1>11. Here(c)'
  BY <1>2, <1>3, <1>5, <1>9, <1>10, RestoreAdvance DEF k
<1>12. tss \in CPUs \X Values
  BY <1>7
<1>13. /\ gdt' \in [spy : BOOLEAN, low : (CPUs \X Values) \cup {<<>>},
                    high : (CPUs \X Values) \cup {<<>>}, busy : BOOLEAN]
       /\ gdt'.spy = gdt.spy
  BY <1>1, <1>12 DEF SharedOK
<1>14. RegsOK' /\ SharedOK'
  BY <1>1, <1>13 DEF RegsOK, SharedOK
<1>15. Elsewhere(c)
  BY <1>1, <1>10 DEF Elsewhere, SameCpu
<1>16. TssCopied(c)'
  <2>1. CASE k = 8
    <3>1. half = "low"
      BY <1>3, <1>2, <2>1, RestoreStatement
    <3>2. gdt'.low = <<c, linux[c].tr>> /\ ~ gdt'.busy
      BY <1>1, <1>7, <3>1 DEF SharedOK
    <3>3. pc'[c].at = 9
      BY <1>10, <2>1
    <3> QED BY <1>1, <1>9, <1>10, <3>2, <3>3 DEF TssCopied
  <2>2. CASE k = 9
    <3>1. half # "low"
      BY <1>3, <1>2, <2>2, RestoreStatement
    <3>2. gdt.low = <<c, linux[c].tr>> /\ ~ gdt.busy
      BY <1>3, <2>2
    <3>3. /\ gdt'.low = <<c, linux[c].tr>> /\ ~ gdt'.busy
          /\ gdt'.high = gdt'.low
      BY <1>1, <1>7, <3>1, <3>2 DEF SharedOK
    <3>4. pc'[c].at = 10
      BY <1>10, <2>2
    <3> QED BY <1>1, <1>9, <1>10, <3>3, <3>4 DEF TssCopied
  <2> QED BY <1>9, <2>1, <2>2
<1>17. \A d \in CPUs : InTurn(d)' /\ TssCopied(d)'
  BY <1>1, <1>2, <1>9, <1>10, <1>13, <1>15, <1>16, TssHere
<1> QED BY <1>10, <1>11, <1>14, <1>15, <1>17, IInvFrom

-----------------------------------------------------------------------------
(***************************************************************************)
(* Entering and leaving.                                                   *)
(***************************************************************************)
\* Steps of a CPU that is neither being initialized nor being restored.
LEMMA OutsideSharedKept ==
  ASSUME IInv, NEW c \in CPUs, Elsewhere(c),
         pc[c].op \notin {"init", "done", "restore"},
         pc'[c].op \notin {"init", "done"},
         pc'[c].op = "restore" => pc'[c].at = 1,
         boot'.lock = boot.lock, tssLock' = tssLock, gdt' = gdt
  PROVE  \A d \in CPUs : InTurn(d)' /\ TssCopied(d)'
<1> SUFFICES ASSUME NEW d \in CPUs PROVE InTurn(d)' /\ TssCopied(d)'
  OBVIOUS
<1>1. InTurn(d) /\ TssCopied(d)
  BY DEF IInv
<1>2. CASE d = c
  <2>1. boot.lock # c /\ tssLock # c
    BY <1>1, <1>2 DEF InTurn, TssCopied
  <2>2. InTurn(d)'
    BY <1>2, <2>1 DEF InTurn
  <2> DEFINE k == IF pc'[d].op = "restore" THEN pc'[d].at ELSE 1
  <2>3. k = 1
    BY <1>2
  <2> HIDE DEF k
  <2>4. /\ k \in 8 .. 11 <=> tssLock' = d
        /\ k \notin 9 .. 10 /\ k # 10
    BY <1>2, <2>1, <2>3
  <2>5. TssCopied(d)'
    BY <2>4 DEF TssCopied, k
  <2> QED BY <2>2, <2>5
<1>3. CASE d # c
  <2>1. pc'[d] = pc[d] /\ linux'[d] = linux[d]
    BY <1>3 DEF Elsewhere, SameCpu
  <2> QED BY <1>1, <2>1, TurnKept, CopyKept
<1> QED BY <1>2, <1>3

LEMMA EnterStep ==
  ASSUME IInv, NEW c \in CPUs, Enter(c)
  PROVE  IInv'
<1>1. /\ PcOK /\ RegsOK /\ SharedOK
      /\ pc[c].op = "enter" /\ boot.lock = Nobody
      /\ IF boot.err THEN Goto(c, "back") /\ boot' = boot
         ELSE Goto(c, "init") /\ boot' = [boot EXCEPT !.lock = c]
      /\ hw' = hw /\ vmxop' = vmxop /\ saved' = saved /\ init' = init
      /\ vmcs' = vmcs /\ linux' = linux /\ gdt' = gdt /\ tssLock' = tssLock
  BY DEF IInv, Enter, linuxVars, sharedVars
<1>2. Untouched(c) /\ ~ init[c]
  BY <1>1 DEF IInv, Here
<1>3. RegsOK'
  BY <1>1 DEF RegsOK
<1>4. "back" \in Ops /\ "init" \in Ops
  BY DEF Ops
<1>5. CASE boot.err
  <2>1. Goto(c, "back") /\ boot' = boot
    BY <1>1, <1>5
  <2>2. /\ PcOK' /\ pc'[c].op = "back"
        /\ \A d \in CPUs \ {c} : pc'[d] = pc[d]
    BY <1>1, <1>4, <2>1, GotoFacts
  <2>3. Elsewhere(c)
    BY <1>1, <2>2 DEF Elsewhere, SameCpu
  <2>4. Here(c)'
    <3>1. Untouched(c)' /\ ~ init'[c]
      BY <1>1, <1>2 DEF Untouched, LinuxVmx
    <3> QED BY <2>2, <3>1 DEF Here
  <2>5. SharedOK'
    BY <1>1, <2>1 DEF SharedOK
  <2>6. \A d \in CPUs : InTurn(d)' /\ TssCopied(d)'
    BY <1>1, <2>1, <2>2, <2>3, OutsideSharedKept
  <2> QED BY <1>3, <2>2, <2>3, <2>4, <2>5, <2>6, IInvFrom
<1>6. CASE ~ boot.err
  <2>1. Goto(c, "init") /\ boot' = [boot EXCEPT !.lock = c]
    BY <1>1, <1>6
  <2>2. /\ PcOK' /\ pc'[c].op = "init" /\ pc'[c].at = 1
        /\ \A d \in CPUs \ {c} : pc'[d] = pc[d]
    BY <1>1, <1>4, <2>1, GotoFacts
  <2>3. Elsewhere(c)
    BY <1>1, <2>2 DEF Elsewhere, SameCpu
  <2>4. /\ boot' \in [lock : CPUs \cup {Nobody}, err : BOOLEAN, active : BOOLEAN]
        /\ boot'.lock = c
    BY <1>1, <2>1 DEF SharedOK
  <2>5. SharedOK'
    BY <1>1, <2>4 DEF SharedOK
  <2>6. Initializing(c)'
    <3> DEFINE k == pc'[c].at
    <3>1. k = 1
      BY <2>2
    <3> HIDE DEF k
    <3>2. hw'[c] = linux'[c] /\ vmxop'[c] = LinuxVmx(c)' /\ ~ init'[c]
      BY <1>1, <1>2 DEF Untouched, LinuxVmx
    <3>3. \A q \in Regs : ~ (SpyAt[q] < k)
      BY <3>1, Positions
    <3>4. \A q \in SavedRegs : ~ (SaveAt[q] < k)
      BY <3>1, Positions
    <3>5. ~ (k > 18) /\ ~ (k > 21) /\ ~ (k > 23) /\ ~ (k > 26)
      BY <3>1
    <3> QED BY <3>2, <3>3, <3>4, <3>5, ZenonT(60) DEF Initializing, k
  <2>7. Here(c)'
    BY <2>2, <2>6 DEF Here
  <2>8. \A d \in CPUs : InTurn(d)' /\ TssCopied(d)'
    <3> SUFFICES ASSUME NEW d \in CPUs PROVE InTurn(d)' /\ TssCopied(d)'
      OBVIOUS
    <3>1. InTurn(d) /\ TssCopied(d)
      BY DEF IInv
    <3>2. CASE d = c
      <4>1. InTurn(d)'
        BY <2>2, <2>4, <3>2 DEF InTurn
      <4>2. tssLock' # d
        BY <1>1, <3>1, <3>2 DEF TssCopied
      <4>3. TssCopied(d)'
        BY <2>2, <3>2, <4>2 DEF TssCopied
      <4> QED BY <4>1, <4>3
    <3>3. CASE d # c
      <4>1. pc'[d] = pc[d] /\ linux'[d] = linux[d]
        BY <2>3, <3>3 DEF Elsewhere, SameCpu
      <4>2. boot.lock # d /\ boot'.lock # d
        BY <1>1, <2>4, <3>3, CpuAssumption DEF CpuAssumption
      <4> QED BY <1>1, <3>1, <4>1, <4>2, TurnKept, CopyKept
    <3> QED BY <3>2, <3>3
  <2> QED BY <1>3, <2>2, <2>3, <2>5, <2>7, <2>8, IInvFrom
<1> QED BY <1>5, <1>6

LEMMA LeaveStep ==
  ASSUME IInv, NEW c \in CPUs, Leave(c)
  PROVE  IInv'
<1>1. /\ PcOK /\ RegsOK /\ SharedOK
      /\ pc[c].op = "done" /\ Goto(c, "wait")
      /\ boot' = [boot EXCEPT !.lock = Nobody]
      /\ hw' = hw /\ vmxop' = vmxop /\ saved' = saved /\ init' = init
      /\ vmcs' = vmcs /\ linux' = linux /\ gdt' = gdt /\ tssLock' = tssLock
  BY DEF IInv, Leave, linuxVars, sharedVars
<1>2. Prepared(c) /\ boot.lock = c /\ tssLock # c
  BY <1>1 DEF IInv, Here, InTurn, TssCopied
<1>3. "wait" \in Ops
  BY DEF Ops
<1>4. /\ PcOK' /\ pc'[c].op = "wait"
      /\ \A d \in CPUs \ {c} : pc'[d] = pc[d]
  BY <1>1, <1>3, GotoFacts
<1>5. Elsewhere(c)
  BY <1>1, <1>4 DEF Elsewhere, SameCpu
<1>6. /\ boot' \in [lock : CPUs \cup {Nobody}, err : BOOLEAN, active : BOOLEAN]
      /\ boot'.lock = Nobody
  BY <1>1 DEF SharedOK
<1>7. RegsOK' /\ SharedOK'
  BY <1>1, <1>6 DEF RegsOK, SharedOK
<1>8. Here(c)'
  <2>1. Prepared(c)'
    BY <1>1, <1>2 DEF Prepared, Restorable, InVmx, LinuxVmx
  <2> QED BY <1>4, <2>1 DEF Here
<1>9. \A d \in CPUs : InTurn(d)' /\ TssCopied(d)'
  <2> SUFFICES ASSUME NEW d \in CPUs PROVE InTurn(d)' /\ TssCopied(d)'
    OBVIOUS
  <2>1. InTurn(d) /\ TssCopied(d) /\ boot'.lock # d
    BY <1>6, CpuAssumption DEF IInv, CpuAssumption
  <2>2. CASE d = c
    <3>1. InTurn(d)'
      BY <1>4, <2>1, <2>2 DEF InTurn
    <3>2. TssCopied(d)'
      BY <1>1, <1>2, <1>4, <2>2 DEF TssCopied
    <3> QED BY <3>1, <3>2
  <2>3. CASE d # c
    <3>1. pc'[d] = pc[d] /\ linux'[d] = linux[d] /\ boot.lock # d
      BY <1>2, <1>5, <2>3 DEF Elsewhere, SameCpu
    <3> QED BY <1>1, <2>1, <3>1, TurnKept, CopyKept
  <2> QED BY <2>2, <2>3
<1> QED BY <1>4, <1>5, <1>7, <1>8, <1>9, IInvFrom

LEMMA DecideStep ==
  ASSUME IInv, Decide
  PROVE  IInv'
<1>1. /\ PcOK /\ RegsOK /\ SharedOK
      /\ \E ok \in BOOLEAN : boot' = [boot EXCEPT !.err = ~ ok, !.active = ok]
      /\ pc' = pc /\ hw' = hw /\ vmxop' = vmxop /\ saved' = saved /\ init' = init
      /\ vmcs' = vmcs /\ linux' = linux /\ gdt' = gdt /\ tssLock' = tssLock
  BY DEF IInv, Decide, linuxVars, sharedVars
<1>2. /\ boot' \in [lock : CPUs \cup {Nobody}, err : BOOLEAN, active : BOOLEAN]
      /\ boot'.lock = boot.lock
  BY <1>1 DEF SharedOK
<1>3. PcOK' /\ RegsOK' /\ SharedOK'
  BY <1>1, <1>2 DEF PcOK, RegsOK, SharedOK
<1>4. ASSUME NEW d \in CPUs PROVE Here(d)' /\ InTurn(d)' /\ TssCopied(d)'
  <2>1. Here(d) /\ InTurn(d) /\ TssCopied(d)
    BY DEF IInv
  <2>2. SameCpu(d)
    BY <1>1 DEF SameCpu
  <2>3. Here(d)'
    BY <2>1, <2>2, HereKept
  <2>4. InTurn(d)' /\ TssCopied(d)'
    BY <1>1, <1>2, <2>1, TurnKept, CopyKept
  <2> QED BY <2>3, <2>4
<1> QED BY <1>3, <1>4 DEF IInv

LEMMA GiveUpStep ==
  ASSUME IInv, NEW c \in CPUs, GiveUp(c)
  PROVE  IInv'
<1>1. /\ PcOK /\ RegsOK /\ SharedOK
      /\ pc[c].op = "wait" /\ Goto(c, "back") /\ boot' = boot
      /\ hw' = hw /\ vmxop' = vmxop /\ saved' = saved /\ init' = init
      /\ vmcs' = vmcs /\ linux' = linux /\ gdt' = gdt /\ tssLock' = tssLock
  BY DEF IInv, GiveUp, linuxVars, sharedVars
<1>2. Restorable(c) /\ init[c]
  BY <1>1 DEF IInv, Here, Prepared, Restorable
<1>3. "back" \in Ops
  BY DEF Ops
<1>4. /\ PcOK' /\ pc'[c].op = "back"
      /\ \A d \in CPUs \ {c} : pc'[d] = pc[d]
  BY <1>1, <1>3, GotoFacts
<1>5. Elsewhere(c)
  BY <1>1, <1>4 DEF Elsewhere, SameCpu
<1>6. RegsOK' /\ SharedOK'
  BY <1>1 DEF RegsOK, SharedOK
<1>7. Here(c)'
  <2>1. Restorable(c)' /\ init'[c]
    BY <1>1, <1>2 DEF Restorable, InVmx, LinuxVmx
  <2> QED BY <1>4, <2>1 DEF Here
<1>8. \A d \in CPUs : InTurn(d)' /\ TssCopied(d)'
  BY <1>1, <1>4, <1>5, OutsideSharedKept
<1> QED BY <1>4, <1>5, <1>6, <1>7, <1>8, IInvFrom

LEMMA FirstLoad ==
  \A r \in Regs : LoadAt[r] < 1 => r = "sysenter"
  BY SMT DEF LoadAt, Regs, GuestRegs

LEMMA BackStep ==
  ASSUME IInv, NEW c \in CPUs, Back(c)
  PROVE  IInv'
<1> DEFINE op == IF init[c] THEN "restore" ELSE "linux"
<1>1. /\ PcOK /\ RegsOK /\ SharedOK
      /\ pc[c].op = "back" /\ Goto(c, op) /\ boot' = boot
      /\ hw' = hw /\ vmxop' = vmxop /\ saved' = saved /\ init' = init
      /\ vmcs' = vmcs /\ linux' = linux /\ gdt' = gdt /\ tssLock' = tssLock
  BY DEF IInv, Back, linuxVars, sharedVars
<1>2. IF init[c] THEN Restorable(c) ELSE Untouched(c)
  BY <1>1 DEF IInv, Here
<1>3. op \in Ops /\ op \in {"restore", "linux"}
  BY DEF Ops
<1>4. op = "restore" <=> init[c]
  OBVIOUS
<1> HIDE DEF op
<1>5. /\ PcOK' /\ pc'[c].op = op /\ pc'[c].at = 1
      /\ \A d \in CPUs \ {c} : pc'[d] = pc[d]
  BY <1>1, <1>3, GotoFacts
<1>6. Elsewhere(c)
  BY <1>1, <1>5 DEF Elsewhere, SameCpu
<1>7. RegsOK' /\ SharedOK'
  BY <1>1 DEF RegsOK, SharedOK
<1>8. Here(c)'
  <2>1. CASE init[c]
    <3>1. Restorable(c)
      BY <1>2, <2>1
    <3> DEFINE k == pc'[c].at
    <3>2. k = 1
      BY <1>5
    <3> HIDE DEF k
    <3>3. \A q \in Regs : LoadAt[q] < k => hw[c][q] = linux[c][q]
      BY <3>1, <3>2, FirstLoad DEF Restorable
    <3>4. \/ k = 1 /\ InVmx(c)
          \/ vmxop[c] = LinuxVmx(c) /\ saved[c].vmxe = linux[c].vmxe
      BY <3>1, <3>2 DEF Restorable
    <3>5. Restoring(c)'
      BY <1>1, <2>1, <3>1, <3>3, <3>4 DEF Restoring, Restorable, InVmx, LinuxVmx, k
    <3> QED BY <1>3, <1>4, <1>5, <2>1, <3>5 DEF Here
  <2>2. CASE ~ init[c]
    <3>1. Untouched(c)'
      BY <1>1, <1>2, <2>2 DEF Untouched, LinuxVmx
    <3> QED BY <1>3, <1>4, <1>5, <2>2, <3>1 DEF Here
  <2> QED BY <2>1, <2>2
<1>9. \A d \in CPUs : InTurn(d)' /\ TssCopied(d)'
  BY <1>1, <1>3, <1>5, <1>6, OutsideSharedKept
<1> QED BY <1>5, <1>6, <1>7, <1>8, <1>9, IInvFrom

-----------------------------------------------------------------------------
(***************************************************************************)
(* Linux as a guest.                                                       *)
(***************************************************************************)
LEMMA ActivateStep ==
  ASSUME IInv, NEW c \in CPUs, Activate(c)
  PROVE  IInv'
<1>1. /\ PcOK /\ RegsOK /\ SharedOK
      /\ pc[c].op = "wait" /\ Goto(c, "guest")
      /\ hw' = [hw EXCEPT ![c] = vmcs[c]] /\ boot' = boot
      /\ vmxop' = vmxop /\ saved' = saved /\ init' = init
      /\ vmcs' = vmcs /\ linux' = linux /\ gdt' = gdt /\ tssLock' = tssLock
  BY DEF IInv, Activate, linuxVars, sharedVars
<1>2. Prepared(c)
  BY <1>1 DEF IInv, Here
<1>3. "guest" \in Ops
  BY DEF Ops
<1>4. /\ PcOK' /\ pc'[c].op = "guest"
      /\ \A d \in CPUs \ {c} : pc'[d] = pc[d]
  BY <1>1, <1>3, GotoFacts
<1>5. /\ hw' \in [CPUs -> [Regs -> Values]] /\ hw'[c] = vmcs[c]
      /\ \A d \in CPUs \ {c} : hw'[d] = hw[d]
  BY <1>1 DEF RegsOK
<1>6. Elsewhere(c)
  BY <1>1, <1>4, <1>5 DEF Elsewhere, SameCpu
<1>7. RegsOK' /\ SharedOK'
  BY <1>1, <1>5 DEF RegsOK, SharedOK
<1>8. Here(c)'
  <2>1. "pat" \in SavedRegs \ {"vmxe"}
    BY DEF SavedRegs, Saved, Regs
  <2>2. /\ init[c] /\ InVmx(c) /\ saved[c].pat = linux[c].pat
        /\ saved[c].mtrr = "on" /\ vmcs[c].pat = linux[c].pat
        /\ \A q \in GuestRegs : vmcs[c][q] = linux[c][q]
    BY <1>2, <2>1 DEF Prepared, Restorable
  <2>3. Running(c)'
    BY <1>1, <1>5, <2>2 DEF Running, InVmx, GuestPat
  <2> QED BY <1>4, <2>3 DEF Here
<1>9. \A d \in CPUs : InTurn(d)' /\ TssCopied(d)'
  BY <1>1, <1>4, <1>6, OutsideSharedKept
<1> QED BY <1>4, <1>6, <1>7, <1>8, <1>9, IInvFrom

LEMMA DisableStep ==
  ASSUME IInv, NEW c \in CPUs, Disable(c)
  PROVE  IInv'
<1>1. /\ PcOK /\ RegsOK /\ SharedOK
      /\ pc[c].op = "guest" /\ Goto(c, "deactivate")
      /\ hw' = [hw EXCEPT ![c] = SpyRegs] /\ vmcs' = [vmcs EXCEPT ![c] = hw[c]]
      /\ vmxop' = vmxop /\ saved' = saved /\ init' = init /\ boot' = boot
      /\ linux' = linux /\ gdt' = gdt /\ tssLock' = tssLock
  BY DEF IInv, Disable, sharedVars
<1>2. Running(c)
  BY <1>1 DEF IInv, Here
<1>3. "deactivate" \in Ops
  BY DEF Ops
<1>4. /\ PcOK' /\ pc'[c].op = "deactivate"
      /\ \A d \in CPUs \ {c} : pc'[d] = pc[d]
  BY <1>1, <1>3, GotoFacts
<1>5. /\ SpyRegs \in [Regs -> Values]
      /\ SpyRegs.gdtr = "spy" /\ SpyRegs.cr3 = "spy"
  BY DEF SpyRegs, Values, Regs, GuestRegs
<1>6. /\ hw' \in [CPUs -> [Regs -> Values]] /\ hw'[c] = SpyRegs
      /\ \A d \in CPUs \ {c} : hw'[d] = hw[d]
  BY <1>1, <1>5 DEF RegsOK
<1>7. /\ vmcs' \in [CPUs -> [Regs -> Values]] /\ vmcs'[c] = hw[c]
      /\ \A d \in CPUs \ {c} : vmcs'[d] = vmcs[d]
  BY <1>1 DEF RegsOK
<1>8. Elsewhere(c)
  BY <1>1, <1>4, <1>6, <1>7 DEF Elsewhere, SameCpu
<1>9. RegsOK' /\ SharedOK'
  BY <1>1, <1>6, <1>7 DEF RegsOK, SharedOK
<1>10. Here(c)'
  <2>1. Deactivating(c)'
    BY <1>1, <1>2, <1>5, <1>6, <1>7 DEF Running, Deactivating, InVmx
  <2> QED BY <1>4, <2>1 DEF Here
<1>11. \A d \in CPUs : InTurn(d)' /\ TssCopied(d)'
  BY <1>1, <1>4, <1>8, OutsideSharedKept
<1> QED BY <1>4, <1>8, <1>9, <1>10, <1>11, IInvFrom

LEMMA DeactivateStep ==
  ASSUME IInv, NEW c \in CPUs, Deactivate(c)
  PROVE  IInv'
<1> DEFINE set == Saved \ {"pat", "mtrr"}
           new == Copy(saved[c], vmcs[c], set)
           regs == [hw[c] EXCEPT !.sysenter = vmcs[c].sysenter]
<1>1. /\ PcOK /\ RegsOK /\ SharedOK
      /\ pc[c].op = "deactivate" /\ Goto(c, "restore")
      /\ saved' = [saved EXCEPT ![c] = new]
      /\ hw' = [hw EXCEPT ![c].sysenter = vmcs[c].sysenter]
      /\ vmxop' = vmxop /\ init' = init /\ boot' = boot
      /\ vmcs' = vmcs /\ linux' = linux /\ gdt' = gdt /\ tssLock' = tssLock
  BY DEF IInv, Deactivate, linuxVars, sharedVars
<1>2. Deactivating(c)
  BY <1>1 DEF IInv, Here
<1>3. "restore" \in Ops
  BY DEF Ops
<1>4. /\ PcOK' /\ pc'[c].op = "restore" /\ pc'[c].at = 1
      /\ \A d \in CPUs \ {c} : pc'[d] = pc[d]
  BY <1>1, <1>3, GotoFacts
<1>5. /\ saved[c] \in [Saved -> Values] /\ vmcs[c] \in [Regs -> Values]
      /\ hw[c] \in [Regs -> Values]
  BY <1>1 DEF RegsOK
<1>6. /\ new \in [Saved -> Values]
      /\ \A q \in SavedRegs \ {"vmxe"} : new[q] = linux[c][q]
  <2>1. set \cap Saved \subseteq Regs
    BY RegisterSets
  <2>2. /\ new \in [Saved -> Values]
        /\ \A q \in Saved : new[q] = IF q \in set THEN vmcs[c][q] ELSE saved[c][q]
    BY <1>5, <2>1, CopyFacts
  <2> HIDE DEF new
  <2>3. \A q \in SavedRegs \ {"vmxe"} :
          /\ q \in Saved
          /\ q # "pat" => q \in set /\ q \in GuestRegs
          /\ q = "pat" => q \notin set
    BY RegisterSets
  <2> QED BY <1>2, <2>2, <2>3 DEF Deactivating
<1> HIDE DEF new
<1>7. /\ saved' \in [CPUs -> [Saved -> Values]] /\ saved'[c] = new
      /\ \A d \in CPUs \ {c} : saved'[d] = saved[d]
  BY <1>1, <1>6 DEF RegsOK
<1>8. /\ regs \in [Regs -> Values]
      /\ regs.sysenter = vmcs[c].sysenter
      /\ regs.gdtr = hw[c].gdtr /\ regs.cr3 = hw[c].cr3
  <2>1. {"sysenter", "gdtr", "cr3"} \subseteq Regs
    BY DEF Regs, GuestRegs
  <2> QED BY <1>5, <2>1
<1>9. hw' = [hw EXCEPT ![c] = regs]
  BY <1>1 DEF RegsOK
<1> HIDE DEF regs
<1>10. /\ hw' \in [CPUs -> [Regs -> Values]] /\ hw'[c] = regs
       /\ \A d \in CPUs \ {c} : hw'[d] = hw[d]
  BY <1>1, <1>8, <1>9 DEF RegsOK
<1>11. Elsewhere(c)
  BY <1>1, <1>4, <1>7, <1>10 DEF Elsewhere, SameCpu
<1>12. RegsOK' /\ SharedOK'
  BY <1>1, <1>7, <1>10 DEF RegsOK, SharedOK
<1>13. Here(c)'
  <2> DEFINE k == pc'[c].at
  <2>1. k = 1
    BY <1>4
  <2> HIDE DEF k
  <2>2. /\ init[c] /\ InVmx(c) /\ hw[c].gdtr = "spy" /\ hw[c].cr3 = "spy"
        /\ vmcs[c].sysenter = linux[c].sysenter
    BY <1>2 DEF Deactivating, GuestRegs
  <2>3. \A q \in Regs : LoadAt[q] < k => hw'[c][q] = linux'[c][q]
    BY <1>1, <1>8, <1>10, <2>1, <2>2, FirstLoad
  <2>4. hw'[c].gdtr = "spy" /\ hw'[c].cr3 = "spy" /\ init'[c] /\ InVmx(c)'
    BY <1>1, <1>8, <1>10, <2>2 DEF InVmx
  <2>5. \A q \in SavedRegs \ {"vmxe"} : saved'[c][q] = linux'[c][q]
    BY <1>1, <1>6, <1>7
  <2>6. Restoring(c)'
    BY <2>1, <2>3, <2>4, <2>5 DEF Restoring, k
  <2> QED BY <1>4, <2>6 DEF Here
<1>14. \A d \in CPUs : InTurn(d)' /\ TssCopied(d)'
  BY <1>1, <1>4, <1>11, OutsideSharedKept
<1> QED BY <1>4, <1>11, <1>12, <1>13, <1>14, IInvFrom

\* Linux or a handler changes registers of the guest only.
LEMMA GuestKeeps ==
  ASSUME IInv, NEW c \in CPUs, pc[c].op = "guest", pc' = pc,
         RegsOK', Running(c)',
         \A d \in CPUs \ {c} :
           hw'[d] = hw[d] /\ saved'[d] = saved[d] /\ linux'[d] = linux[d],
         vmxop' = vmxop, init' = init, vmcs' = vmcs,
         gdt' = gdt, tssLock' = tssLock, boot' = boot
  PROVE  IInv'
<1>1. PcOK' /\ SharedOK'
  BY DEF IInv, PcOK, SharedOK
<1>2. Elsewhere(c)
  BY DEF Elsewhere, SameCpu
<1>3. Here(c)'
  BY DEF Here
<1>4. \A d \in CPUs : InTurn(d)' /\ TssCopied(d)'
  BY <1>2, OutsideSharedKept
<1> QED BY <1>1, <1>2, <1>3, <1>4, IInvFrom

LEMMA GuestHere ==
  ASSUME IInv, NEW c \in CPUs, pc[c].op = "guest"
  PROVE  /\ RegsOK /\ Running(c)
         /\ hw[c] \in [Regs -> Values] /\ saved[c] \in [Saved -> Values]
         /\ linux[c] \in [Regs -> {"old", "new", "on", "off"}]
  BY DEF IInv, Here, RegsOK

LEMMA ChangeStep ==
  ASSUME IInv, NEW c \in CPUs, NEW set \in Changes, Change(c, set)
  PROVE  IInv'
<1> DEFINE val == [q \in Regs |-> IF q \in set THEN "new" ELSE linux[c][q]]
           new == Copy(hw[c], val, set)
<1>1. /\ pc[c].op = "guest" /\ pc' = pc
      /\ linux' = [linux EXCEPT ![c] = val]
      /\ hw' = [hw EXCEPT ![c] = Copy(hw[c], linux'[c], set)]
      /\ vmxop' = vmxop /\ saved' = saved /\ init' = init /\ vmcs' = vmcs
      /\ gdt' = gdt /\ tssLock' = tssLock /\ boot' = boot
  BY DEF Change, sharedVars
<1>2. /\ RegsOK /\ Running(c) /\ hw[c] \in [Regs -> Values]
      /\ linux[c] \in [Regs -> {"old", "new", "on", "off"}]
  BY <1>1, GuestHere
<1>3. set \subseteq GuestRegs
  BY CpuAssumption DEF CpuAssumption
<1>4. /\ val \in [Regs -> {"old", "new", "on", "off"}]
      /\ val \in [Regs -> Values]
      /\ \A q \in Regs : val[q] = IF q \in set THEN "new" ELSE linux[c][q]
  BY <1>2 DEF Values
<1> HIDE DEF val
<1>5. /\ linux' \in [CPUs -> [Regs -> {"old", "new", "on", "off"}]]
      /\ linux'[c] = val
      /\ \A d \in CPUs \ {c} : linux'[d] = linux[d]
  BY <1>1, <1>2, <1>4 DEF RegsOK
<1>6. /\ new \in [Regs -> Values]
      /\ \A q \in Regs : new[q] = IF q \in set THEN val[q] ELSE hw[c][q]
  <2>1. set \cap Regs \subseteq Regs
    OBVIOUS
  <2> QED BY <1>2, <1>4, <2>1, CopyFacts
<1>7. hw' = [hw EXCEPT ![c] = new]
  BY <1>1, <1>5
<1> HIDE DEF new
<1>8. /\ hw' \in [CPUs -> [Regs -> Values]] /\ hw'[c] = new
      /\ \A d \in CPUs \ {c} : hw'[d] = hw[d]
  BY <1>2, <1>6, <1>7 DEF RegsOK
<1>9. RegsOK'
  BY <1>1, <1>2, <1>5, <1>8 DEF RegsOK
<1>10. Running(c)'
  <2>1. /\ init[c] /\ InVmx(c) /\ saved[c].pat = linux[c].pat
        /\ hw[c].pat = GuestPat(saved[c].mtrr, linux[c].pat)
        /\ \A q \in GuestRegs : hw[c][q] = linux[c][q]
    BY <1>2 DEF Running
  <2>2. GuestRegs = Regs \ {"pat", "vmxe"} /\ {"pat", "vmxe"} \subseteq Regs
    BY RegisterSets DEF Regs
  <2>3. "pat" \notin set /\ "vmxe" \notin set
    BY <1>3, <2>2
  <2>4. val.pat = linux[c].pat /\ val.vmxe = linux[c].vmxe /\ new.pat = hw[c].pat
    BY <1>4, <1>6, <2>2, <2>3
  <2>5. \A q \in GuestRegs : new[q] = val[q]
    BY <1>4, <1>6, <2>1, <2>2
  <2>6. InVmx(c)'
    BY <1>1, <1>5, <2>1, <2>4 DEF InVmx
  <2> QED BY <1>1, <1>5, <1>8, <2>1, <2>4, <2>5, <2>6 DEF Running
<1> QED BY <1>1, <1>5, <1>8, <1>9, <1>10, GuestKeeps

LEMMA WritePatStep ==
  ASSUME IInv, NEW c \in CPUs, WritePat(c)
  PROVE  IInv'
<1> DEFINE val == [linux[c] EXCEPT !.pat = "new"]
           kept == [saved[c] EXCEPT !.pat = "new"]
           new == IF saved[c].mtrr = "on" THEN [hw[c] EXCEPT !.pat = "new"] ELSE hw[c]
<1>1. /\ pc[c].op = "guest" /\ pc' = pc
      /\ linux' = [linux EXCEPT ![c].pat = "new"]
      /\ saved' = [saved EXCEPT ![c].pat = "new"]
      /\ hw' = IF saved[c].mtrr = "on" THEN [hw EXCEPT ![c].pat = "new"] ELSE hw
      /\ vmxop' = vmxop /\ init' = init /\ vmcs' = vmcs
      /\ gdt' = gdt /\ tssLock' = tssLock /\ boot' = boot
  BY DEF WritePat, sharedVars
<1>2. /\ RegsOK /\ Running(c)
      /\ hw[c] \in [Regs -> Values] /\ saved[c] \in [Saved -> Values]
      /\ linux[c] \in [Regs -> {"old", "new", "on", "off"}]
  BY <1>1, GuestHere
<1>3. /\ "pat" \in Regs /\ "vmxe" \in Regs /\ "pat" \in Saved /\ "mtrr" \in Saved
      /\ "new" \in Values /\ GuestRegs = Regs \ {"pat", "vmxe"}
  BY RegisterSets DEF Regs, Saved, Values
<1>4. linux' = [linux EXCEPT ![c] = val] /\ saved' = [saved EXCEPT ![c] = kept]
  BY <1>1, <1>2 DEF RegsOK
<1>5. hw' = [hw EXCEPT ![c] = new]
  BY <1>1, <1>2 DEF RegsOK
<1>6. /\ val \in [Regs -> {"old", "new", "on", "off"}]
      /\ val.pat = "new"
      /\ \A q \in Regs \ {"pat"} : val[q] = linux[c][q]
  BY <1>2, <1>3
<1>7. /\ kept \in [Saved -> Values] /\ kept.pat = "new" /\ kept.mtrr = saved[c].mtrr
  BY <1>2, <1>3
<1>8. /\ new \in [Regs -> Values]
      /\ saved[c].mtrr = "on" => new.pat = "new"
      /\ saved[c].mtrr # "on" => new.pat = hw[c].pat
      /\ \A q \in Regs \ {"pat"} : new[q] = hw[c][q]
  BY <1>2, <1>3
<1> HIDE DEF val, kept, new
<1>9. /\ linux' \in [CPUs -> [Regs -> {"old", "new", "on", "off"}]]
      /\ linux'[c] = val
      /\ \A d \in CPUs \ {c} : linux'[d] = linux[d]
  BY <1>2, <1>4, <1>6 DEF RegsOK
<1>10. /\ saved' \in [CPUs -> [Saved -> Values]] /\ saved'[c] = kept
       /\ \A d \in CPUs \ {c} : saved'[d] = saved[d]
  BY <1>2, <1>4, <1>7 DEF RegsOK
<1>11. /\ hw' \in [CPUs -> [Regs -> Values]] /\ hw'[c] = new
       /\ \A d \in CPUs \ {c} : hw'[d] = hw[d]
  BY <1>2, <1>5, <1>8 DEF RegsOK
<1>12. RegsOK'
  BY <1>1, <1>2, <1>9, <1>10, <1>11 DEF RegsOK
<1>13. Running(c)'
  <2>1. /\ init[c] /\ InVmx(c)
        /\ hw[c].pat = GuestPat(saved[c].mtrr, linux[c].pat)
        /\ \A q \in GuestRegs : hw[c][q] = linux[c][q]
    BY <1>2 DEF Running
  <2>2. new.pat = GuestPat(kept.mtrr, val.pat)
    BY <1>6, <1>7, <1>8, <2>1 DEF GuestPat
  <2>3. \A q \in GuestRegs : new[q] = val[q]
    BY <1>3, <1>6, <1>8, <2>1
  <2>4. InVmx(c)'
    BY <1>1, <1>3, <1>6, <1>9, <2>1 DEF InVmx
  <2>5. init'[c] /\ saved'[c].pat = linux'[c].pat
    BY <1>1, <1>6, <1>7, <1>9, <1>10, <2>1
  <2>6. hw'[c].pat = GuestPat(saved'[c].mtrr, linux'[c].pat)
    BY <1>9, <1>10, <1>11, <2>2
  <2>7. \A q \in GuestRegs : hw'[c][q] = linux'[c][q]
    BY <1>9, <1>11, <2>3
  <2> QED BY <2>4, <2>5, <2>6, <2>7 DEF Running
<1> QED BY <1>1, <1>9, <1>10, <1>11, <1>12, <1>13, GuestKeeps

LEMMA WriteMtrrStep ==
  ASSUME IInv, NEW c \in CPUs, NEW val \in {"on", "off"}, WriteMtrr(c, val)
  PROVE  IInv'
<1> DEFINE kept == [saved[c] EXCEPT !.mtrr = val]
           new == [hw[c] EXCEPT !.pat = GuestPat(val, saved[c].pat)]
<1>1. /\ pc[c].op = "guest" /\ pc' = pc
      /\ saved' = [saved EXCEPT ![c].mtrr = val]
      /\ hw' = [hw EXCEPT ![c].pat = GuestPat(val, saved[c].pat)]
      /\ vmxop' = vmxop /\ init' = init /\ vmcs' = vmcs /\ linux' = linux
      /\ gdt' = gdt /\ tssLock' = tssLock /\ boot' = boot
  BY DEF WriteMtrr, linuxVars, sharedVars
<1>2. /\ RegsOK /\ Running(c)
      /\ hw[c] \in [Regs -> Values] /\ saved[c] \in [Saved -> Values]
      /\ linux[c] \in [Regs -> {"old", "new", "on", "off"}]
  BY <1>1, GuestHere
<1>3. /\ "pat" \in Regs /\ "pat" \in Saved /\ "mtrr" \in Saved
      /\ val \in Values /\ "uc" \in Values /\ GuestRegs = Regs \ {"pat", "vmxe"}
  BY RegisterSets DEF Regs, Saved, Values
<1>4. GuestPat(val, saved[c].pat) \in Values
  BY <1>2, <1>3 DEF GuestPat
<1>5. saved' = [saved EXCEPT ![c] = kept] /\ hw' = [hw EXCEPT ![c] = new]
  BY <1>1, <1>2 DEF RegsOK
<1>6. kept \in [Saved -> Values] /\ kept.pat = saved[c].pat /\ kept.mtrr = val
  BY <1>2, <1>3
<1>7. /\ new \in [Regs -> Values]
      /\ new.pat = GuestPat(val, saved[c].pat)
      /\ \A q \in Regs \ {"pat"} : new[q] = hw[c][q]
  BY <1>2, <1>3, <1>4
<1> HIDE DEF kept, new
<1>8. /\ saved' \in [CPUs -> [Saved -> Values]] /\ saved'[c] = kept
      /\ \A d \in CPUs \ {c} : saved'[d] = saved[d]
  BY <1>2, <1>5, <1>6 DEF RegsOK
<1>9. /\ hw' \in [CPUs -> [Regs -> Values]] /\ hw'[c] = new
      /\ \A d \in CPUs \ {c} : hw'[d] = hw[d]
  BY <1>2, <1>5, <1>7 DEF RegsOK
<1>10. RegsOK'
  BY <1>1, <1>2, <1>8, <1>9 DEF RegsOK
<1>11. Running(c)'
  <2>1. /\ init[c] /\ InVmx(c) /\ saved[c].pat = linux[c].pat
        /\ \A q \in GuestRegs : hw[c][q] = linux[c][q]
    BY <1>2 DEF Running
  <2>2. \A q \in GuestRegs : new[q] = linux[c][q]
    BY <1>3, <1>7, <2>1
  <2>3. InVmx(c)'
    BY <1>1, <2>1 DEF InVmx
  <2> QED BY <1>1, <1>6, <1>7, <1>8, <1>9, <2>1, <2>2, <2>3 DEF Running
<1> QED BY <1>1, <1>8, <1>9, <1>10, <1>11, GuestKeeps

-----------------------------------------------------------------------------
(***************************************************************************)
(* The theorems.                                                           *)
(***************************************************************************)
LEMMA InitIInv ==
  ASSUME Init
  PROVE  IInv
<1>1. PcOK
  <2>1. pc = [c \in CPUs |-> [op |-> "enter", at |-> 1]]
    BY DEF Init
  <2>2. [op |-> "enter", at |-> 1] \in [op : Ops, at : Nat]
    BY DEF Ops
  <2>3. pc \in [CPUs -> [op : Ops, at : Nat]]
    BY <2>1, <2>2
  <2>4. ASSUME NEW c \in CPUs PROVE pc[c].at \in 1 .. Len(Routine(pc[c].op))
    <3>1. pc[c].at = 1
      BY <2>1
    <3> QED BY <3>1, RoutineStart
  <2> QED BY <2>3, <2>4 DEF PcOK
<1>2. linux \in [CPUs -> [Regs -> {"old", "on", "off"}]]
  BY DEF Init
<1>3. RegsOK
  <2>1. linux \in [CPUs -> [Regs -> {"old", "new", "on", "off"}]]
    BY <1>2
  <2>2. hw \in [CPUs -> [Regs -> Values]]
    BY <1>2 DEF Init, Values
  <2>3. vmxop \in [CPUs -> {"off", "linux", "spy"}]
    BY DEF Init, LinuxVmx
  <2>4. saved \in [CPUs -> [Saved -> Values]] /\ vmcs \in [CPUs -> [Regs -> Values]]
        /\ init \in [CPUs -> BOOLEAN]
    BY DEF Init, Values
  <2> QED BY <2>1, <2>2, <2>3, <2>4 DEF RegsOK
<1>4. SharedOK
  BY DEF Init, SharedOK
<1>5. ASSUME NEW c \in CPUs PROVE Here(c) /\ InTurn(c) /\ TssCopied(c)
  <2>1. pc[c].op = "enter" /\ hw[c] = linux[c] /\ vmxop[c] = LinuxVmx(c) /\ ~ init[c]
        /\ boot.lock = Nobody /\ tssLock = Nobody
    BY DEF Init
  <2>2. Nobody # c
    BY CpuAssumption DEF CpuAssumption
  <2>3. Here(c)
    BY <2>1 DEF Here, Untouched
  <2>4. InTurn(c)
    BY <2>1, <2>2 DEF InTurn
  <2>5. TssCopied(c)
    BY <2>1, <2>2 DEF TssCopied
  <2> QED BY <2>3, <2>4, <2>5
<1> QED BY <1>1, <1>3, <1>4, <1>5 DEF IInv

LEMMA IInvStep ==
  ASSUME IInv, [Next]_vars
  PROVE  IInv'
<1>1. CASE UNCHANGED vars
  <2>1. /\ pc' = pc /\ hw' = hw /\ vmxop' = vmxop /\ saved' = saved /\ init' = init
        /\ vmcs' = vmcs /\ linux' = linux /\ gdt' = gdt /\ tssLock' = tssLock
        /\ boot' = boot
    BY <1>1 DEF vars, linuxVars, sharedVars
  <2>2. PcOK' /\ RegsOK' /\ SharedOK'
    BY <2>1 DEF IInv, PcOK, RegsOK, SharedOK
  <2>3. ASSUME NEW d \in CPUs PROVE Here(d)' /\ InTurn(d)' /\ TssCopied(d)'
    <3>1. Here(d) /\ InTurn(d) /\ TssCopied(d)
      BY DEF IInv
    <3>2. SameCpu(d)
      BY <2>1 DEF SameCpu
    <3>3. Here(d)'
      BY <3>1, <3>2, HereKept
    <3> QED BY <2>1, <3>1, <3>3, TurnKept, CopyKept
  <2> QED BY <2>2, <2>3 DEF IInv
<1>2. CASE Decide
  BY <1>2, DecideStep
<1>3. ASSUME NEW c \in CPUs, Step(c) PROVE IInv'
  <2>1. CASE Save(c) \/ LoadSpy(c) \/ LoadSaved(c)
    BY <2>1, SaveStep, LoadSpyStep, LoadSavedStep
  <2>2. CASE ClearBusy(c) \/ Initialized(c) \/ Check(c) \/ Vmxon(c) \/ SetupVmcs(c)
    BY <2>2, ClearBusyStep, InitializedStep, CheckStep, VmxonStep, SetupVmcsStep
  <2>3. CASE VcpuExit(c) \/ LockTss(c) \/ CopyTss(c) \/ UnlockTss(c)
    BY <2>3, VcpuExitStep, LockTssStep, CopyTssStep, UnlockTssStep
  <2>4. CASE \/ Enter(c) \/ Leave(c) \/ GiveUp(c) \/ Back(c) \/ Activate(c)
             \/ Deactivate(c)
    BY <2>4, EnterStep, LeaveStep, GiveUpStep, BackStep, ActivateStep, DeactivateStep
  <2> QED BY <1>3, <2>1, <2>2, <2>3, <2>4 DEF Step
<1>4. ASSUME NEW c \in CPUs, Guest(c) PROVE IInv'
  <2>1. CASE \E set \in Changes : Change(c, set)
    BY <2>1, ChangeStep
  <2>2. CASE WritePat(c)
    BY <2>2, WritePatStep
  <2>3. CASE \E val \in {"on", "off"} : WriteMtrr(c, val)
    BY <2>3, WriteMtrrStep
  <2>4. CASE Disable(c)
    BY <2>4, DisableStep
  <2> QED BY <1>4, <2>1, <2>2, <2>3, <2>4 DEF Guest
<1> QED BY <1>1, <1>2, <1>3, <1>4 DEF Next

LEMMA CpuInvariant == Spec => []IInv
<1>1. Init => IInv
  BY InitIInv
<1>2. IInv /\ [Next]_vars => IInv'
  BY IInvStep
<1> QED BY <1>1, <1>2, PTL DEF Spec

\* The statements of arch_cpu_init, arch_cpu_restore and the entry code keep
\* every variable in its range, and a CPU at a statement of its routine.
THEOREM CpuTypeOK == Spec => []TypeOK
<1>1. IInv => TypeOK
  BY TypeOKFollows
<1> QED BY <1>1, CpuInvariant, PTL

\* No statement of arch_cpu_init, vcpu_exit or arch_cpu_restore faults: the
\* selectors are looked up in the right GDT, CR4 is loaded while the page
\* tables have no PCID, and Linux's GDT is read under Linux's page tables.
THEOREM NeverAnException == Spec => []NoException
<1>1. IInv => NoException
  BY DEF IInv, Here, NoException
<1> QED BY <1>1, CpuInvariant, PTL

\* After vcpu_activate_vmm, Linux has its registers as a guest, and the PAT
\* handlers of vmx.c keep the one that takes effect right.
THEOREM GuestHasItsRegisters == Spec => []TakenOver
<1>1. IInv => TakenOver
  BY DEF IInv, Here, Running, TakenOver
<1> QED BY <1>1, CpuInvariant, PTL

\* A CPU that leaves arch_cpu_restore, after any failure or after the
\* hypervisor has been disabled, has what Linux last gave it.
THEOREM RegistersHandedBack == Spec => []HandedBack
<1>1. IInv => HandedBack
  BY DEF IInv, Here, Untouched, HandedBack
<1> QED BY <1>1, CpuInvariant, PTL

\* The entry code's lock lets one CPU at a time through arch_cpu_init, and
\* tss_lock one through the use of Linux's TSS descriptor.
THEOREM CpusTakeTurns ==
  Spec => [](\A c, d \in CPUs : c # d =>
               /\ ~ (pc[c].op \in {"init", "done"} /\ pc[d].op \in {"init", "done"})
               /\ ~ (/\ pc[c].op = "restore" /\ pc[c].at \in 8 .. 11
                     /\ pc[d].op = "restore" /\ pc[d].at \in 8 .. 11))
<1> DEFINE Turns == \A c, d \in CPUs : c # d =>
               /\ ~ (pc[c].op \in {"init", "done"} /\ pc[d].op \in {"init", "done"})
               /\ ~ (/\ pc[c].op = "restore" /\ pc[c].at \in 8 .. 11
                     /\ pc[d].op = "restore" /\ pc[d].at \in 8 .. 11)
<1>1. IInv => Turns
  BY DEF IInv, InTurn, TssCopied
<1> HIDE DEF Turns
<1>2. Spec => []Turns
  BY <1>1, CpuInvariant, PTL
<1> QED BY <1>2 DEF Turns

=============================================================================
