--------------------------- MODULE GuestProcessor ---------------------------
(***************************************************************************)
(* What the software of a target may expect of its CPU: a processor that   *)
(* executes one instruction after the other, each once, as if no           *)
(* hypervisor were there.  It can be reset, it can be parked, and it stops *)
(* for good only at an access that the target was not given or in a state  *)
(* that no processor can be in.                                            *)
(*                                                                         *)
(* The processor differs from a real one in three named ways, all at moves *)
(* to control registers of which the hypervisor owns bits: an illegal one  *)
(* is not refused, paging is not switched off in long mode                 *)
(* (LeavesLongMode), and PAE paging starts with page directory pointers    *)
(* that were never loaded (EntersPaePaging).                               *)
(***************************************************************************)
EXTENDS Integers

CONSTANTS
  Targets, Root,
  Insns,       \* the instructions of a guest, as records with op and arg
  Supported4,  \* the bits of CR4 that the processor has
  Owned0, Owned4,  \* the bits of CR0 and CR4 that the hypervisor owns
  Pats, LinuxPat, ResetPat,
  None, Zero   \* no value, and registers that a reset cleared

VARIABLES
  run,       \* "on", "parked" until it is reset, or "failed"
  target,    \* whose CPU it is
  insn,      \* the instruction in progress or None
  rip,       \* "at" the instruction or "past" it
  reg,       \* what the instruction returned in its registers
  handling,  \* the exception the processor has just begun to deliver, or None
  cr0, cr4, efer,
  pdptes,    \* "loaded" if the PDPTE registers hold the guest's PDPTEs
  pat, mtrr, \* IA32_PAT and the enable bit of IA32_MTRR_DEF_TYPE
  memtype    \* the PAT that the processor really uses

registers == <<cr0, cr4, efer, pdptes, pat, mtrr, memtype>>
vars == <<run, target, insn, rip, reg, handling, registers>>

Long(e) == "LMA" \in e
PaePaging(c0, c4, e) == "PG" \in c0 /\ "PAE" \in c4 /\ ~ Long(e)

\* The PDPTE registers after an instruction that may switch the paging mode.
Reload(c0, c4, e) ==
  IF ~ PaePaging(c0, c4, e) THEN "undefined"
  ELSE IF PaePaging(cr0, cr4, efer) THEN pdptes ELSE "loaded"

\* The states that the architecture knows.
Consistent ==
  /\ "PG" \in cr0 => "PE" \in cr0
  /\ Long(efer) <=> "LME" \in efer /\ "PG" \in cr0
  /\ Long(efer) => "PAE" \in cr4

InitCpu(c0s, c4s) ==
  /\ run = "on" /\ target = Root
  /\ insn = None /\ rip = "past" /\ reg = None /\ handling = None
  /\ cr0 \in c0s /\ cr4 \in c4s /\ efer = {"LME", "LMA"}
  /\ pdptes = "undefined"
  /\ pat = LinuxPat /\ mtrr = TRUE /\ memtype = LinuxPat

-----------------------------------------------------------------------------
Fetch(i) ==
  /\ run = "on" /\ insn = None /\ Consistent
  /\ insn' = i /\ rip' = "at" /\ reg' = None /\ handling' = None
  /\ UNCHANGED <<run, target, registers>>

Retire == insn' = None /\ rip' = "past" /\ UNCHANGED <<run, target, handling>>

\* An instruction that is not executed but raises an exception.
Raise(vector) ==
  /\ insn' = None /\ handling' = vector
  /\ UNCHANGED <<run, target, rip, reg, registers>>

\* A move that changes what a bit of the hypervisor's reads as is emulated.
Differ(v, w, bits) == v \cap bits # w \cap bits

\* A move to CR0: EFER.LMA follows CR0.PG if EFER.LME is set.
Efer(c0) ==
  IF "LME" \in efer /\ "PG" \in c0 THEN efer \cup {"LMA"} ELSE efer \ {"LMA"}
Legal0(v) ==
  /\ "PG" \in v => "PE" \in v
  /\ "PG" \in v \ cr0 /\ "LME" \in efer => "PAE" \in cr4
MoveCR0(v) ==
  LET emulated == Differ(v, cr0, Owned0)
      LeavesLongMode == Long(efer) /\ "PG" \notin v
      EntersPaePaging == /\ PaePaging(v, cr4, Efer(v))
                         /\ ~ PaePaging(cr0, cr4, efer)
      Write == /\ cr0' = v
               /\ Retire /\ UNCHANGED <<reg, cr4, pat, mtrr, memtype>> IN
  \/ /\ Legal0(v) /\ (emulated => ~ LeavesLongMode /\ ~ EntersPaePaging)
     /\ Write /\ efer' = Efer(v) /\ pdptes' = Reload(v, cr4, efer')
  \/ ~ Legal0(v) /\ Raise("GP")
  \/ /\ emulated /\ (~ Legal0(v) \/ LeavesLongMode \/ EntersPaePaging)
     /\ Write
     /\ efer' = IF LeavesLongMode THEN efer ELSE Efer(v)
     /\ pdptes' = IF EntersPaePaging THEN "undefined" ELSE Reload(v, cr4, efer')

\* A move to CR4, in which VMXE is always read as one.  A bit that the
\* processor does not have stays as an unchecked move has left it.
Legal4(v) == v \subseteq Supported4 \cup cr4 /\ (Long(efer) => "PAE" \in v)
MoveCR4(v) ==
  LET new == v \cup {"VMXE"}
      emulated == Differ(v, cr4, Owned4)
      EntersPaePaging == /\ PaePaging(cr0, new, efer)
                         /\ ~ PaePaging(cr0, cr4, efer)
      Write == /\ cr4' = new
               /\ Retire /\ UNCHANGED <<reg, cr0, efer, pat, mtrr, memtype>> IN
  \/ Legal4(v) /\ Write /\ pdptes' = Reload(cr0, new, efer)
  \/ emulated /\ EntersPaePaging /\ Write /\ pdptes' = "undefined"
  \/ emulated /\ ~ Legal4(v) /\ ~ EntersPaePaging /\ Write
       /\ pdptes' = Reload(cr0, new, efer)
  \/ (~ Legal4(v) \/ "VMXE" \notin v) /\ Raise("GP")

MoveCR3 ==
  /\ pdptes' = IF PaePaging(cr0, cr4, efer) THEN "loaded" ELSE "undefined"
  /\ Retire /\ UNCHANGED <<reg, cr0, cr4, efer, pat, mtrr, memtype>>

\* WRMSR to EFER: LME cannot change while paging is on.
WriteEfer(lme) ==
  IF "PG" \in cr0 /\ lme # ("LME" \in efer) THEN Raise("GP")
  ELSE /\ efer' = IF lme THEN efer \cup {"LME"} ELSE efer \ {"LME"}
       /\ Retire
       /\ UNCHANGED <<reg, cr0, cr4, pdptes, pat, mtrr, memtype>>

\* IA32_PAT and IA32_MTRR_DEF_TYPE: without MTRRs, nothing is cached.
MemType == IF mtrr' THEN pat' ELSE "UC"
WritePat(v) ==
  /\ v \in Pats
  /\ pat' = v /\ memtype' = MemType
  /\ Retire /\ UNCHANGED <<reg, mtrr, cr0, cr4, efer, pdptes>>
WriteMtrr(enable) ==
  /\ mtrr' = enable /\ memtype' = MemType
  /\ Retire /\ UNCHANGED <<reg, pat, cr0, cr4, efer, pdptes>>

\* An instruction that only returns a value.
Return(v) == reg' = v /\ Retire /\ UNCHANGED registers

\* CPUID leaf 1: OSXSAVE mirrors CR4, only the root target sees VMX.
Features ==
  (cr4 \cap {"OSXSAVE"}) \cup (IF target = Root THEN {"VMX"} ELSE {"HYPERVISOR"})

Xsetbv(v) ==
  IF "OSXSAVE" \notin cr4 THEN Raise("UD") ELSE v = "valid" /\ Return(None)

Execute ==
  /\ insn # None /\ run = "on"
  /\ LET op == insn.op arg == insn.arg IN
     \/ op = "mov cr0" /\ MoveCR0(arg)
     \/ op = "mov cr4" /\ MoveCR4(arg)
     \/ op = "mov cr3" /\ MoveCR3
     \/ op = "wrmsr efer" /\ WriteEfer(arg)
     \/ op = "wrmsr pat" /\ WritePat(arg)
     \/ op = "wrmsr mtrr" /\ WriteMtrr(arg)
     \/ op = "rdmsr pat" /\ Return(pat)
     \/ op = "rdmsr mtrr" /\ Return(mtrr)
     \/ op = "cpuid" /\ Return(Features)
     \/ op = "xsetbv" /\ Xsetbv(arg)
     \/ op = "vmcall" /\ Return(IF arg = "user" THEN "EPERM" ELSE "result")
     \/ op \in {"io", "memory", "msr"} /\ Return(None)
     \/ op = "exception" /\ Raise(arg)

-----------------------------------------------------------------------------
\* The accesses that may be refused: those to devices and to registers that
\* the target was not given, and those that are illegal.
Refusable(i) ==
  \/ i.op = "memory"
  \/ i.op \in {"io", "msr"} /\ i.arg # "ignored"
  \/ i.op = "wrmsr pat" /\ i.arg \notin Pats
  \/ i.op = "xsetbv" /\ i.arg # "valid"
  \/ i.op = "shutdown"

\* Wait for a reset.  The registers are those of a processor that was reset.
Cleared ==
  /\ cr0' = {"CD"} /\ cr4' = {"VMXE"} /\ efer' = {} /\ pdptes' = "undefined"
  /\ rip' = "at" /\ insn' = None /\ handling' = None

Stop ==
  /\ run = "on"
  /\ ~ Consistent \/ (insn # None /\ Refusable(insn))
  /\ run' = "failed" /\ Cleared
  /\ UNCHANGED <<target, reg, pat, mtrr, memtype>>

\* Resets and parking come from the other CPUs, between two instructions or
\* before the delivery of an exception.
Boundary == insn # None => insn.op = "exception"

\* A start-up IPI leaves the memory types alone, a reset does not; only a
\* reset revives a CPU that failed.
Reset(hard) ==
  /\ Boundary /\ Consistent
  /\ run = "failed" => hard
  /\ run' = "on" /\ Cleared /\ reg' = Zero
  /\ IF hard THEN pat' = ResetPat /\ mtrr' = FALSE /\ memtype' = "UC"
     ELSE UNCHANGED <<pat, mtrr, memtype>>
  /\ UNCHANGED <<target>>

\* Parked by an INIT, or since the CPU is given to another target, which also
\* ends its failure.
Park(t) ==
  /\ Boundary /\ Consistent
  /\ run' = IF run = "failed" /\ t = target THEN "failed" ELSE "parked"
  /\ target' = t /\ Cleared
  /\ UNCHANGED <<reg, pat, mtrr, memtype>>

Next ==
  \/ \E i \in Insns : Fetch(i)
  \/ Execute
  \/ Stop
  \/ \E hard \in BOOLEAN : Reset(hard)
  \/ \E t \in Targets : Park(t)
=============================================================================
