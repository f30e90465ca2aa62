------------------------------ MODULE GuestCpu ------------------------------
(***************************************************************************)
(* The guest's side of one CPU: the VMCS that hypervisor/arch/x86/vmx.c    *)
(* keeps for it and the VM exits that vmx.c and vcpu.c handle.  The guest  *)
(* is any program; the processor in non-root operation executes what it    *)
(* may and leaves the rest to the hypervisor.  Where the generic core, the *)
(* device emulations or the other CPUs decide, every outcome is possible.  *)
(***************************************************************************)
EXTENDS PageWalk

CONSTANTS
  Targets, Root,
  Insns,                 \* the instructions of a guest, with op and arg
  CR0_FIXED0, CR0_FIXED1, CR4_FIXED0, CR4_FIXED1,  \* MSR_IA32_VMX_CR*
  LinuxCr0s, LinuxCr4s,  \* what Linux has in the control registers
  Pats,                  \* values of IA32_PAT without a reserved memory type
  LinuxPat, ResetPat,    \* linux's PAT and PAT_RESET_VALUE
  Cr3, Memory, OldPdptes,  \* the guest's page tables; what the PDPTE fields
                           \* hold when the guest never loaded them
  Addresses,             \* addresses of instructions in the guest
  Parking, None, Zero

\* vmx_check_features: NW and CD are kept off, PE and PG are the guest's.
cr0_maybe1 == CR0_FIXED1 \ {"CD"}
cr0_required1 == CR0_FIXED0 \ {"PE", "PG"}
cr4_maybe1 == CR4_FIXED1
cr4_required1 == CR4_FIXED0

Cr0Bits == {"PE", "PG", "NE", "CD"}
Cr4Bits == {"PAE", "PSE", "VMXE", "OSXSAVE", "R"}
cr0_host_mask == cr0_required1 \cup (Cr0Bits \ cr0_maybe1)
cr4_host_mask == cr4_required1 \cup (Cr4Bits \ cr4_maybe1)

ASSUME GuestAssumption ==
  /\ Root \in Targets /\ Parking \notin Targets
  /\ CR0_FIXED0 \subseteq CR0_FIXED1 /\ CR0_FIXED1 \subseteq Cr0Bits
  /\ CR4_FIXED0 \subseteq CR4_FIXED1 /\ CR4_FIXED1 \subseteq Cr4Bits
  /\ {"PE", "PG"} \subseteq CR0_FIXED1 /\ "CD" \notin CR0_FIXED0
  /\ "VMXE" \in CR4_FIXED0 /\ {"PAE", "OSXSAVE"} \subseteq CR4_FIXED1 \ CR4_FIXED0
  /\ LinuxCr0s \subseteq SUBSET cr0_maybe1
  /\ LinuxCr4s \subseteq SUBSET (cr4_maybe1 \ {"VMXE"})
  /\ Cr3 \in Word /\ Cr3 \cap Bits(11, 0) = {}
  /\ LinuxPat \in Pats /\ ResetPat \in Pats /\ "UC" \notin Pats

\* On every processor, the only bit of CR4 that VMX operation requires is VMXE.
ASSUME FixedAssumption == CR4_FIXED0 = {"VMXE"}

ASSUME MemoryAssumption ==
  /\ IsMemory(Memory) /\ Addresses \subseteq Word
  /\ OldPdptes \in [SUBSET {0, 1} -> Word]

\* The operands of the instructions that the model looks into.
ASSUME InsnsAssumption ==
  /\ None \notin Insns /\ None \notin {"DB", "AC"}
  /\ \A i \in Insns :
       /\ i = [op |-> i.op, arg |-> i.arg]
       /\ i.op = "mov cr0" => i.arg \subseteq Cr0Bits
       /\ i.op = "mov cr4" => i.arg \subseteq Cr4Bits
       /\ i.op \in {"wrmsr efer", "wrmsr mtrr"} => i.arg \in BOOLEAN
       /\ i.op = "exception" => i.arg \in {"DB", "AC"}

VARIABLES
  target,    \* this_target()
  failed,    \* this_cpu_public()->failed
  vmcs,      \* the fields of the VMCS
  phase,     \* "guest", "exit", "check" for events, "entry" or "failed entry"
  insn,      \* the instruction in progress or None
  reg,       \* guest_regs: what an instruction returned
  pat, mtrr, \* cpu_data->pat, MTRR_ENABLE in cpu_data->mtrr_def_type
  handling   \* the exception the processor has just begun to deliver, or None

vars == <<target, failed, vmcs, phase, insn, reg, pat, mtrr, handling>>

-----------------------------------------------------------------------------
(***************************************************************************)
(* Control registers.                                                      *)
(***************************************************************************)
\* vmx_set_guest_cr for CR0 and for CR4.
SetGuestCr0(v, val) ==
  [v EXCEPT !.cr0 = (val \cap cr0_maybe1) \cup cr0_required1,
            !.cr0_shadow = val,
            !.cr0_mask = cr0_host_mask]
SetGuestCr4(v, val) ==
  LET visible == val \cup {"VMXE"} IN
  [v EXCEPT !.cr4 = (visible \cap cr4_maybe1) \cup cr4_required1,
            !.cr4_shadow = visible,
            !.cr4_mask = cr4_host_mask]

\* What the guest reads, and vcpu_vendor_get_guest_cr4.
ReadCr0(v) == (v.cr0_shadow \cap v.cr0_mask) \cup (v.cr0 \ v.cr0_mask)
ReadCr4(v) == (v.cr4_shadow \cap v.cr4_mask) \cup (v.cr4 \ v.cr4_mask)
GetGuestCr4(v) ==
  (v.cr4_shadow \cap cr4_host_mask) \cup (v.cr4 \ cr4_host_mask)

\* Slip: start long mode for the processor only, not for the VM entry.
UpdateEferOnly(v) ==
  IF v.efer \cap {"LME", "LMA"} = {"LME"}
  THEN [v EXCEPT !.efer = @ \cup {"LMA"}] ELSE v

\* update_efer.
UpdateEfer(v) ==
  IF v.efer \cap {"LME", "LMA"} = {"LME"}
  THEN [v EXCEPT !.efer = @ \cup {"LMA"}, !.ia32e = TRUE] ELSE v

\* vcpu_skip_emulated_instruction.
Skip(v) == [v EXCEPT !.rip = IF @ = "at" THEN "past" ELSE "beyond"]

\* vmx_handle_cr, a move to CR0 or to CR4.
EmulateCr0(v, val) ==
  LET set == SetGuestCr0(Skip(v), val) IN
  IF "PG" \in val THEN UpdateEfer(set) ELSE set

\* Slip: skip the instruction in the dispatcher and in the handler.
EmulateCr4Twice(v, val) == SetGuestCr4(Skip(Skip(v)), val)

EmulateCr4(v, val) == SetGuestCr4(Skip(v), val)

-----------------------------------------------------------------------------
(***************************************************************************)
(* Reset and parking.                                                      *)
(***************************************************************************)
\* vmx_set_target_config.
SetTargetConfig(v, t) == [v EXCEPT !.io_bitmap = t, !.ept = t]

\* Slip: leave the exception that waits for the next VM entry.
VendorResetKeepsEvent(v, t) ==
  SetTargetConfig(
    [SetGuestCr4(SetGuestCr0(v, {"CD"}), {}) EXCEPT
       !.cr3 = {}, !.rip = "at", !.efer = {}, !.ia32e = FALSE], t)

\* vcpu_vendor_reset: the state of a processor after INIT or reset.
VendorReset(v, t) ==
  SetTargetConfig(
    [SetGuestCr4(SetGuestCr0(v, {"CD"}), {}) EXCEPT
       !.cr3 = {}, !.rip = "at", !.efer = {}, !.inject = None,
       !.ia32e = FALSE], t)

\* Slip: park the CPU on the tables of its former target.
ParkUnderOldTarget(v, t) == [v EXCEPT !.ept = Parking, !.rip = "at"]

\* vcpu_park: in the endless loop of the parking page.
VcpuPark(v, t) == [VendorReset(v, t) EXCEPT !.ept = Parking]

\* vmcs_setup, with the target's configuration and without host masks for CR4.
VmcsSetup(c0, c4) ==
  LET fields ==
        [cr0 |-> {}, cr0_shadow |-> {}, cr0_mask |-> {},
         cr4 |-> {}, cr4_shadow |-> {}, cr4_mask |-> {},
         cr3 |-> Cr3, rip |-> "past", pdptes |-> "undefined",
         efer |-> {"LME", "LMA"}, ia32e |-> TRUE, inject |-> None,
         pat |-> LinuxPat, io_bitmap |-> None, ept |-> None]
      crs == SetGuestCr4(SetGuestCr0(fields, c0), c4) IN
  [SetTargetConfig(crs, Root) EXCEPT !.cr4_mask = {}]

Init ==
  /\ target = Root /\ failed = FALSE
  /\ \E c0 \in LinuxCr0s, c4 \in LinuxCr4s : vmcs = VmcsSetup(c0, c4)
  /\ phase = "entry" /\ insn = None /\ reg = None /\ handling = None
  /\ pat = LinuxPat /\ mtrr = TRUE

-----------------------------------------------------------------------------
(***************************************************************************)
(* The processor in non-root operation.                                    *)
(***************************************************************************)
Long(v) == "LMA" \in v.efer
PaePaging(v) == "PG" \in v.cr0 /\ "PAE" \in v.cr4 /\ ~ Long(v)

\* The paging mode may have changed from that of "v": PDPTEs are loaded when
\* PAE paging starts.
Reloaded(v, w) ==
  [w EXCEPT !.pdptes = IF ~ PaePaging(w) THEN "undefined"
                       ELSE IF PaePaging(v) THEN @ ELSE "loaded"]

CrExits(val, shadow, mask) == val \cap mask # shadow \cap mask

\* The intercepted model-specific registers: msr_bitmap.
ReadIntercepted == {"rdmsr pat", "rdmsr mtrr"}
WriteIntercepted == {"wrmsr pat", "wrmsr mtrr"}

Exits(i) ==
  \/ i.op = "mov cr0" /\ CrExits(i.arg, vmcs.cr0_shadow, vmcs.cr0_mask)
  \/ i.op = "mov cr4" /\ CrExits(i.arg, vmcs.cr4_shadow, vmcs.cr4_mask)
  \/ i.op \in ReadIntercepted \cup WriteIntercepted
  \/ i.op \in {"cpuid", "vmcall", "io", "memory", "msr", "exception", "shutdown"}
  \/ i.op = "xsetbv" /\ "OSXSAVE" \in ReadCr4(vmcs)

\* The guest, in its own code, comes to the next instruction.
Fetch(i) ==
  /\ phase = "guest" /\ insn = None /\ vmcs.ept # Parking
  /\ insn' = i /\ reg' = None /\ handling' = None
  /\ vmcs' = [vmcs EXCEPT !.rip = "at"]
  /\ UNCHANGED <<target, failed, phase, pat, mtrr>>

Execute(v) ==
  /\ vmcs' = [v EXCEPT !.rip = "past"] /\ insn' = None
  /\ UNCHANGED <<target, failed, phase, reg, pat, mtrr, handling>>
Raise(vector) ==
  /\ handling' = vector /\ insn' = None
  /\ UNCHANGED <<target, failed, vmcs, phase, reg, pat, mtrr>>

\* Moves that do not exit write the bits that are the guest's.
GuestMovCr0(val) ==
  LET new == (val \ vmcs.cr0_mask) \cup (vmcs.cr0 \cap vmcs.cr0_mask)
      lma == "LME" \in vmcs.efer /\ "PG" \in new
      efer == IF lma THEN vmcs.efer \cup {"LMA"} ELSE vmcs.efer \ {"LMA"} IN
  IF \/ "PG" \in new /\ "PE" \notin new
     \/ "PG" \in new \ vmcs.cr0 /\ lma /\ "PAE" \notin vmcs.cr4
  THEN Raise("GP")
  ELSE Execute(Reloaded(vmcs, [vmcs EXCEPT !.cr0 = new, !.efer = efer]))

GuestMovCr4(val) ==
  LET new == (val \ vmcs.cr4_mask) \cup (vmcs.cr4 \cap vmcs.cr4_mask) IN
  IF \/ ~ (CR4_FIXED0 \subseteq new /\ new \subseteq CR4_FIXED1)
     \/ Long(vmcs) /\ "PAE" \notin new
  THEN Raise("GP")
  ELSE Execute(Reloaded(vmcs, [vmcs EXCEPT !.cr4 = new]))

GuestMovCr3 ==
  Execute([vmcs EXCEPT !.cr3 = Cr3,
                       !.pdptes = IF PaePaging(vmcs) THEN "loaded" ELSE @])

GuestWriteEfer(lme) ==
  IF "PG" \in vmcs.cr0 /\ lme # ("LME" \in vmcs.efer) THEN Raise("GP")
  ELSE Execute([vmcs EXCEPT
         !.efer = IF lme THEN @ \cup {"LME"} ELSE @ \ {"LME"}])

GuestExecute ==
  /\ phase = "guest" /\ insn # None /\ ~ Exits(insn)
  /\ \/ insn.op = "mov cr0" /\ GuestMovCr0(insn.arg)
     \/ insn.op = "mov cr4" /\ GuestMovCr4(insn.arg)
     \/ insn.op = "mov cr3" /\ GuestMovCr3
     \/ insn.op = "wrmsr efer" /\ GuestWriteEfer(insn.arg)
     \/ insn.op = "xsetbv" /\ Raise("UD")

\* A VM exit saves EFER, LMA in the entry control "IA-32e mode guest", and the
\* PDPTEs, which are undefined without PAE paging.
Saved == [vmcs EXCEPT !.ia32e = Long(vmcs),
                      !.pdptes = IF PaePaging(vmcs) THEN @ ELSE "undefined"]

VmExit ==
  /\ phase = "guest" /\ insn # None /\ Exits(insn)
  /\ vmcs' = Saved /\ phase' = "exit"
  /\ UNCHANGED <<target, failed, insn, reg, pat, mtrr, handling>>

\* An NMI or the preemption timer: vmx_check_events comes next.
Interrupted ==
  /\ phase = "guest" /\ insn = None
  /\ vmcs' = Saved /\ phase' = "check"
  /\ UNCHANGED <<target, failed, insn, reg, pat, mtrr, handling>>

\* The checks of the guest state at a VM entry.
Enterable(v) ==
  /\ CR0_FIXED0 \ {"PE", "PG"} \subseteq v.cr0 /\ v.cr0 \subseteq CR0_FIXED1
  /\ CR4_FIXED0 \subseteq v.cr4 /\ v.cr4 \subseteq CR4_FIXED1
  /\ "PG" \in v.cr0 => "PE" \in v.cr0
  /\ v.ia32e => "PG" \in v.cr0 /\ "PAE" \in v.cr4
  /\ v.ia32e <=> Long(v)
  /\ "PG" \in v.cr0 => (Long(v) <=> "LME" \in v.efer)

VmEntry ==
  /\ phase = "entry"
  /\ IF Enterable(vmcs)
     THEN /\ phase' = "guest"
          /\ handling' = IF vmcs.inject # None THEN vmcs.inject ELSE handling
          /\ vmcs' = [vmcs EXCEPT !.inject = None]
     ELSE phase' = "failed entry" /\ UNCHANGED <<vmcs, handling>>
  /\ UNCHANGED <<target, failed, insn, reg, pat, mtrr>>

-----------------------------------------------------------------------------
(***************************************************************************)
(* The exit handlers.                                                      *)
(***************************************************************************)
\* A handler that succeeded.
Resume(v) == vmcs' = v /\ phase' = "entry" /\ insn' = None /\ UNCHANGED <<target, failed>>
Untouched == UNCHANGED <<reg, pat, mtrr, handling>>

\* panic_park.
PanicPark ==
  /\ failed' = TRUE
  /\ vmcs' = VcpuPark(vmcs, target)
  /\ phase' = "entry" /\ insn' = None /\ handling' = None
  /\ UNCHANGED <<target, reg, pat, mtrr>>

HandleCr ==
  /\ \/ insn.op = "mov cr0" /\ Resume(EmulateCr0(vmcs, insn.arg))
     \/ insn.op = "mov cr4" /\ Resume(EmulateCr4(vmcs, insn.arg))
  /\ Untouched

\* vcpu_handle_cpuid, leaf 1.
HandleCpuid ==
  /\ insn.op = "cpuid"
  /\ reg' = (GetGuestCr4(vmcs) \cap {"OSXSAVE"})
              \cup (IF target = Root THEN {"VMX"} ELSE {"HYPERVISOR"})
  /\ Resume(Skip(vmcs))
  /\ UNCHANGED <<pat, mtrr, handling>>

\* vcpu_handle_hypercall, the hypervisor's deactivation aside.
HandleHypercall ==
  /\ insn.op = "vmcall"
  /\ Resume(Skip(vmcs))
  /\ reg' = IF insn.arg = "user" THEN "EPERM" ELSE "result"
  /\ UNCHANGED <<pat, mtrr, handling>>

\* vcpu_handle_msr_read.
HandleMsrRead ==
  /\ \/ insn.op = "rdmsr pat" /\ reg' = pat
     \/ insn.op = "rdmsr mtrr" /\ reg' = mtrr
  /\ Resume(Skip(vmcs))
  /\ UNCHANGED <<pat, mtrr, handling>>

\* Slip: a new PAT takes effect even while caching is off.
PatInForceAlways(val) == val

\* The PAT field after a write of IA32_PAT.
PatInForce(val) == IF mtrr THEN val ELSE vmcs.pat

\* vcpu_handle_msr_write.
HandleMsrWrite ==
  \/ /\ insn.op = "wrmsr pat"
     /\ IF insn.arg \notin Pats THEN PanicPark
        ELSE /\ pat' = insn.arg
             /\ Resume(Skip([vmcs EXCEPT !.pat = PatInForce(insn.arg)]))
             /\ UNCHANGED <<reg, mtrr, handling>>
  \/ /\ insn.op = "wrmsr mtrr"
     /\ mtrr' = insn.arg
     /\ Resume(Skip([vmcs EXCEPT !.pat = IF insn.arg THEN pat ELSE "UC"]))
     /\ UNCHANGED <<reg, pat, handling>>

\* Registers beyond PAT and MTRRs: a write of IA32_PERF_GLOBAL_CTRL is ignored,
\* x2APIC registers are for apic.c to accept, and others stop the CPU.
HandleMsrOther ==
  /\ insn.op = "msr"
  /\ \/ insn.arg # "unknown" /\ Resume(Skip(vmcs)) /\ Untouched
     \/ insn.arg # "ignored" /\ PanicPark

\* vmx_handle_xsetbv, of a value with FP and without unknown bits or not.
HandleXsetbv ==
  /\ insn.op = "xsetbv"
  /\ IF /\ "OSXSAVE" \in GetGuestCr4(vmcs)
        /\ insn.arg = "valid"
     THEN Resume(Skip(vmcs)) /\ Untouched
     ELSE PanicPark

\* vcpu_handle_io_access: string instructions are refused, a byte to port 80
\* is ignored, other ports are for the device emulations to accept.
HandleIo ==
  /\ insn.op = "io"
  /\ \/ insn.arg # "string" /\ Resume(Skip(vmcs)) /\ Untouched
     \/ insn.arg # "ignored" /\ PanicPark

\* vcpu_handle_mmio_access and vmx_handle_apic_access: the instruction is
\* fetched with FetchedFrom below; it may not be one that can be emulated, and
\* the address may have no handler.
HandleMemory ==
  /\ insn.op = "memory"
  /\ (Resume(Skip(vmcs)) /\ Untouched) \/ PanicPark

\* vmx_handle_exception_nmi: reinject #DB and #AC, then look for events.
HandleException ==
  /\ insn.op = "exception"
  /\ vmcs' = [vmcs EXCEPT !.inject = insn.arg]
  /\ insn' = None /\ phase' = "check"
  /\ UNCHANGED <<target, failed, reg, pat, mtrr, handling>>

\* vcpu_handle_exit.
HandleExit ==
  /\ phase = "exit"
  /\ \/ HandleCr \/ HandleCpuid \/ HandleHypercall
     \/ HandleMsrRead \/ HandleMsrWrite \/ HandleMsrOther
     \/ HandleXsetbv \/ HandleIo \/ HandleMemory \/ HandleException
     \/ insn.op = "shutdown" /\ PanicPark

HandleFailedEntry == phase = "failed entry" /\ PanicPark

\* x86_check_events finds nothing.
NoEvent ==
  /\ phase = "check" /\ phase' = "entry"
  /\ UNCHANGED <<target, failed, vmcs, insn, reg, pat, mtrr, handling>>

\* x86_check_events finds a start-up IPI, or the pseudo SIPI with which a
\* target is started; vcpu_reset.
Reset(hard) ==
  /\ phase = "check" /\ phase' = "entry"
  /\ failed => hard
  /\ failed' = FALSE
  /\ vmcs' = [VendorReset(vmcs, target) EXCEPT !.pat = IF hard THEN "UC" ELSE @]
  /\ reg' = Zero
  /\ IF hard THEN pat' = ResetPat /\ mtrr' = FALSE ELSE UNCHANGED <<pat, mtrr>>
  /\ insn' = None /\ handling' = None
  /\ UNCHANGED <<target>>

\* x86_check_events finds an INIT, or the CPU was stopped in it and has been
\* given to target t; vcpu_park.
Park(t) ==
  /\ phase = "check" /\ phase' = "entry"
  /\ target' = t /\ failed' = (failed /\ t = target)
  /\ vmcs' = VcpuPark(vmcs, t)
  /\ insn' = None /\ handling' = None
  /\ UNCHANGED <<reg, pat, mtrr>>

Next ==
  \/ \E i \in Insns : Fetch(i)
  \/ GuestExecute \/ VmExit \/ Interrupted
  \/ VmEntry \/ HandleExit \/ HandleFailedEntry
  \/ NoEvent
  \/ \E hard \in BOOLEAN : Reset(hard)
  \/ \E t \in Targets : Park(t)

Spec == Init /\ [][Next]_vars

-----------------------------------------------------------------------------
(***************************************************************************)
(* Finding the guest's code.                                               *)
(***************************************************************************)
\* Slip: ask for PAE before long mode, which has PAE set as well.
PaeFirst ==
  IF "PG" \notin vmcs.cr0 THEN [paging |-> << >>, root |-> {}]
  ELSE IF "PAE" \in vmcs.cr4
  THEN [paging |-> pae_paging, root |-> vmcs.cr3 \cap Bits(31, 5)]
  ELSE IF vmcs.ia32e
  THEN [paging |-> x86_64_paging, root |-> vmcs.cr3 \cap Bits(51, 12)]
  ELSE [paging |-> i386_paging, root |-> vmcs.cr3 \cap Bits(31, 12)]

\* vcpu_get_guest_paging_structs.
GuestPagingStructs ==
  IF vmcs.ia32e
  THEN [paging |-> x86_64_paging, root |-> vmcs.cr3 \cap Bits(51, 12)]
  ELSE IF "PG" \notin vmcs.cr0 THEN [paging |-> << >>, root |-> {}]
  ELSE IF "PAE" \in vmcs.cr4
  THEN [paging |-> pae_paging, root |-> vmcs.cr3 \cap Bits(31, 5)]
  ELSE [paging |-> i386_paging, root |-> vmcs.cr3 \cap Bits(31, 12)]

\* The four PDPTE registers.
Pdptes ==
  IF vmcs.pdptes = "undefined" THEN OldPdptes
  ELSE [i \in SUBSET {0, 1} |->
          Load64(Memory, (vmcs.cr3 \cap Bits(31, 5)) \cup Up(i, 3))]

\* vcpu_map_inst: where the hypervisor reads the instruction at an address.
FetchedFrom(virt) ==
  LET structs == GuestPagingStructs IN
  WalkResult(Memory, structs.paging, structs.root, Pdptes, virt)

\* Where the processor fetched it.
ExecutedFrom(virt) ==
  IF "PG" \notin vmcs.cr0 THEN virt
  ELSE IF Long(vmcs) THEN LongLookup(Memory, vmcs.cr3, virt)
  ELSE IF PaePaging(vmcs) THEN PaeLookup(Memory, Pdptes, virt)
  ELSE Lookup32(Memory, vmcs.cr3, "PSE" \in vmcs.cr4, virt)

\* The page directory entry for an address has the bit PS, which i386_paging
\* heeds, but the guest has not set CR4.PSE, so that the processor does not.
StrayPs(virt) ==
  /\ "PG" \in vmcs.cr0 /\ "PAE" \notin vmcs.cr4 /\ "PSE" \notin vmcs.cr4
  /\ Huge(Pde32(Memory, vmcs.cr3, virt))

-----------------------------------------------------------------------------
\* The fields of the VMCS.
Vmcs ==
  [cr0 : SUBSET Cr0Bits, cr0_shadow : SUBSET Cr0Bits, cr0_mask : SUBSET Cr0Bits,
   cr4 : SUBSET Cr4Bits, cr4_shadow : SUBSET Cr4Bits, cr4_mask : SUBSET Cr4Bits,
   cr3 : {{}, Cr3}, rip : {"at", "past"}, pdptes : {"undefined", "loaded"},
   efer : SUBSET {"LME", "LMA"}, ia32e : BOOLEAN, inject : {None, "DB", "AC"},
   pat : Pats \cup {"UC"}, io_bitmap : Targets, ept : Targets \cup {Parking}]

\* The type of every variable: fields keep their range, and no handler skips an
\* instruction twice.
TypeOK ==
  /\ target \in Targets /\ failed \in BOOLEAN
  /\ vmcs \in Vmcs
  /\ phase \in {"guest", "exit", "check", "entry", "failed entry"}
  /\ insn \in Insns \cup {None}
  /\ pat \in Pats /\ mtrr \in BOOLEAN

\* A CPU runs with the I/O bitmap of the target it belongs to and either with
\* that target's EPT or, in particular when it failed, on the parking page
\* (vmx_set_target_config, vcpu_park): being given to another target, failing
\* and being reset in any order never leave it with another target's tables.
OwnTables ==
  /\ vmcs.io_bitmap = target
  /\ vmcs.ept \in {target, Parking}
  /\ failed => vmcs.ept = Parking

\* At a memory access that the hypervisor emulates, it parses the instruction
\* that the processor executed, whatever the guest did to its control
\* registers before (vcpu_get_guest_paging_structs, paging.c), unless the
\* guest's tables have the bit PS where the processor does not heed it.
EmulatesWhatGuestExecutes ==
  phase = "exit" /\ insn.op = "memory" =>
    \A virt \in Addresses :
      ~ StrayPs(virt) => FetchedFrom(virt) = ExecutedFrom(virt)

-----------------------------------------------------------------------------
\* The processor that the guest sees.  An exception that waits for the VM entry
\* is still in progress.
ProcessorRun ==
  IF failed THEN "failed" ELSE IF vmcs.ept = Parking THEN "parked" ELSE "on"
ProcessorInsn ==
  IF vmcs.inject = None THEN insn ELSE [op |-> "exception", arg |-> vmcs.inject]
ProcessorPdptes == IF PaePaging(vmcs) THEN vmcs.pdptes ELSE "undefined"

Processor ==
  INSTANCE GuestProcessor WITH
    Supported4 <- cr4_maybe1,
    Owned0 <- cr0_host_mask, Owned4 <- cr4_host_mask,
    run <- ProcessorRun, insn <- ProcessorInsn, rip <- vmcs.rip,
    cr0 <- ReadCr0(vmcs), cr4 <- ReadCr4(vmcs), efer <- vmcs.efer,
    pdptes <- ProcessorPdptes, memtype <- vmcs.pat

ProcessorInit == Processor!InitCpu(LinuxCr0s, {c \cup {"VMXE"} : c \in LinuxCr4s})

\* The guest sees a processor: whatever it does, and whenever it is reset,
\* parked or given away, the VMCS and the exit handlers together behave as
\* GuestProcessor allows.  In particular a legal move to a control register
\* takes effect and never ends in a failed VM entry, except for switching off
\* paging in long mode; an exception is delivered once or dies with a reset;
\* and no instruction is skipped or executed twice.
ImplementsProcessor == ProcessorInit /\ [][Processor!Next]_(Processor!vars)
=============================================================================
