---------------------------- MODULE CpuHandover ----------------------------
(***************************************************************************)
(* How the CPUs pass from Linux to the hypervisor and back                 *)
(* (hypervisor/arch/x86/setup.c: arch_cpu_init, arch_cpu_activate_vmm,     *)
(* arch_cpu_restore; hypervisor/arch/x86/vmx.c: vcpu_init, vmcs_setup,     *)
(* vcpu_exit, vcpu_activate_vmm, vcpu_deactivate_vmm).  The image is fresh *)
(* whenever the hypervisor is enabled, so a behaviour is the life of one   *)
(* image: all CPUs enter, all run Linux as a guest or all return at once,  *)
(* and each returns when Linux disables the hypervisor.                    *)
(* A register, or a group that the code treats alike, holds the            *)
(* hypervisor's value, the value Linux had on entry, or one it has set     *)
(* since.  CR4.VMXE is a register of its own.                              *)
(***************************************************************************)
EXTENDS Naturals, Sequences

CONSTANTS
  CPUs,       \* the CPUs that Linux runs on
  Changes     \* bound: sets of registers Linux changes while it is a guest

\* What the VMCS holds of the guest.  segs are DS, ES, FS and GS, and bases
\* FS_BASE and GS_BASE.
GuestRegs == {"cr0", "cr3", "cr4", "efer", "gdtr", "idtr", "cs", "segs",
              "bases", "tr", "sysenter"}

\* No CPU, where a lock names its holder.
Nobody == 0

ASSUME CpuAssumption ==
  /\ Changes \subseteq SUBSET GuestRegs
  /\ Nobody \notin CPUs

VARIABLES
  pc,       \* what each CPU is doing: a routine and its next statement
  hw,       \* its registers
  vmxop,    \* who has put it in VMX operation: linux, spy (vmx_state is not
            \* VMXOFF), or neither
  saved,    \* per_cpu.linux_*, pat, mtrr_def_type
  init,     \* per_cpu.initialized
  vmcs,     \* the guest area of its VMCS
  linux,    \* the values that Linux has last given its registers
  gdt,      \* the hypervisor's: its busy bit, and the descriptor for Linux
  tssLock,  \* the holder of tss_lock, or 0
  boot      \* the generic entry code: holder of its lock, failure, activation

linuxVars == <<vmcs, linux>>
sharedVars == <<gdt, tssLock>>
vars == <<pc, hw, vmxop, saved, init, linuxVars, sharedVars, boot>>

Regs == GuestRegs \cup {"pat", "vmxe"}
Saved == (Regs \ {"sysenter"}) \cup {"mtrr"}
Values == {"old", "new", "spy", "on", "off", "uc", "lost"}

Copy(to, from, set) ==
  [r \in DOMAIN to |-> IF r \in set THEN from[r] ELSE to[r]]

\* CR4 comes with its bit VMXE.
Group(r) == IF r = "cr4" THEN {"cr4", "vmxe"} ELSE {r}

\* The values of the hypervisor.
SpyRegs == [r \in Regs |-> IF r = "vmxe" THEN "on" ELSE "spy"]

\* Linux has VMX operation on, or not.
LinuxVmx(c) == IF linux[c].vmxe = "on" THEN "linux" ELSE "off"

Init ==
  /\ pc = [c \in CPUs |-> [op |-> "enter", at |-> 1]]
  /\ linux \in [CPUs -> {[r \in Regs |-> IF r = "vmxe" THEN v ELSE "old"] :
                           v \in {"on", "off"}}]
  /\ hw = linux
  /\ vmxop = [c \in CPUs |-> LinuxVmx(c)]
  /\ saved = [c \in CPUs |-> [r \in Saved |-> "lost"]]
  /\ init = [c \in CPUs |-> FALSE]
  /\ vmcs = [c \in CPUs |-> [r \in Regs |-> "lost"]]
  /\ gdt = [spy |-> FALSE, low |-> <<>>, high |-> <<>>, busy |-> FALSE]
  /\ tssLock = Nobody
  /\ boot = [lock |-> Nobody, err |-> FALSE, active |-> FALSE]

-----------------------------------------------------------------------------
(* The routines, as sequences of statements                                *)

\* Slip: save CR3 when it is swapped already.
InitRoutineLate ==
  << <<"save", "gdtr">>, <<"save", "tr">>, <<"check", "selector">>,
     <<"save", "cs">>, <<"save", "segs">>, <<"save", "bases">>,
     <<"spy", "gdtr">>, <<"spy", "cs">>, <<"save", "idtr">>, <<"spy", "idtr">>,
     <<"spy", "segs">>, <<"unbusy", "tr">>, <<"spy", "tr">>,
     <<"save", "cr0">>, <<"save", "cr4">>, <<"spy", "cr3">>, <<"save", "cr3">>,
     <<"save", "pat">>, <<"spy", "pat">>, <<"save", "efer">>,
     <<"initialized", "all">>, <<"check", "apic">>, <<"check", "vmx">>,
     <<"spy", "cr0">>, <<"spy", "cr4">>, <<"vmxon", "all">>, <<"setup", "vmcs">> >>

\* arch_cpu_init and vcpu_init.
InitRoutine ==
  << <<"save", "gdtr">>, <<"save", "tr">>, <<"check", "selector">>,
     <<"save", "cs">>, <<"save", "segs">>, <<"save", "bases">>,
     <<"spy", "gdtr">>, <<"spy", "cs">>, <<"save", "idtr">>, <<"spy", "idtr">>,
     <<"spy", "segs">>, <<"unbusy", "tr">>, <<"spy", "tr">>,
     <<"save", "cr0">>, <<"save", "cr4">>, <<"save", "cr3">>, <<"spy", "cr3">>,
     <<"save", "pat">>, <<"spy", "pat">>, <<"save", "efer">>,
     <<"initialized", "all">>, <<"check", "apic">>, <<"check", "vmx">>,
     <<"spy", "cr0">>, <<"spy", "cr4">>, <<"vmxon", "all">>, <<"setup", "vmcs">> >>

\* Slip: load CR3 before CR4.
RestoreRoutineCr3First ==
  << <<"exit", "vmx">>, <<"load", "pat">>, <<"load", "efer">>, <<"load", "cr0">>,
     <<"load", "cr3">>, <<"load", "cr4">>,
     <<"lock", "tss">>, <<"copy", "low">>, <<"copy", "high">>, <<"load", "tr">>,
     <<"unlock", "tss">>, <<"load", "gdtr">>, <<"load", "idtr">>,
     <<"load", "cs">>, <<"load", "segs">>, <<"load", "bases">> >>

\* Slip: keep the lock.
RestoreRoutineLocked ==
  << <<"exit", "vmx">>, <<"load", "pat">>, <<"load", "efer">>, <<"load", "cr0">>,
     <<"load", "cr4">>, <<"load", "cr3">>,
     <<"lock", "tss">>, <<"copy", "low">>, <<"copy", "high">>, <<"load", "tr">>,
     <<"load", "gdtr">>, <<"load", "idtr">>,
     <<"load", "cs">>, <<"load", "segs">>, <<"load", "bases">> >>

\* arch_cpu_restore, of a CPU that has been initialized.
RestoreRoutine ==
  << <<"exit", "vmx">>, <<"load", "pat">>, <<"load", "efer">>, <<"load", "cr0">>,
     <<"load", "cr4">>, <<"load", "cr3">>,
     <<"lock", "tss">>, <<"copy", "low">>, <<"copy", "high">>, <<"load", "tr">>,
     <<"unlock", "tss">>, <<"load", "gdtr">>, <<"load", "idtr">>,
     <<"load", "cs">>, <<"load", "segs">>, <<"load", "bases">> >>

Routine(op) == IF op = "init" THEN InitRoutine ELSE RestoreRoutine

Statement(c) == Routine(pc[c].op)[pc[c].at]

At(c, what) == pc[c].op \in {"init", "restore"} /\ Statement(c)[1] = what

Goto(c, op) == pc' = [pc EXCEPT ![c] = [op |-> op, at |-> 1]]

\* Slip: run past the end of a routine.
ContinuePast(c) ==
  IF pc[c].at <= Len(Routine(pc[c].op)) THEN pc' = [pc EXCEPT ![c].at = @ + 1]
  ELSE Goto(c, IF pc[c].op = "init" THEN "done" ELSE "linux")

Continue(c) ==
  IF pc[c].at < Len(Routine(pc[c].op)) THEN pc' = [pc EXCEPT ![c].at = @ + 1]
  ELSE Goto(c, IF pc[c].op = "init" THEN "done" ELSE "linux")

\* An exception in the hypervisor stops the CPU for good.
Unless(c, exception) == IF exception THEN Goto(c, "dead") ELSE Continue(c)

\* The page tables in use map Linux's memory.
LinuxMapped(c) == hw[c].cr3 = linux[c].cr3

-----------------------------------------------------------------------------
(* Registers                                                               *)

\* Saving a segment register or TR reads its descriptor, too.
Save(c) ==
  LET r == Statement(c)[2] IN
  /\ At(c, "save")
  /\ saved' = [saved EXCEPT ![c] =
       IF r = "pat" THEN [Copy(@, hw[c], {r}) EXCEPT !.mtrr = "on"]
                    ELSE Copy(@, hw[c], Group(r))]
  /\ Unless(c, r \in {"tr", "cs", "segs"} /\ ~ LinuxMapped(c))
  /\ UNCHANGED <<hw, vmxop, init, linuxVars, sharedVars, boot>>

\* A register is given the hypervisor's value.
LoadSpy(c) ==
  LET r == Statement(c)[2] IN
  /\ At(c, "spy")
  /\ hw' = [hw EXCEPT ![c] = Copy(@, SpyRegs, Group(r))]
  /\ gdt' = IF r = "tr" THEN [gdt EXCEPT !.spy = TRUE] ELSE gdt
  /\ Unless(c, \/ r = "cs" /\ hw[c].gdtr # "spy"
               \/ r = "tr" /\ (hw[c].gdtr # "spy" \/ gdt.spy))
  /\ UNCHANGED <<vmxop, saved, init, linuxVars, tssLock, boot>>

\* The processor's objections to a value of CR4: no PCIDs while CR3 holds
\* one, and VMXE stays on in VMX operation.
BadCr4(c, from) ==
  \/ hw[c].cr4 = "spy" /\ from.cr4 # "spy" /\ hw[c].cr3 # "spy"
  \/ vmxop[c] # "off" /\ from.vmxe = "off"

\* The TSS whose descriptor the hypervisor's GDT holds for Linux.
CopiedTss(c) ==
  IF gdt.low = gdt.high /\ gdt.low[1] = c THEN gdt.low[2] ELSE "lost"

\* A register is given the saved value.  The segment selectors are looked up
\* in the GDT, and loading FS and GS changes their bases.
LoadSaved(c) ==
  LET r == Statement(c)[2]
      from == saved[c]
  IN
  /\ At(c, "load")
  /\ hw' = [hw EXCEPT ![c] =
       CASE r = "tr" -> [@ EXCEPT !.tr = CopiedTss(c)]
         [] r = "segs" -> [@ EXCEPT !.segs = from.segs, !.bases = "lost"]
         [] OTHER -> Copy(@, from, Group(r))]
  /\ gdt' = IF r = "tr" THEN [gdt EXCEPT !.busy = TRUE] ELSE gdt
  /\ Unless(c, \/ r \in {"cs", "segs"} /\ hw[c].gdtr # linux[c].gdtr
               \/ r = "tr" /\ (hw[c].gdtr # "spy" \/ gdt.busy)
               \/ r = "cr4" /\ BadCr4(c, from))
  /\ UNCHANGED <<vmxop, saved, init, linuxVars, tssLock, boot>>

-----------------------------------------------------------------------------
(* arch_cpu_init and vcpu_init                                             *)

\* The busy flag of the hypervisor's TSS descriptor is cleared for ltr.
ClearBusy(c) ==
  /\ At(c, "unbusy")
  /\ gdt' = [gdt EXCEPT !.spy = FALSE]
  /\ Continue(c)
  /\ UNCHANGED <<hw, vmxop, saved, init, linuxVars, tssLock, boot>>

Initialized(c) ==
  /\ At(c, "initialized")
  /\ init' = [init EXCEPT ![c] = TRUE]
  /\ Continue(c)
  /\ UNCHANGED <<hw, vmxop, saved, linuxVars, sharedVars, boot>>

\* A failure: the other CPUs are told, and all return to Linux.
Fail(c) ==
  /\ Goto(c, "back")
  /\ boot' = [boot EXCEPT !.lock = Nobody, !.err = TRUE]

\* The checks of TSS selector, APIC and VMX features.  VMX must not be in use.
Check(c) ==
  /\ At(c, "check")
  /\ \/ /\ Statement(c)[2] = "vmx" => saved[c].vmxe = "off"
        /\ Continue(c)
        /\ UNCHANGED boot
     \/ Fail(c)
  /\ UNCHANGED <<hw, vmxop, saved, init, linuxVars, sharedVars>>

\* If vmxon fails, Linux's CR4 is put back at once.
Vmxon(c) ==
  /\ At(c, "vmxon")
  /\ \/ /\ vmxop' = [vmxop EXCEPT ![c] = "spy"]
        /\ Unless(c, hw[c].vmxe = "off")
        /\ UNCHANGED <<hw, boot>>
     \/ /\ hw' = [hw EXCEPT ![c] = Copy(@, saved[c], Group("cr4"))]
        /\ Fail(c)
        /\ UNCHANGED vmxop
  /\ UNCHANGED <<saved, init, linuxVars, sharedVars>>

\* vmcs_clear, vmcs_load and vmcs_setup.
SetupVmcs(c) ==
  /\ At(c, "setup")
  /\ \/ /\ vmcs' = [vmcs EXCEPT ![c] =
             [Copy(hw[c], saved[c], Regs \ {"sysenter"}) EXCEPT !.vmxe = "on"]]
        /\ Continue(c)
        /\ UNCHANGED boot
     \/ Fail(c) /\ UNCHANGED vmcs
  /\ UNCHANGED <<hw, vmxop, saved, init, linux, sharedVars>>

-----------------------------------------------------------------------------
(* arch_cpu_restore                                                        *)

\* vcpu_exit, which does nothing if vmx_state is VMXOFF.
VcpuExit(c) ==
  /\ At(c, "exit")
  /\ IF vmxop[c] = "spy"
     THEN /\ vmxop' = [vmxop EXCEPT ![c] = "off"]
          /\ saved' = [saved EXCEPT ![c].vmxe = "off"]
     ELSE UNCHANGED <<vmxop, saved>>
  /\ Continue(c)
  /\ UNCHANGED <<hw, init, linuxVars, sharedVars, boot>>

\* Slip: go on without the lock.
LockTssIgnored(c) ==
  /\ At(c, "lock")
  /\ tssLock' = c
  /\ Continue(c)
  /\ UNCHANGED <<hw, vmxop, saved, init, linuxVars, gdt, boot>>

LockTss(c) ==
  /\ At(c, "lock")
  /\ tssLock = Nobody
  /\ tssLock' = c
  /\ Continue(c)
  /\ UNCHANGED <<hw, vmxop, saved, init, linuxVars, gdt, boot>>

UnlockTss(c) ==
  /\ At(c, "unlock")
  /\ tssLock' = Nobody
  /\ Continue(c)
  /\ UNCHANGED <<hw, vmxop, saved, init, linuxVars, gdt, boot>>

\* The two halves of the descriptor are copied from Linux's GDT, which holds
\* the descriptor of the TSS that Linux uses.
CopyTss(c) ==
  LET half == Statement(c)[2]
      tss == <<c, IF saved[c].gdtr = linux[c].gdtr THEN linux[c].tr ELSE "lost">>
  IN
  /\ At(c, "copy")
  /\ gdt' = IF half = "low" THEN [gdt EXCEPT !.low = tss, !.busy = FALSE]
                            ELSE [gdt EXCEPT !.high = tss]
  /\ Unless(c, ~ LinuxMapped(c))
  /\ UNCHANGED <<hw, vmxop, saved, init, linuxVars, tssLock, boot>>

-----------------------------------------------------------------------------
(* The generic entry code: CPUs are initialized one after the other, wait  *)
(* for the last one, and return to Linux if any of them fails.             *)

Enter(c) ==
  /\ pc[c].op = "enter" /\ boot.lock = Nobody
  /\ IF boot.err THEN Goto(c, "back") /\ UNCHANGED boot
     ELSE Goto(c, "init") /\ boot' = [boot EXCEPT !.lock = c]
  /\ UNCHANGED <<hw, vmxop, saved, init, linuxVars, sharedVars>>

Leave(c) ==
  /\ pc[c].op = "done"
  /\ boot' = [boot EXCEPT !.lock = Nobody]
  /\ Goto(c, "wait")
  /\ UNCHANGED <<hw, vmxop, saved, init, linuxVars, sharedVars>>

\* The initialization that is done once, after the CPUs', succeeds or fails.
Decide ==
  /\ \A c \in CPUs : pc[c].op = "wait"
  /\ ~ boot.err /\ ~ boot.active
  /\ \E ok \in BOOLEAN : boot' = [boot EXCEPT !.err = ~ ok, !.active = ok]
  /\ UNCHANGED <<pc, hw, vmxop, saved, init, linuxVars, sharedVars>>

GiveUp(c) ==
  /\ pc[c].op = "wait" /\ boot.err
  /\ Goto(c, "back")
  /\ UNCHANGED <<hw, vmxop, saved, init, linuxVars, sharedVars, boot>>

\* arch_cpu_restore returns at once if the CPU was not initialized.
Back(c) ==
  /\ pc[c].op = "back"
  /\ Goto(c, IF init[c] THEN "restore" ELSE "linux")
  /\ UNCHANGED <<hw, vmxop, saved, init, linuxVars, sharedVars, boot>>

-----------------------------------------------------------------------------
(* Linux as a guest                                                        *)

\* arch_cpu_activate_vmm and vcpu_activate_vmm.
Activate(c) ==
  /\ pc[c].op = "wait" /\ boot.active
  /\ hw' = [hw EXCEPT ![c] = vmcs[c]]
  /\ Goto(c, "guest")
  /\ UNCHANGED <<vmxop, saved, init, linuxVars, sharedVars, boot>>

\* Linux sets registers that it may set without an exit.
Change(c, set) ==
  /\ pc[c].op = "guest"
  /\ \A r \in GuestRegs : linux[c][r] = "old"
  /\ linux' = [linux EXCEPT ![c] = [r \in Regs |-> IF r \in set THEN "new" ELSE @[r]]]
  /\ hw' = [hw EXCEPT ![c] = Copy(@, linux'[c], set)]
  /\ UNCHANGED <<pc, vmxop, saved, init, vmcs, sharedVars, boot>>

\* The PAT that takes effect in the guest.
GuestPat(mtrr, pat) == IF mtrr = "on" THEN pat ELSE "uc"

\* vcpu_handle_msr_write: MSR_IA32_PAT.
WritePat(c) ==
  /\ pc[c].op = "guest"
  /\ linux' = [linux EXCEPT ![c].pat = "new"]
  /\ saved' = [saved EXCEPT ![c].pat = "new"]
  /\ hw' = IF saved[c].mtrr = "on" THEN [hw EXCEPT ![c].pat = "new"] ELSE hw
  /\ UNCHANGED <<pc, vmxop, init, vmcs, sharedVars, boot>>

\* vcpu_handle_msr_write: MSR_IA32_MTRR_DEF_TYPE.
WriteMtrr(c, val) ==
  /\ pc[c].op = "guest"
  /\ saved' = [saved EXCEPT ![c].mtrr = val]
  /\ hw' = [hw EXCEPT ![c].pat = GuestPat(val, saved[c].pat)]
  /\ UNCHANGED <<pc, vmxop, init, linuxVars, sharedVars, boot>>

\* vcpu_handle_hypercall: SPY_HC_DISABLE has succeeded.
Disable(c) ==
  /\ pc[c].op = "guest"
  /\ vmcs' = [vmcs EXCEPT ![c] = hw[c]]
  /\ hw' = [hw EXCEPT ![c] = SpyRegs]
  /\ Goto(c, "deactivate")
  /\ UNCHANGED <<vmxop, saved, init, linux, sharedVars, boot>>

\* vcpu_deactivate_vmm, up to arch_cpu_restore.
Deactivate(c) ==
  /\ pc[c].op = "deactivate"
  /\ saved' = [saved EXCEPT ![c] = Copy(@, vmcs[c], Saved \ {"pat", "mtrr"})]
  /\ hw' = [hw EXCEPT ![c].sysenter = vmcs[c].sysenter]
  /\ Goto(c, "restore")
  /\ UNCHANGED <<vmxop, init, linuxVars, sharedVars, boot>>

-----------------------------------------------------------------------------
Step(c) ==
  \/ Save(c) \/ LoadSpy(c) \/ LoadSaved(c)
  \/ ClearBusy(c) \/ Initialized(c) \/ Check(c) \/ Vmxon(c) \/ SetupVmcs(c)
  \/ VcpuExit(c) \/ LockTss(c) \/ CopyTss(c) \/ UnlockTss(c)
  \/ Enter(c) \/ Leave(c) \/ GiveUp(c) \/ Back(c) \/ Activate(c) \/ Deactivate(c)

Guest(c) ==
  \/ \E set \in Changes : Change(c, set)
  \/ WritePat(c) \/ (\E val \in {"on", "off"} : WriteMtrr(c, val))
  \/ Disable(c)

Next == Decide \/ \E c \in CPUs : Step(c) \/ Guest(c)

Spec == Init /\ [][Next]_vars

\* The hypervisor's code runs with interrupts off, until Linux takes over; the
\* CPUs that spin on tss_lock are served in order.
FairSpec ==
  /\ Spec
  /\ WF_vars(Decide)
  /\ \A c \in CPUs : WF_vars(Step(c)) /\ SF_vars(LockTss(c) \/ Enter(c))

-----------------------------------------------------------------------------
TypeOK ==
  /\ \A c \in CPUs :
       /\ pc[c].op \in {"enter", "init", "done", "wait", "back", "restore",
                        "guest", "deactivate", "linux", "dead"}
       /\ pc[c].at \in 1 .. Len(Routine(pc[c].op))
  /\ hw \in [CPUs -> [Regs -> Values]]
  /\ vmxop \in [CPUs -> {"off", "linux", "spy"}]
  /\ saved \in [CPUs -> [Saved -> Values]]
  /\ init \in [CPUs -> BOOLEAN]
  /\ vmcs \in [CPUs -> [Regs -> Values]]
  /\ linux \in [CPUs -> [Regs -> {"old", "new", "on", "off"}]]
  /\ gdt.low \in (CPUs \X Values) \cup {<<>>}
  /\ gdt.high \in (CPUs \X Values) \cup {<<>>}
  /\ tssLock \in CPUs \cup {Nobody}
  /\ boot.lock \in CPUs \cup {Nobody}

\* Back in Linux, by failure or by disabling the hypervisor, a CPU has the
\* register values that Linux last gave it, those it set as a guest included,
\* with its own task state segment, and is in VMX operation as before.
HandedBack ==
  \A c \in CPUs : pc[c].op = "linux" =>
    hw[c] = linux[c] /\ vmxop[c] = LinuxVmx(c)

\* As a guest, Linux runs with the registers it had, and its PAT takes effect
\* exactly while it has the MTRRs enabled.
TakenOver ==
  \A c \in CPUs : pc[c].op = "guest" =>
    /\ \A r \in GuestRegs : hw[c][r] = linux[c][r]
    /\ hw[c].pat = GuestPat(saved[c].mtrr, linux[c].pat)

\* No CPU takes an exception in the hypervisor: no TSS is loaded that is busy,
\* no selector from a wrong GDT, no CR4 that the processor refuses, and Linux's
\* memory is read only under Linux's page tables.
NoException == \A c \in CPUs : pc[c].op # "dead"

\* A CPU that has entered the hypervisor becomes a guest or returns; a CPU
\* that disables the hypervisor returns.
CpusReturn ==
  \A c \in CPUs :
    /\ pc[c].op = "enter" ~> pc[c].op \in {"guest", "linux"}
    /\ pc[c].op = "deactivate" ~> pc[c].op = "linux"
=============================================================================
