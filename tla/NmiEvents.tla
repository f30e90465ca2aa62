----------------------------- MODULE NmiEvents -----------------------------
(***************************************************************************)
(* How a CPU under the hypervisor learns of events posted for it           *)
(* (hypervisor/arch/x86/vmx.c).  The poster sets a flag in the CPU's public*)
(* data and sends it an NMI.  An NMI may arrive anywhere: in the guest it  *)
(* causes a VM exit; in the hypervisor, at any instruction, it runs        *)
(* vcpu_nmi_handler, which only turns the VMX preemption timer on (its     *)
(* value is 0, so the next VM entry exits at once); before and after the   *)
(* hypervisor it goes to Linux.  vmx_check_events turns the timer off and  *)
(* looks at the flags.  The handler writes the VMCS and so must do nothing *)
(* unless vmx_state says VMCS_READY: vcpu_init and vcpu_exit order their   *)
(* steps for it.                                                           *)
(***************************************************************************)
CONSTANT CPUs

VARIABLES
  pc,       \* what a CPU executes
  vmx,      \* vmx_state
  vmxop,    \* the CPU is in VMX operation
  current,  \* its VMCS is the current one
  timer,    \* PIN_BASED_VMX_PREEMPTION_TIMER in the VMCS
  nmi,      \* an NMI is pending at the CPU
  masked,   \* NMIs are blocked: from an NMI exit to the handler's iret
  flag,     \* an event is posted for the CPU
  sending   \* its poster has not sent the NMI yet

vmxVars == <<vmx, vmxop, current>>
eventVars == <<nmi, masked, flag, sending>>
vars == <<pc, vmxVars, timer, eventVars>>

InitSteps == {"init", "vmxon", "vmcs", "ready"}
ExitSteps == {"restore", "clear", "vmxoff"}
RunSteps == {"wait", "guest", "nmi", "check", "events", "handle", "entry"}

Init ==
  /\ pc = [c \in CPUs |-> "linux"]
  /\ vmx = [c \in CPUs |-> "VMXOFF"]
  /\ vmxop = [c \in CPUs |-> FALSE]
  /\ current = [c \in CPUs |-> FALSE]
  /\ timer = [c \in CPUs |-> FALSE]
  /\ nmi = [c \in CPUs |-> FALSE]
  /\ masked = [c \in CPUs |-> FALSE]
  /\ flag = [c \in CPUs |-> FALSE]
  /\ sending = [c \in CPUs |-> FALSE]

Goto(c, from, to) ==
  /\ pc[c] = from
  /\ pc' = [pc EXCEPT ![c] = to]

SetTimer(c, enable) == timer' = [timer EXCEPT ![c] = enable]

-----------------------------------------------------------------------------
(* vcpu_init                                                               *)

\* The CPU enters the hypervisor; vcpu_init may refuse (VMX in use, missing
\* features) before it has changed anything of VMX.
StartInit(c) ==
  /\ \/ Goto(c, "linux", "init")
     \/ Goto(c, "init", "restore")
  /\ UNCHANGED <<vmxVars, timer, eventVars>>

Vmxon(c) ==
  /\ \/ /\ Goto(c, "init", "vmxon")
        /\ vmxop' = [vmxop EXCEPT ![c] = TRUE]
     \/ /\ Goto(c, "init", "restore")
        /\ UNCHANGED vmxop
  /\ UNCHANGED <<vmx, current, timer, eventVars>>

StateVmxon(c) ==
  /\ Goto(c, "vmxon", "vmcs")
  /\ vmx' = [vmx EXCEPT ![c] = "VMXON"]
  /\ UNCHANGED <<vmxop, current, timer, eventVars>>

\* vmcs_clear, vmcs_load and vmcs_setup, which leaves the timer off.
SetupVmcs(c) ==
  /\ \/ /\ Goto(c, "vmcs", "ready")
        /\ current' = [current EXCEPT ![c] = TRUE]
        /\ SetTimer(c, FALSE)
     \/ /\ Goto(c, "vmcs", "restore")
        /\ \E loaded \in BOOLEAN : current' = [current EXCEPT ![c] = loaded]
        /\ UNCHANGED timer
  /\ UNCHANGED <<vmx, vmxop, eventVars>>

StateReady(c) ==
  /\ Goto(c, "ready", "wait")
  /\ vmx' = [vmx EXCEPT ![c] = "VMCS_READY"]
  /\ UNCHANGED <<vmxop, current, timer, eventVars>>

\* All CPUs are initialized and vcpu_activate_vmm launches the guest, or one
\* of them failed and everybody goes back.
Activate(c) ==
  /\ Goto(c, "wait", "guest") \/ Goto(c, "wait", "restore")
  /\ UNCHANGED <<vmxVars, timer, eventVars>>

-----------------------------------------------------------------------------
(* arch_cpu_restore: vcpu_exit                                             *)

\* Slip: leave vmx_state until VMX is off.
StateOffLate(c) ==
  /\ pc[c] = "restore"
  /\ pc' = [pc EXCEPT ![c] = IF vmx[c] = "VMXOFF" THEN "linux" ELSE "clear"]
  /\ UNCHANGED <<vmxVars, timer, eventVars>>

StateOff(c) ==
  /\ pc[c] = "restore"
  /\ pc' = [pc EXCEPT ![c] = IF vmx[c] = "VMXOFF" THEN "linux" ELSE "clear"]
  /\ vmx' = [vmx EXCEPT ![c] = "VMXOFF"]
  /\ UNCHANGED <<vmxop, current, timer, eventVars>>

ClearVmcs(c) ==
  /\ Goto(c, "clear", "vmxoff")
  /\ current' = [current EXCEPT ![c] = FALSE]
  /\ UNCHANGED <<vmx, vmxop, timer, eventVars>>

Vmxoff(c) ==
  /\ Goto(c, "vmxoff", "linux")
  /\ vmxop' = [vmxop EXCEPT ![c] = FALSE]
  /\ flag' = [flag EXCEPT ![c] = FALSE]
  /\ UNCHANGED <<vmx, current, timer, nmi, masked, sending>>

-----------------------------------------------------------------------------
(* The guest and its exits                                                 *)

NmiExit(c) ==
  /\ Goto(c, "guest", "nmi")
  /\ nmi[c]
  /\ nmi' = [nmi EXCEPT ![c] = FALSE]
  /\ masked' = [masked EXCEPT ![c] = TRUE]
  /\ UNCHANGED <<vmxVars, timer, flag, sending>>

\* The timer's value is 0: once enabled, it expires right after VM entry.
TimerExit(c) ==
  /\ Goto(c, "guest", "check")
  /\ timer[c]
  /\ UNCHANGED <<vmxVars, timer, eventVars>>

\* A #DB or #AC exit is reinjected and takes the way of events; the others
\* are handled and return to the guest, or leave the hypervisor.  The guest
\* executes nothing while the timer is enabled.
OtherExit(c) ==
  /\ ~ timer[c]
  /\ Goto(c, "guest", "check") \/ Goto(c, "guest", "handle")
  /\ UNCHANGED <<vmxVars, timer, eventVars>>

Handle(c) ==
  /\ Goto(c, "handle", "entry") \/ Goto(c, "handle", "restore")
  /\ UNCHANGED <<vmxVars, timer, eventVars>>

\* The effect of vcpu_nmi_handler.
NmiHandler(c) == SetTimer(c, timer[c] \/ vmx[c] = "VMCS_READY")

\* Slip: call the handler as a function, so that no iret unblocks NMIs.
CallHandlerNoIret(c) ==
  /\ Goto(c, "nmi", "check")
  /\ NmiHandler(c)
  /\ UNCHANGED <<vmxVars, eventVars>>

\* vmx_handle_exception_nmi runs the handler by an int instruction; its iret
\* ends the blocking of NMIs.
CallHandler(c) ==
  /\ Goto(c, "nmi", "check")
  /\ NmiHandler(c)
  /\ masked' = [masked EXCEPT ![c] = FALSE]
  /\ UNCHANGED <<vmxVars, nmi, flag, sending>>

\* Slip: look at the events first and turn the timer off afterwards.
CheckEventsFirst(c) ==
  /\ pc[c] \in {"check", "events"}
  /\ pc' = [pc EXCEPT ![c] = IF pc[c] = "check" THEN "events" ELSE "entry"]
  /\ flag' = [flag EXCEPT ![c] = @ /\ pc[c] # "check"]
  /\ SetTimer(c, timer[c] /\ pc[c] # "events")
  /\ UNCHANGED <<vmxVars, nmi, masked, sending>>

\* vmx_check_events: the timer off, then x86_check_events.
CheckEvents(c) ==
  /\ pc[c] \in {"check", "events"}
  /\ pc' = [pc EXCEPT ![c] = IF pc[c] = "check" THEN "events" ELSE "entry"]
  /\ SetTimer(c, timer[c] /\ pc[c] # "check")
  /\ flag' = [flag EXCEPT ![c] = @ /\ pc[c] # "events"]
  /\ UNCHANGED <<vmxVars, nmi, masked, sending>>

Entry(c) ==
  /\ Goto(c, "entry", "guest")
  /\ UNCHANGED <<vmxVars, timer, eventVars>>

-----------------------------------------------------------------------------
(* NMIs                                                                    *)

\* In the hypervisor, between any two steps of its code.
HostNmi(c) ==
  /\ pc[c] \notin {"linux", "guest"}
  /\ nmi[c] /\ ~ masked[c]
  /\ nmi' = [nmi EXCEPT ![c] = FALSE]
  /\ NmiHandler(c)
  /\ UNCHANGED <<pc, vmxVars, masked, flag, sending>>

LinuxNmi(c) ==
  /\ pc[c] = "linux"
  /\ nmi[c]
  /\ nmi' = [nmi EXCEPT ![c] = FALSE]
  /\ UNCHANGED <<pc, vmxVars, timer, masked, flag, sending>>

\* Another CPU posts an event: the flag first, then the NMI.
Post(c) ==
  /\ vmx[c] = "VMCS_READY"
  /\ flag' = [flag EXCEPT ![c] = TRUE]
  /\ sending' = [sending EXCEPT ![c] = TRUE]
  /\ UNCHANGED <<pc, vmxVars, timer, nmi, masked>>

SendNmi(c) ==
  /\ sending[c]
  /\ sending' = [sending EXCEPT ![c] = FALSE]
  /\ nmi' = [nmi EXCEPT ![c] = TRUE]
  /\ UNCHANGED <<pc, vmxVars, timer, masked, flag>>

\* A stray NMI, of a device or of a fault the IOMMU reports.
StrayNmi(c) ==
  /\ nmi' = [nmi EXCEPT ![c] = TRUE]
  /\ UNCHANGED <<pc, vmxVars, timer, masked, flag, sending>>

HostStep(c) ==
  \/ CallHandler(c) \/ CheckEvents(c) \/ Handle(c) \/ Entry(c)
  \/ StateOff(c) \/ ClearVmcs(c) \/ Vmxoff(c)

Step(c) ==
  \/ StartInit(c) \/ Vmxon(c) \/ StateVmxon(c) \/ SetupVmcs(c)
  \/ StateReady(c) \/ Activate(c)
  \/ HostStep(c) \/ NmiExit(c) \/ TimerExit(c) \/ OtherExit(c)
  \/ HostNmi(c) \/ LinuxNmi(c) \/ Post(c) \/ SendNmi(c) \/ StrayNmi(c)

Next == \E c \in CPUs : Step(c)

Spec == Init /\ [][Next]_vars

\* Code of the hypervisor runs on, the other CPUs arrive or fail, posters
\* send their NMI, and what the processor must deliver it delivers.  A guest
\* need not exit by itself and Linux need not start the hypervisor.
FairSpec ==
  /\ Spec
  /\ \A c \in CPUs :
       /\ WF_vars(HostStep(c)) /\ WF_vars(Activate(c)) /\ WF_vars(SendNmi(c))
       /\ WF_vars(TimerExit(c)) /\ WF_vars(NmiExit(c) \/ HostNmi(c))

-----------------------------------------------------------------------------
TypeOK ==
  /\ pc \in [CPUs -> {"linux"} \cup InitSteps \cup RunSteps \cup ExitSteps]
  /\ vmx \in [CPUs -> {"VMXOFF", "VMXON", "VMCS_READY"}]
  /\ vmxop \in [CPUs -> BOOLEAN]
  /\ current \in [CPUs -> BOOLEAN]
  /\ timer \in [CPUs -> BOOLEAN]
  /\ nmi \in [CPUs -> BOOLEAN]
  /\ masked = [c \in CPUs |-> pc[c] = "nmi"]
  /\ flag \in [CPUs -> BOOLEAN]
  /\ sending \in [CPUs -> BOOLEAN]

\* vcpu_nmi_handler can hit any instruction of vcpu_init, of the exit
\* handlers and of vcpu_exit, and never touches a VMCS that is not current
\* or executes a VMX instruction outside VMX operation.
HandlerSafe ==
  \A c \in CPUs : vmx[c] = "VMCS_READY" => vmxop[c] /\ current[c]

\* No event is lost: a guest never runs with a posted event unless the NMI
\* is still to come or the timer will force an exit, wherever in the
\* hypervisor earlier NMIs hit and however they merged.
NoLostEvent ==
  \A c \in CPUs :
    pc[c] = "guest" /\ flag[c] => sending[c] \/ nmi[c] \/ timer[c]

\* Every posted event is looked at, even if the guest never exits by itself.
EventsHandled == \A c \in CPUs : flag[c] ~> ~ flag[c]
=============================================================================
