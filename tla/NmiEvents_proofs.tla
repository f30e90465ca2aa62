-------------------------- MODULE NmiEvents_proofs --------------------------
(***************************************************************************)
(* NmiEvents for every set of CPUs: the NMI handler never touches a VMCS   *)
(* that is not current, and no event that is posted is lost.               *)
(***************************************************************************)
EXTENDS NmiEvents, TLAPS

\* What the statement of vcpu_init or vcpu_exit that a CPU has reached says of
\* vmx_state, of VMX operation and of the VMCS.  Before vcpu_exit only the last
\* two conjuncts hold: vcpu_init may have failed anywhere.
Phase(c) ==
  /\ pc[c] \in {"linux", "init", "vmxon", "clear", "vmxoff"} => vmx[c] = "VMXOFF"
  /\ pc[c] \in {"vmcs", "ready"} => vmx[c] = "VMXON"
  /\ pc[c] \in RunSteps => vmx[c] = "VMCS_READY"
  /\ pc[c] \in {"vmxon", "vmcs", "ready", "clear", "vmxoff"} => vmxop[c]
  /\ pc[c] = "ready" => current[c]
  /\ vmx[c] # "VMXOFF" => vmxop[c]
  /\ vmx[c] = "VMCS_READY" => current[c]

\* Where an event is that has been posted for a CPU under the hypervisor: it
\* is being announced, by the poster, by a pending NMI or by the timer, or the
\* CPU has left the guest and is on the way to look at it.
OnItsWay(c) ==
  flag[c] => /\ pc[c] \in RunSteps \cup ExitSteps
             /\ pc[c] = "restore" => vmx[c] = "VMCS_READY"
             /\ pc[c] \in RunSteps =>
                  \/ sending[c] \/ nmi[c] \/ timer[c]
                  \/ pc[c] \in {"nmi", "check", "events"}

\* The inductive invariant.
NmiInv == TypeOK /\ \A c \in CPUs : Phase(c) /\ OnItsWay(c)

-----------------------------------------------------------------------------
\* Initially no CPU is in the hypervisor and no event is posted.
LEMMA NmiInit == Init => NmiInv
BY DEF Init, NmiInv, TypeOK, Phase, OnItsWay, InitSteps, RunSteps, ExitSteps

\* vcpu_init goes through the phases in order.
LEMMA InitStepsKeepInv ==
  ASSUME NmiInv, NEW c \in CPUs,
         StartInit(c) \/ Vmxon(c) \/ StateVmxon(c) \/ SetupVmcs(c)
           \/ StateReady(c) \/ Activate(c)
  PROVE  NmiInv'
<1> USE DEF NmiInv, TypeOK, Phase, OnItsWay, Goto, SetTimer, vmxVars, eventVars,
            InitSteps, RunSteps, ExitSteps
<1>1. CASE StartInit(c)
  BY <1>1 DEF StartInit
<1>2. CASE Vmxon(c)
  <2>1. CASE pc' = [pc EXCEPT ![c] = "vmxon"]
    BY <1>2, <2>1, ZenonT(60) DEF Vmxon
  <2>2. CASE pc' = [pc EXCEPT ![c] = "restore"]
    BY <1>2, <2>2, ZenonT(40) DEF Vmxon
  <2> QED
    BY <1>2, <2>1, <2>2 DEF Vmxon
<1>3. CASE StateVmxon(c)
  BY <1>3 DEF StateVmxon
<1>4. CASE SetupVmcs(c)
  <2>1. PICK loaded \in BOOLEAN : current' = [current EXCEPT ![c] = loaded]
    BY <1>4 DEF SetupVmcs
  <2>2. CASE pc' = [pc EXCEPT ![c] = "ready"]
    BY <1>4, <2>2, ZenonT(60) DEF SetupVmcs
  <2>3. CASE pc' = [pc EXCEPT ![c] = "restore"]
    BY <1>4, <2>1, <2>3 DEF SetupVmcs
  <2> QED
    BY <1>4, <2>2, <2>3 DEF SetupVmcs
<1>5. CASE StateReady(c)
  BY <1>5 DEF StateReady
<1>6. CASE Activate(c)
  BY <1>6 DEF Activate
<1> QED
  BY <1>1, <1>2, <1>3, <1>4, <1>5, <1>6

\* vcpu_exit changes vmx_state first.
LEMMA ExitStepsKeepInv ==
  ASSUME NmiInv, NEW c \in CPUs, StateOff(c) \/ ClearVmcs(c) \/ Vmxoff(c)
  PROVE  NmiInv'
<1> USE DEF NmiInv, TypeOK, Phase, OnItsWay, Goto, vmxVars, eventVars,
            InitSteps, RunSteps, ExitSteps
<1>1. CASE StateOff(c)
  BY <1>1 DEF StateOff
<1>2. CASE ClearVmcs(c)
  BY <1>2 DEF ClearVmcs
<1>3. CASE Vmxoff(c)
  BY <1>3 DEF Vmxoff
<1> QED
  BY <1>1, <1>2, <1>3

\* An exit leads an event that waited in a pending NMI or behind the timer to
\* vmx_check_events; the timer goes off before the event is looked at.
LEMMA RunStepsKeepInv ==
  ASSUME NmiInv, NEW c \in CPUs,
         CallHandler(c) \/ CheckEvents(c) \/ Handle(c) \/ Entry(c)
           \/ NmiExit(c) \/ TimerExit(c) \/ OtherExit(c)
  PROVE  NmiInv'
<1> USE DEF NmiInv, TypeOK, Phase, OnItsWay, Goto, SetTimer, vmxVars, eventVars,
            InitSteps, RunSteps, ExitSteps
<1>1. CASE CallHandler(c)
  BY <1>1 DEF CallHandler, NmiHandler
<1>2. CASE CheckEvents(c)
  BY <1>2 DEF CheckEvents
<1>3. CASE Handle(c)
  BY <1>3 DEF Handle
<1>4. CASE Entry(c)
  BY <1>4 DEF Entry
<1>5. CASE NmiExit(c)
  BY <1>5 DEF NmiExit
<1>6. CASE TimerExit(c)
  BY <1>6 DEF TimerExit
<1>7. CASE OtherExit(c)
  BY <1>7 DEF OtherExit
<1> QED
  BY <1>1, <1>2, <1>3, <1>4, <1>5, <1>6, <1>7

\* An NMI that hits the hypervisor turns into the timer, if vmx_state allows.
LEMMA NmisKeepInv ==
  ASSUME NmiInv, NEW c \in CPUs,
         HostNmi(c) \/ LinuxNmi(c) \/ Post(c) \/ SendNmi(c) \/ StrayNmi(c)
  PROVE  NmiInv'
<1> USE DEF NmiInv, TypeOK, Phase, OnItsWay, SetTimer, vmxVars, eventVars,
            InitSteps, RunSteps, ExitSteps
<1>1. CASE HostNmi(c)
  BY <1>1 DEF HostNmi, NmiHandler
<1>2. CASE LinuxNmi(c)
  BY <1>2 DEF LinuxNmi
<1>3. CASE Post(c)
  BY <1>3 DEF Post
<1>4. CASE SendNmi(c)
  BY <1>4 DEF SendNmi
<1>5. CASE StrayNmi(c)
  BY <1>5 DEF StrayNmi
<1> QED
  BY <1>1, <1>2, <1>3, <1>4, <1>5

-----------------------------------------------------------------------------
\* Phases and events stay consistent, whatever instruction of vcpu_init,
\* vcpu_handle_exit and vcpu_exit an NMI hits.
THEOREM NmiInvariant == Spec => []NmiInv
<1>1. NmiInv /\ [Next]_vars => NmiInv'
  <2> SUFFICES ASSUME NmiInv, [Next]_vars PROVE NmiInv'
    OBVIOUS
  <2>1. CASE Next
    <3>1. PICK c \in CPUs : Step(c)
      BY <2>1 DEF Next
    <3> QED
      BY <3>1, InitStepsKeepInv, ExitStepsKeepInv, RunStepsKeepInv, NmisKeepInv
      DEF Step, HostStep
  <2>2. CASE UNCHANGED vars
    BY <2>2 DEF vars, vmxVars, eventVars, NmiInv, TypeOK, Phase, OnItsWay
  <2> QED
    BY <2>1, <2>2
<1> QED
  BY NmiInit, <1>1, PTL DEF Spec

\* Every CPU is at a known place and in a known state, and NMIs are blocked
\* exactly from an NMI exit to the iret of the handler.
THEOREM NmiTyping == Spec => []TypeOK
<1>1. NmiInv => TypeOK
  BY DEF NmiInv
<1> QED
  BY <1>1, NmiInvariant, PTL

\* vcpu_nmi_handler finds a current VMCS whenever vmx_state lets it touch one.
THEOREM HandlerIsSafe == Spec => []HandlerSafe
<1>1. NmiInv => HandlerSafe
  BY DEF NmiInv, Phase, HandlerSafe
<1> QED
  BY <1>1, NmiInvariant, PTL

\* A guest never runs with an event posted that nothing announces.
THEOREM NoEventIsLost == Spec => []NoLostEvent
<1>1. NmiInv => NoLostEvent
  BY DEF NmiInv, OnItsWay, NoLostEvent, RunSteps
<1> QED
  BY <1>1, NmiInvariant, PTL
=============================================================================
