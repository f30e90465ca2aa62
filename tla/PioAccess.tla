----------------------------- MODULE PioAccess -----------------------------
(***************************************************************************)
(* Who may use which I/O port without the hypervisor: the I/O bitmaps that *)
(* vcpu_target_init and vcpu_target_exit of hypervisor/arch/x86/vcpu.c     *)
(* build from the targets' port whitelists.  A target that is created      *)
(* takes its ports away from the root target; when it is destroyed, the    *)
(* root target gets back those of them that its own whitelist names.       *)
(***************************************************************************)
EXTENDS Integers, FiniteSetsExt

CONSTANTS
  Targets, Root,
  Ports,        \* 0 .. 2^16 - 1
  CmdReg,       \* I8042_CMD_REG
  PmTimer,      \* the four ports of the PM timer, or none
  Configs,      \* the possible system configurations: whitelists by target
  BitmapPages,  \* PIO_BITMAP_PAGES
  Pages         \* size of the page pool

\* The ports of one whitelist entry.
PortsOf(r) == r.base .. r.base + r.length - 1

\* Entries within the range of the ports: the code clears bits unchecked.
Region ==
  {r \in [base : Ports, length : 1 .. Cardinality(Ports)] :
     PortsOf(r) \subseteq Ports}

ASSUME PioAssumption ==
  /\ IsFiniteSet(Ports) /\ Ports \subseteq Nat
  /\ Root \in Targets
  /\ CmdReg \in Ports /\ PmTimer \subseteq Ports
  /\ CmdReg \notin PmTimer
  /\ Configs \subseteq [Targets -> SUBSET Region]
  /\ BitmapPages \in Nat /\ Pages \in Nat

VARIABLES
  config,   \* the system configuration
  active,   \* the targets that exist
  trapped,  \* the bits that are set in each target's I/O bitmap
  allowed,  \* pio_i8042_allowed
  pages     \* free pages of mem_pool

vars == <<config, active, trapped, allowed, pages>>

\* The ports of a whitelist.
Whitelist(t) == UNION {PortsOf(r) : r \in config[t]}

Init ==
  /\ config \in Configs
  /\ active = {}
  /\ trapped = [t \in Targets |-> {}]
  /\ allowed = [t \in Targets |-> FALSE]
  /\ pages = Pages

-----------------------------------------------------------------------------
\* Slip: leave the new target's ports open for the root target.
ShrinkNothing(t) == trapped[Root]

\* The root target's bits once a new target has taken its ports.
Shrink(t) == trapped[Root] \cup Whitelist(t)

\* vcpu_target_init.  vcpu_vendor_target_init may fail; the bitmap's pages are
\* given back then.
TargetInit(t) ==
  /\ t \notin active
  /\ t # Root => Root \in active
  /\ pages >= BitmapPages
  /\ \/ /\ trapped' =
             LET own == ((Ports \ Whitelist(t)) \cup {CmdReg}) \ PmTimer IN
             IF t = Root THEN [trapped EXCEPT ![t] = own]
             ELSE [trapped EXCEPT ![t] = own, ![Root] = Shrink(t)]
        /\ allowed' = [allowed EXCEPT ![t] = CmdReg \in Whitelist(t)]
        /\ active' = active \cup {t}
        /\ pages' = pages - BitmapPages
     \/ UNCHANGED <<trapped, allowed, active, pages>>
  /\ UNCHANGED config

\* The overlap of two whitelist entries, as the interval from the larger
\* start to the smaller end.
Overlap(r, s) ==
  Max({r.base, s.base}) .. Min({r.base + r.length, s.base + s.length}) - 1

\* Slip: hand all ports of the target to the root target.
RefundAll(t) == Whitelist(t)

\* The ports handed back: entry by entry, those both whitelists name.
Refund(t) ==
  UNION {Overlap(r, s) : r \in config[t], s \in config[Root]}

\* Slip: forget the bitmap's pages.
TargetExitLeak(t) ==
  /\ t \in active \ {Root}
  /\ trapped' = [trapped EXCEPT ![Root] = @ \ Refund(t), ![t] = {}]
  /\ allowed' = [allowed EXCEPT ![t] = FALSE]
  /\ active' = active \ {t}
  /\ UNCHANGED <<config, pages>>

\* vcpu_target_exit.
TargetExit(t) ==
  /\ t \in active \ {Root}
  /\ trapped' = [trapped EXCEPT ![Root] = @ \ Refund(t), ![t] = {}]
  /\ allowed' = [allowed EXCEPT ![t] = FALSE]
  /\ active' = active \ {t}
  /\ pages' = pages + BitmapPages
  /\ UNCHANGED config

Next == \E t \in Targets : TargetInit(t) \/ TargetExit(t)

Spec == Init /\ [][Next]_vars

-----------------------------------------------------------------------------
TypeOK ==
  /\ config \in Configs
  /\ active \subseteq Targets
  /\ trapped \in [Targets -> SUBSET Ports]
  /\ allowed \in [Targets -> BOOLEAN]
  /\ pages = Pages - BitmapPages * Cardinality(active)

\* What a target does without being intercepted.
Direct(t) == IF t \in active THEN Ports \ trapped[t] ELSE {}

\* The targets beside the root target whose whitelists name a port.
Users(p) == {t \in Targets \ {Root} : p \in Whitelist(t)}

\* Whatever the order in which targets come and go, two of them both drive a
\* port directly only if both whitelists name it, the PM timer apart; and the
\* root target shares a port with another target only if a third that names it
\* too does not exist: vcpu_target_exit hands back a port without asking
\* whether some other target has it.
PortsExclusive ==
  \A t, s \in active : t # s =>
    \A p \in (Direct(t) \cap Direct(s)) \ PmTimer :
      /\ p \in Whitelist(t) \cap Whitelist(s)
      /\ Root \in {t, s} => ~ (Users(p) \subseteq active)

\* The root target never gains a port its whitelist does not name.  It has all
\* of those that no existing target names, however targets that share them came
\* and went, and none of those all of whose users exist.
RootPorts ==
  Root \in active =>
    \A p \in Ports \ ({CmdReg} \cup PmTimer) :
      /\ p \in Direct(Root) => p \in Whitelist(Root)
      /\ Users(p) \cap active = {} =>
           (p \in Direct(Root) <=> p \in Whitelist(Root))
      /\ p \in Direct(Root) => Users(p) = {} \/ ~ (Users(p) \subseteq active)

\* "But always intercept access to i8042 command register" (vcpu.c:109):
\* no target writes the command register of the keyboard controller, with
\* which it could reset the machine, behind the hypervisor's back.
CmdRegIntercepted == \A t \in active : CmdReg \notin Direct(t)
=============================================================================
