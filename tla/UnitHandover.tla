---------------------------- MODULE UnitHandover ----------------------------
(***************************************************************************)
(* How the VT-d units pass from Linux to the hypervisor and back           *)
(* (hypervisor/arch/x86/vtd.c: vtd_init, vtd_init_ir_emulation,            *)
(* iommu_config_commit, vtd_init_unit, vtd_unit_access_handler,            *)
(* iommu_prepare_shutdown, vtd_restore_ir).  If Linux uses interrupt       *)
(* remapping, it goes on feeding its own invalidation queues while the     *)
(* hypervisor runs: writes of its tail register are trapped and the        *)
(* descriptors emulated, and at shutdown the unit has to continue where    *)
(* the emulation stopped, unless its queue cannot be mapped then.  One CPU *)
(* initializes and shuts down while the others wait; Linux never stops in  *)
(* the middle of a submission.                                             *)
(***************************************************************************)
EXTENDS Integers, Sequences

CONSTANTS
  Units,        \* iommu_count_units()
  QSize,        \* descriptors in a queue of one page
  Configs,      \* what Linux may have done with the units: "off": QI and IR
                \* are off, "on": both are on, "other": anything else
  MaxRequests   \* bound: descriptors Linux submits to a unit

ASSUME HandoverAssumption ==
  /\ Units \in Nat \ {0}
  /\ QSize \in Nat /\ QSize >= 3
  /\ MaxRequests \in Nat
  /\ Configs \subseteq [0 .. Units - 1 -> {"off", "on", "other"}]

VARIABLES
  linux,   \* the configuration Linux has chosen
  reg,     \* the registers of each unit, and the caches that are up to date
  ring,    \* Linux's queue in memory: numbers of its descriptors, or 0
  sent,    \* descriptors Linux has submitted to each unit
  log,     \* the descriptors carried out, in order
  mask,    \* FECTL.IM as Linux has last written it
  emu,     \* root_target_units
  ir,      \* root_target.arch.vtd.ir_emulation
  ready,   \* dmar_units_initialized
  lost,    \* units whose head could not be restored, with a warning
  trap,    \* the emulation of a tail register write: none, busy or panic
  pc       \* the routine that runs, the unit of its loop, its next statement

linuxVars == <<linux, ring, sent, log, mask>>
flagVars == <<ir, ready>>
vars == <<linuxVars, reg, emu, flagVars, lost, trap, pc>>

UnitIds == 0 .. Units - 1
Index == 0 .. QSize - 1
Owners == {"none", "linux", "spy"}
Controls == {"te", "ire", "qie"}
Caches == {"context", "iotlb", "int"}

\* The index at which Linux writes next, its value for the tail register.
LinuxTail(u) == sent[u] % QSize

\* An enabled unit uses Linux's tables and queue.  FECTL.IM is im, and
\* fe[1..3] says whose values FEDATA, FEADDR and FEUADDR hold.
LinuxUnit(use) ==
  [te |-> use = "other", ire |-> use = "on", qie |-> use = "on",
   root |-> "linux", irta |-> "linux", irt |-> "linux", iqa |-> "linux",
   head |-> 0, tail |-> 0, fresh |-> Caches,
   im |-> use # "on", fe |-> [n \in 1 .. 3 |-> "linux"]]

NoEmulation == [iqh |-> 0, iqa |-> "none", irta |-> "none", im |-> FALSE]

Init ==
  /\ linux \in Configs
  /\ reg = [u \in UnitIds |-> LinuxUnit(linux[u])]
  /\ ring = [u \in UnitIds |-> [i \in Index |-> 0]]
  /\ sent = [u \in UnitIds |-> 0]
  /\ log = [u \in UnitIds |-> <<>>]
  /\ mask = [u \in UnitIds |-> reg[u].im]
  /\ emu = [u \in UnitIds |-> NoEmulation]
  /\ ir = FALSE
  /\ ready = FALSE
  /\ lost = {}
  /\ trap = [u \in UnitIds |-> "none"]
  /\ pc = [op |-> "linux", unit |-> 0, at |-> 1, polling |-> FALSE]

-----------------------------------------------------------------------------
(* The registers                                                           *)

\* Slip: write the command register without the bits that are set.
CommandAlone(r, bit, on) ==
  [r EXCEPT !.te = on /\ bit = "te", !.ire = on /\ bit = "ire",
            !.qie = on /\ bit = "qie",
            !.head = IF on /\ bit = "qie" THEN @ ELSE 0]

\* vtd_update_gcmd_reg, which returns when the unit has done it.  A unit whose
\* queue is switched off forgets its head.
Command(r, bit, on) ==
  [r EXCEPT ![bit] = on, !.head = IF bit = "qie" /\ ~ on THEN 0 ELSE @]

\* The unit takes over a table's address; it may still cache the old table.
SetRoot(r, owner) ==
  [r EXCEPT !.root = owner, !.fresh = @ \ {"context", "iotlb"}]

SetTable(r, owner) ==
  [r EXCEPT !.irta = owner, !.irt = owner, !.fresh = @ \ {"int"}]

\* The invalidation queue: tail register and address.
SetQueue(r, owner) == [r EXCEPT !.tail = 0, !.iqa = owner]

\* Slip: the index runs off the page.
AdvanceNoWrap(r, n) == [r EXCEPT !.tail = @ + n]

\* The tail register after n more descriptors.
Advance(r, n) == [r EXCEPT !.tail = (@ + n) % QSize]

\* A fault event register gets the value of an owner; register 0 is FECTL.
SetEvent(r, n, owner, im) ==
  IF n = 0 THEN [r EXCEPT !.im = im] ELSE [r EXCEPT !.fe[n] = owner]

-----------------------------------------------------------------------------
(* The routines, as sequences of statements that each touch a unit once    *)

\* vtd_init_fault_nmi, the part of it for one unit.
Faults ==
  << <<"event", 0, "spy", TRUE>>, <<"event", 1, "spy">>, <<"event", 2, "spy">>,
     <<"event", 3, "spy">>, <<"event", 0, "spy", FALSE>> >>

\* Slip: switch translation on before the caches are flushed.
CommitEarly ==
  << <<"clear", "qie">>, <<"clear", "ire">>, <<"root">>, <<"table", "spy">>,
     <<"queue", "spy">>, <<"set", "qie">>, <<"set", "te">>, <<"inv", "context">>,
     <<"inv", "iotlb">>, <<"inv", "int">>, <<"set", "ire">> >>

\* vtd_init_unit.
Commit ==
  << <<"clear", "qie">>, <<"clear", "ire">>, <<"root">>, <<"table", "spy">>,
     <<"queue", "spy">>, <<"set", "qie">>, <<"inv", "context">>,
     <<"inv", "iotlb">>, <<"inv", "int">>, <<"set", "te">>, <<"set", "ire">> >>

\* Slip: unmask the fault event before the message is restored.
RestoreUpwards ==
  << <<"table", "linux">>, <<"inv", "int">>, <<"clear", "qie">>,
     <<"queue", "linux">>, <<"set", "qie">>, <<"sync">>, <<"set", "ire">>,
     <<"event", 0, "linux", TRUE>>, <<"restore", 0>>, <<"event", 1, "linux">>,
     <<"event", 2, "linux">>, <<"event", 3, "linux">> >>

\* Slip: leave the head of the queue where the unit has it.
RestoreUnsynced ==
  << <<"table", "linux">>, <<"inv", "int">>, <<"clear", "qie">>,
     <<"queue", "linux">>, <<"set", "qie">>, <<"set", "ire">>,
     <<"event", 0, "linux", TRUE>>, <<"event", 3, "linux">>,
     <<"event", 2, "linux">>, <<"event", 1, "linux">>, <<"restore", 0>> >>

\* vtd_restore_ir.
Restore ==
  << <<"table", "linux">>, <<"inv", "int">>, <<"clear", "qie">>,
     <<"queue", "linux">>, <<"set", "qie">>, <<"sync">>, <<"set", "ire">>,
     <<"event", 0, "linux", TRUE>>, <<"event", 3, "linux">>,
     <<"event", 2, "linux">>, <<"event", 1, "linux">>, <<"restore", 0>> >>

\* iommu_prepare_shutdown.
Shutdown ==
  << <<"clear", "te">>, <<"clear", "ire">> >>
    \o (IF ir THEN Restore ELSE << <<"clear", "qie">> >>)

Program(op) ==
  CASE op = "faults" -> Faults [] op = "commit" -> Commit
    [] op = "shutdown" -> Shutdown

Routines == {"faults", "commit", "shutdown"}

Goto(op) == pc' = [op |-> op, unit |-> 0, at |-> 1, polling |-> FALSE]

\* What follows the last statement for the last unit.
After(op) ==
  CASE op = "faults" -> "commit" [] op = "commit" -> "run"
    [] op = "shutdown" -> "linux"

Continue ==
  IF pc.at < Len(Program(pc.op))
  THEN pc' = [pc EXCEPT !.at = @ + 1, !.polling = FALSE]
  ELSE IF pc.unit + 1 < Units
  THEN pc' = [pc EXCEPT !.unit = @ + 1, !.at = 1, !.polling = FALSE]
  ELSE Goto(After(pc.op))

Poll == pc' = [pc EXCEPT !.polling = TRUE]

Finished == pc.unit + 1 = Units /\ pc.at = Len(Program(pc.op))

\* A statement that writes registers.
Write(s) ==
  LET u == pc.unit
      owner(tag) == IF s[2] = "spy" THEN "spy" ELSE tag
  IN
  /\ s[1] \in {"clear", "set", "root", "table", "queue", "event", "restore"}
  /\ reg' = [reg EXCEPT ![u] =
       CASE s[1] = "clear" -> Command(@, s[2], FALSE)
         [] s[1] = "set" -> Command(@, s[2], TRUE)
         [] s[1] = "root" -> SetRoot(@, "spy")
         [] s[1] = "table" -> SetTable(@, owner(emu[u].irta))
         [] s[1] = "queue" -> SetQueue(@, owner(emu[u].iqa))
         [] s[1] = "event" -> SetEvent(@, s[2], s[3], Len(s) = 4 /\ s[4])
         [] s[1] = "restore" -> SetEvent(@, 0, "linux", emu[u].im)]
  /\ Continue
  /\ UNCHANGED <<ring, lost>>

\* vtd_submit_iq_request with a request: two descriptors.
Submit(s) ==
  /\ s[1] = "inv"
  /\ ~ pc.polling
  /\ reg' = [reg EXCEPT ![pc.unit] = Advance(@, 2)]
  /\ Poll
  /\ UNCHANGED <<ring, lost>>

\* The head is where Linux left it.
InSync(u) == reg[u].head = emu[u].iqh

\* One turn of the loop of vtd_restore_ir: a lone wait descriptor, written
\* into Linux's own queue, until the head is where Linux left it.
Dummy(u) ==
  IF InSync(u)
  THEN Continue /\ UNCHANGED <<ring, reg, lost>>
  ELSE /\ ring' = [ring EXCEPT ![u][reg[u].tail] = 0]
       /\ reg' = [reg EXCEPT ![u] = Advance(@, 1)]
       /\ Poll
       /\ UNCHANGED lost

\* Linux's queue cannot be mapped, before the first dummy request: with a
\* warning vtd_restore_ir goes on, and head and tail stay 0.
Unmapped(u) ==
  /\ reg[u].tail = 0
  /\ lost' = IF InSync(u) THEN lost ELSE lost \cup {u}
  /\ Continue
  /\ UNCHANGED <<ring, reg>>

Sync(s) ==
  /\ s[1] = "sync"
  /\ ~ pc.polling
  /\ Dummy(pc.unit) \/ Unmapped(pc.unit)

\* The unit has reached the wait descriptor.
Completed(s) ==
  /\ pc.polling
  /\ reg[pc.unit].head = reg[pc.unit].tail
  /\ IF s[1] = "inv" THEN Continue ELSE pc' = [pc EXCEPT !.polling = FALSE]
  /\ UNCHANGED <<ring, reg, lost>>

Routine ==
  /\ pc.op \in Routines
  /\ LET s == Program(pc.op)[pc.at] IN
     Write(s) \/ Submit(s) \/ Sync(s) \/ Completed(s)
  /\ ready' = (ready \/ (pc.op = "commit" /\ Finished))
  /\ UNCHANGED <<linux, sent, log, mask, emu, ir, trap>>

-----------------------------------------------------------------------------
(* vtd_init                                                                *)

\* Linux starts the hypervisor, whose image is fresh.
Enable ==
  /\ pc.op = "linux"
  /\ emu' = [u \in UnitIds |-> NoEmulation]
  /\ ir' = FALSE
  /\ ready' = FALSE
  /\ Goto("init")
  /\ UNCHANGED <<linuxVars, reg, lost, trap>>

InitNext ==
  IF pc.unit + 1 < Units THEN pc' = [pc EXCEPT !.unit = @ + 1] ELSE Goto("faults")

\* Slip: take what is in flight for done.
InitEmulationEarly(u) ==
  /\ emu' = [emu EXCEPT ![u] =
       [iqh |-> reg[u].head, iqa |-> reg[u].iqa, irta |-> reg[u].irta,
        im |-> reg[u].im]]
  /\ ir' = TRUE

\* vtd_init_ir_emulation waits until the unit's queue is empty.
InitEmulation(u) ==
  /\ reg[u].head = reg[u].tail
  /\ emu' = [emu EXCEPT ![u] =
       [iqh |-> reg[u].tail, iqa |-> reg[u].iqa, irta |-> reg[u].irta,
        im |-> reg[u].im]]
  /\ ir' = TRUE

\* The part of vtd_init that looks at a unit's state.
InitUnit ==
  LET r == reg[pc.unit] IN
  /\ pc.op = "init"
  /\ ~ r.te /\ r.ire = r.qie
  /\ IF r.qie THEN InitEmulation(pc.unit) ELSE ~ ir /\ UNCHANGED <<emu, ir>>
  /\ InitNext
  /\ UNCHANGED <<linuxVars, reg, ready, lost, trap>>

\* Any failure of vtd_init, or of the hypervisor's initialization around it,
\* sends all CPUs back by way of iommu_prepare_shutdown.
InitFails ==
  /\ pc.op = "init"
  /\ Goto(IF ready THEN "shutdown" ELSE "linux")
  /\ UNCHANGED <<linuxVars, reg, emu, flagVars, lost, trap>>

\* The hypervisor is switched off.
Disable ==
  /\ pc.op = "run"
  /\ \A u \in UnitIds : trap[u] = "none"
  /\ Goto(IF ready THEN "shutdown" ELSE "linux")
  /\ UNCHANGED <<linuxVars, reg, emu, flagVars, lost, trap>>

-----------------------------------------------------------------------------
(* Linux and its unit accesses                                             *)

\* Linux writes one or two descriptors and the tail register, of the unit or
\* of its emulation.  It leaves alone what it waits for; what it takes for
\* done on a unit that has lost its head is anything.
LinuxSubmit(u, n) ==
  /\ pc.op \in {"linux", "run"} /\ linux[u] = "on"
  /\ trap[u] = "none"
  /\ sent[u] + n <= MaxRequests
  /\ u \in lost \/ sent[u] + n - Len(log[u]) < QSize
  /\ ring' = [ring EXCEPT ![u] =
       [i \in Index |-> IF (i - sent[u]) % QSize < n
                        THEN sent[u] + 1 + ((i - sent[u]) % QSize) ELSE @[i]]]
  /\ sent' = [sent EXCEPT ![u] = @ + n]
  /\ IF pc.op = "run"
     THEN trap' = [trap EXCEPT ![u] = "busy"] /\ UNCHANGED reg
     ELSE /\ reg' = [reg EXCEPT ![u].tail = (sent[u] + n) % QSize]
          /\ UNCHANGED trap
  /\ UNCHANGED <<linux, log, mask, emu, flagVars, lost, pc>>

\* Linux masks or unmasks its fault event; under the hypervisor it writes a
\* shadow register.
LinuxMask(u) ==
  /\ pc.op \in {"linux", "run"} /\ linux[u] = "on"
  /\ trap[u] = "none"
  /\ mask' = [mask EXCEPT ![u] = ~ @]
  /\ IF pc.op = "run"
     THEN emu' = [emu EXCEPT ![u].im = ~ mask[u]] /\ UNCHANGED reg
     ELSE reg' = [reg EXCEPT ![u].im = ~ mask[u]] /\ UNCHANGED emu
  /\ UNCHANGED <<linux, ring, sent, log, flagVars, lost, trap, pc>>

\* Slip: one descriptor for each write of the register.
HandleTailOnce(u) ==
  /\ trap[u] = "busy"
  /\ trap' = [trap EXCEPT ![u] = "none"]
  /\ log' = [log EXCEPT ![u] = Append(@, ring[u][emu[u].iqh])]
  /\ emu' = [emu EXCEPT ![u].iqh = (@ + 1) % QSize]
  /\ UNCHANGED <<linux, ring, sent, mask, reg, flagVars, lost, pc>>

\* vtd_unit_access_handler for the tail register: one turn of its loop.
HandleTail(u) ==
  /\ trap[u] = "busy"
  /\ IF emu[u].iqh = LinuxTail(u)
     THEN trap' = [trap EXCEPT ![u] = "none"] /\ UNCHANGED <<log, emu>>
     ELSE /\ log' = [log EXCEPT ![u] = Append(@, ring[u][emu[u].iqh])]
          /\ emu' = [emu EXCEPT ![u].iqh = (@ + 1) % QSize]
          /\ UNCHANGED trap
  /\ UNCHANGED <<linux, ring, sent, mask, reg, flagVars, lost, pc>>

\* An entry that cannot be read or is not supported: the CPU is parked.
HandlePanic(u) ==
  /\ trap[u] = "busy"
  /\ emu[u].iqh # LinuxTail(u)
  /\ trap' = [trap EXCEPT ![u] = "panic"]
  /\ UNCHANGED <<linuxVars, reg, emu, flagVars, lost, pc>>

\* The unit fetches and carries out a descriptor: one of Linux, a lone wait
\* descriptor, or the request or wait descriptor of a submission.
Fetch(u) ==
  LET r == reg[u]
      item == ring[u][r.head]
      request == r.iqa = "spy" /\ (r.tail - r.head) % QSize = 2
  IN
  /\ r.qie /\ r.head # r.tail
  /\ reg' = [reg EXCEPT ![u].head = (@ + 1) % QSize,
                        ![u].fresh = IF request
                                     THEN @ \cup {Program(pc.op)[pc.at][2]}
                                     ELSE @]
  /\ log' = IF r.iqa = "linux" /\ item # 0
            THEN [log EXCEPT ![u] = Append(@, item)] ELSE log
  /\ UNCHANGED <<linux, ring, sent, mask, emu, flagVars, lost, trap, pc>>

Next ==
  \/ Enable \/ InitUnit \/ InitFails \/ Routine \/ Disable
  \/ \E u \in UnitIds :
       \/ \E n \in {1, 2} : LinuxSubmit(u, n)
       \/ LinuxMask(u) \/ HandleTail(u) \/ HandlePanic(u) \/ Fetch(u)

Spec == Init /\ [][Next]_vars

\* The code of the hypervisor runs on and the units work on their queues.
FairSpec ==
  /\ Spec
  /\ WF_vars(Routine)
  /\ WF_vars(InitUnit \/ InitFails)
  /\ \A u \in UnitIds : WF_vars(HandleTail(u)) /\ WF_vars(Fetch(u))

-----------------------------------------------------------------------------
TypeOK ==
  /\ linux \in Configs
  /\ reg \in [UnitIds ->
       [te : BOOLEAN, ire : BOOLEAN, qie : BOOLEAN, root : Owners,
        irta : Owners, irt : Owners, iqa : Owners, head : Index, tail : Index,
        fresh : SUBSET Caches, im : BOOLEAN, fe : [1 .. 3 -> Owners]]]
  /\ ring \in [UnitIds -> [Index -> 0 .. MaxRequests]]
  /\ sent \in [UnitIds -> 0 .. MaxRequests]
  /\ \A u \in UnitIds : log[u] \in Seq(0 .. MaxRequests)
  /\ mask \in [UnitIds -> BOOLEAN]
  /\ lost \subseteq UnitIds
  /\ emu \in [UnitIds -> [iqh : Index, iqa : Owners, irta : Owners, im : BOOLEAN]]
  /\ ir \in BOOLEAN
  /\ ready \in BOOLEAN
  /\ trap \in [UnitIds -> {"none", "busy", "panic"}]
  /\ pc.op \in Routines \cup {"linux", "init", "run"}
  /\ pc.unit \in UnitIds

\* Each of Linux's descriptors is carried out once and in order, by the unit,
\* by the emulation, and by the unit again, however often the hypervisor is
\* switched on and off and wherever in the ring that happens, until a shutdown
\* has had to warn that it could not restore the unit's head.
ServedOnce ==
  \A u \in UnitIds \ lost : \A i \in 1 .. Len(log[u]) : log[u][i] = i

\* Nothing is translated by what a unit cached of tables no longer in use,
\* and while Linux runs under the hypervisor every unit translates DMA and
\* interrupts by the hypervisor's tables.
TablesInForce ==
  \A u \in UnitIds :
    LET r == reg[u] IN
    /\ r.te /\ linux[u] # "other" => r.root = "spy" /\ {"context", "iotlb"} \subseteq r.fresh
    /\ r.ire => "int" \in r.fresh
    /\ pc.op = "run" => r.te /\ r.ire /\ r.qie /\ r.irt = "spy" /\ r.iqa = "spy"

\* A unit that may send a fault event has its message from one owner.
FaultEventsWhole ==
  \A u \in UnitIds :
    ~ reg[u].im => \A n, k \in 1 .. 3 : reg[u].fe[n] = reg[u].fe[k]

\* When the hypervisor is off, or has failed to start, each unit is as Linux
\* believes it to be: enabled or not, with Linux's table and queue, and with
\* the message and the mask of Linux's fault event.  Unless the queue could not
\* be mapped it is about to fetch the first descriptor that has not been
\* carried out, and stops where Linux writes next.
HandedBack ==
  pc.op = "linux" =>
    \A u \in UnitIds :
      LET r == reg[u] IN
      /\ r.te = (linux[u] = "other")
      /\ linux[u] # "other" => (r.ire = (linux[u] = "on") /\ r.qie = r.ire)
      /\ linux[u] = "on" =>
           /\ r.irt = "linux" /\ r.iqa = "linux"
           /\ r.im = mask[u] /\ \A n \in 1 .. 3 : r.fe[n] = "linux"
           /\ u \notin lost => /\ r.head = Len(log[u]) % QSize
                               /\ r.tail = LinuxTail(u)

\* "IR+QI must be either on or off in all units" (vtd.c:1025): vtd_init
\* accepts no other configuration.
UniformIR ==
  pc.op \in {"faults", "commit", "run"} =>
    \A u, v \in UnitIds : linux[u] = linux[v]

\* Every descriptor Linux has submitted is carried out, unless the emulation
\* panics over it or a shutdown warns that it could not restore the unit's
\* head; a shutdown ends, its loop of dummy requests included.
AllServed ==
  \A u \in UnitIds :
    Len(log[u]) < sent[u]
      ~> Len(log[u]) = sent[u] \/ trap[u] = "panic" \/ u \in lost

ShutdownEnds == pc.op = "shutdown" ~> pc.op = "linux"
=============================================================================
