# Spy in TLA+

A verification development for Spy, a partitioning hypervisor for x86 that
Linux loads beneath itself. TLC model-checks the modules on small instances and
TLAPS proves theorems about them for all instances. Paths are relative to
`src/hypervisor/arch/x86/` where no other directory is given.

    cd tla
    tlc -workers 2 -config MCInvQueue.cfg MCInvQueue    # one run
    tlapm NmiEvents_proofs.tla                          # one proof module

`PROJECT.json` lists the runs, what each definition translates (`map`), the
hazards of the code and the properties that watch over them, and a mutation for
every checked property that makes it fail.

## 1. The system

The repository holds the architecture-specific half of the hypervisor, a kernel
module, a command line tool and the headers that they share. The generic core
(target management, the page allocator, PCI, the paging walker, the APIC and
I/O APIC code) is not in it: what the modelled code expects of the core, of the
hardware and of Linux is modelled from the calls in `src/` and marked external.

| Component | State | Operations | Interacts with |
| --- | --- | --- | --- |
| Ticket lock, `include/asm/spinlock.h` | one 32-bit word: `owner`, `next` | `spin_lock`, `spin_unlock` | every user of a lock |
| Invalidation queues, `vtd.c` | a ring per unit, tail and head, a completion flag per CPU | `vtd_submit_iq_request`, `vtd_flush_domain_caches`, `vtd_update_irte` | lock; the units fetch and write the flag |
| Interrupt remapping and device tables, `vtd.c` | `int_remap_table`, root and context tables, the page pool | target and device creation and removal, `iommu_map_interrupt` | queues; the units read and cache the tables; the guest programs interrupts |
| Fault reporting, `vtd.c` | `fault_reporting_cpu_id`, FECTL, FEDATA, FEADDR, FSTS | `vtd_init_fault_nmi`, `iommu_check_pending_faults` | the units send NMIs; event delivery calls the check |
| Unit handover, `vtd.c` | the registers of the units, `root_target_units` | `vtd_init`, `iommu_config_commit`, `vtd_unit_access_handler`, `iommu_prepare_shutdown` | Linux's VT-d driver before, under and after the hypervisor |
| CPU handover, `setup.c`, `vmx.c` | registers, `per_cpu.linux_*`, the VMCS, the one GDT | `arch_cpu_init`, `vcpu_init`, activation, `vcpu_deactivate_vmm`, `arch_cpu_restore` | all CPUs at once; lock |
| Event delivery, `vmx.c` | `vmx_state`, the preemption timer's control, pending NMI | `vcpu_nmi_handler`, `vmx_check_events`, the exits | posters on other CPUs, devices' NMIs |
| Port whitelists, `vcpu.c` | an I/O bitmap per target | `vcpu_target_init`, `vcpu_target_exit` | the root target gives and gets ports |
| Exit dispatch, CPUID, MSR, MMIO, `vcpu.c`, `vmx.c` | guest registers, `pat`, `mtrr_def_type` | `vcpu_handle_exit` and what it calls | the guest, the processor, generic core |
| Guest control registers, reset, `vmx.c` | VMCS fields, `failed` | `vmx_set_guest_cr`, `update_efer`, `vcpu_vendor_reset`, `vcpu_reset`, `vcpu_park` | the guest, the processor, other CPUs' requests |
| Page table formats, EPT, `paging.c`, `vmx.c` | entries of 8 or 4 bytes | `set_terminal`, `get_phys`, ... | generic paging walker; a guest's tables in memory |
| Communication region, `src/include/` | message and reply words | `spy_send_msg_to_target`, `spy_send_reply_from_target` | hypervisor and target share memory |
| Kernel module, `src/module/` | a character device | registration and undo, ioctl dispatch | tool |
| Tool, hash, trigger, test | none that lasts | argument parsing, ioctls | kernel module |

### What is hard about it

* **Concurrency without locks.** CPUs, IOMMU units and NMIs work on the same
  words. An NMI hits any instruction; a unit reads a table entry between its
  two stores; `spin_unlock` is not atomic. Correctness lies in the order of a
  few stores.
* **Cached and stale state.** A unit caches table entries, a CPU keeps a
  completion flag and the register values of Linux from the time of its entry.
* **Partial failure.** Initialization may fail on any CPU after any prefix of
  its steps, device assignment when pages or entries run out; one restore path
  must undo every prefix.
* **Handover.** Linux's unit, halfway through its queue, is taken over,
  emulated and given back; the same with each register of each CPU.
* **Liveness.** The code polls: a unit for a wait descriptor with a lock held,
  a unit's head pointer until it has the value Linux expects.
* **Wrap-around.** Tickets are 16 bits wide, rings have 256 slots, and table
  regions must be adjacent.
* **A guest that does anything.** Part of each instruction is executed by the
  processor and part by a handler, which must agree on the mode the guest is in
  after any sequence of moves to control registers, resets and parking.

### What makes each component correct

* lock: one holder, first come first served, nobody starves;
* queues: a flush that has returned reached every unit, and every flush returns;
* remapping: an interrupt of a device reaches only the target that owns it,
  whatever the unit reads or has cached, and no entry or page is lost;
* fault reporting: a fault is reported even while the reporting CPU changes;
* unit handover: each descriptor of Linux is served once and in order, DMA and
  interrupts are translated by tables in force, the units come back as they were;
* CPU handover: Linux finds its registers as a guest and afterwards, and nothing
  on the way takes an exception;
* events: the NMI handler is safe everywhere, and no event is lost;
* ports: two targets share only what the configuration gives to both, and the
  root target gets back what nobody else uses;
* guest: the software of a target sees a processor that executes each
  instruction once, and runs with the tables of its own target only;
* formats: what is put into a table entry is found again, and the walk over a
  guest's tables ends where the processor's does.

## 2. The modules

    FifoLock          what a lock promises
      TicketLock      implements it (refinement, InvQueue_proofs)
        InvQueue      extends TicketLock: the queues take the real lock
                      (InvQueue_proofs)
    IntRemap          takes from InvQueue that a submission returns when it is done
                      (IntRemap_proofs)
    FaultReporting    takes from NmiEvents that an NMI leads to a check
                      (FaultReporting_proofs)
    NmiEvents         (NmiEvents_proofs)
    UnitHandover      takes from InvQueue the submission as one step and its polling
                      (UnitHandover_proofs)
    CpuHandover       takes from TicketLock that a lock is held by one CPU
                      (CpuHandover_proofs)
    PioAccess         (PioAccess_proofs)
    GuestProcessor    what the software of a target may expect of its CPU
      GuestCpu        implements it (refinement, GuestCpu_proofs)
        PageWalk      formats and walks, extended by GuestCpu (GuestCpu_proofs)

One definition stands for one function or for one statement that others can
see; the statements between two accesses to shared state are one action. Long
straight sequences (`UnitHandover`, `CpuHandover`) are written as sequences of
statements that one action per kind of statement carries out. A definition
marked `Slip` is a plausible bug that the mutation of a property uses, and is
not part of any specification.

**TicketLock.** `TakeTicket` is the xaddl, `Spin` a successful comparison, and
`AddwLoad`/`AddwStore` the two halves of the unlocked addw. The lock word is
`owner` and `next`; `Modulus` stands for 2^16. `FifoLock` is the abstract lock: a
CPU that requests is behind those present, and enters when none is ahead.
`ImplementsFifo` is the refinement, with the order of the tickets as mapping.

**InvQueue.** Each CPU runs `vtd_submit_iq_request` statement by statement
(`ClearCompleted` ... `Unlock`) for the submissions of a flush
(`vtd_flush_domain_caches`: context, then IOTLB, of every unit) or of an entry
update. The units fetch in order, execute in their own time, set the flag of a
wait descriptor when all before it is done, and refill the IOTLB from a context
entry still cached (`Refill`). `stale` records what a unit may still cache of a
mapping that a CPU has changed.

**IntRemap.** The two words of each entry are separate and are written by
`WriteHi`, `WriteLo` in the order of `vtd_update_irte`; `Load` lets a unit cache
an entry at any time. The manager (`mgr`) is the CPU that creates and removes
targets and devices, with loops and error paths unrolled into steps; another
CPU maps interrupts meanwhile. The constant `Exclusive` says that the generic
core suspends a target's CPUs while it reserves entries. It is TRUE in the run.
With FALSE the code is not safe: between `assigned = 1` and the store of the sid
a stale sid can match (hazard at `vtd.c:598`).

**FaultReporting.** `vtd_init_fault_nmi` as `Select`, and for each unit `Mask`,
`Drain`, `Program`, `Unmask`, then `Kick`; `CheckUnit` is a turn of the loop of
`iommu_check_pending_faults`. A unit latches an event while it is masked and its
message may arrive late. `Burst` bounds the faults pending in a unit.

**NmiEvents.** `pc` is the statement of `vcpu_init`, `vcpu_handle_exit` or
`vcpu_exit` that a CPU has reached. `HostNmi` is enabled between any two of them.

**UnitHandover.** `reg` holds a unit's registers as far as the handover goes:
control bits, whose table and queue it uses, head and tail, which caches are up
to date, and whose values the fault event registers hold. The routines are
sequences; `Sync` is the part of `vtd_restore_ir` that brings the head back in
place: `Dummy` is a turn of its loop of dummy descriptors, `Unmapped` the other
branch, where Linux's queue cannot be mapped (`vtd.c:891-897`). The code then
warns, leaves head and tail at 0 and switches interrupt remapping on all the
same; unless 0 happens to be right, the unit is `lost`: at Linux's next tail
write it fetches from slot 0, and descriptors may be carried out again or left.
`ServedOnce`, `AllServed` and the head and tail in `HandedBack` are therefore not
claimed of a lost unit, in this or a later run of the hypervisor; its enable bits,
table, queue address and fault event are, and so are `TablesInForce`,
`FaultEventsWhole` and that the shutdown ends. Linux learns what is done only from
the descriptors, so on a lost unit it may take anything for done: `LinuxSubmit` then
drops the condition that the ring has room. `mask` is what Linux last wrote to
FECTL.IM, whether to the unit or to its shadow. Linux's descriptors are numbered,
and `log` is the order in which they were carried out. Assumed: one CPU initializes
and shuts down while the others wait, and Linux does not hand over in the middle
of a submission. Units with which Linux does not remap interrupts are shut down
without `vtd_restore_ir` and keep the hypervisor's fault event registers, as in the
code; `HandedBack` makes no claim of those.

**CpuHandover.** A register holds the hypervisor's value, Linux's on entry
("old"), or one that Linux has set as a guest ("new"). The processor's rules are
the guards of `Unless`: LTR of a busy TSS, a selector from a wrong GDT, PCIDE or
VMXE changed at a wrong time, or Linux's memory read under the hypervisor's page
tables stops the CPU. Not in the model, since the code does not save or restore
them: LDTR, the debug registers, PERF_GLOBAL_CTRL, KERNEL_GS_BASE, and
MTRR_DEF_TYPE, of which a guest's write changes only `mtrr_def_type` and the PAT
(`vcpu.c:335-338`) and never the MSR, so that Linux does not find afterwards what
it wrote there. `HandedBack` says nothing of these.

**PioAccess.** Bitmaps are sets of trapped ports. `TargetInit` and `TargetExit`
are atomic: the core holds the other CPUs off. Bitmaps that take a whole page
each are counted against the pool. An entry of a whitelist names a `Region`: a base
and a length that stay within the range of ports. Whitelists may overlap:
`vcpu_target_exit` then hands a port back that another target still has (hazard at
`vcpu.c:147`). So neither property says that ports are exclusive. `Users(p)` are the
targets beside the root target that name p; a port with one user is the root
target's exactly while that user does not exist, and one with several may be the
root target's and a target's at once, but only after one of its users has gone.
`RootPorts` excepts the command register (`pio_cmdreg`) and the PM timer, which a
new target opens for itself and may close for the root target.

**PageWalk.** A machine word is the set of its bits that are one: `|`, `&` and
shifts become union, intersection and moving the members, so that entries of 64
bits are neither abstracted nor enumerated. The callbacks of `paging.c` and the
EPT entries of `vmx.c` are operators on words; the arrays of levels are sequences
of records, and `WalkResult` is the generic walk over them. `LongLookup`,
`PaeLookup` and `Lookup32` are the processor's own walks, level by level after its
manual and without reference to `paging.c`. They differ where a page directory
entry has PS and the guest has not set CR4.PSE: `i386_get_phys_l2` (`paging.c:160`)
takes a large page and the processor a table. `EmulatesWhatGuestExecutes` leaves
those addresses out (`StrayPs`).

**GuestCpu.** One CPU that belongs to one target after the other. The guest is
any program: `Fetch` picks any instruction, `GuestExecute` is what the processor
executes in non-root operation, `VmExit` the exits, and each handler of
`vcpu_handle_exit` one action that ends with `Resume` or `PanicPark`. `VmEntry`
checks the guest state as the processor does. `Reset` and `Park` are the outcomes
of `x86_check_events`, which the generic core chooses. `vmcs` is a record with one
component per field of the VMCS; control registers are sets of named bits, `Cr0Bits`
and `Cr4Bits`, where "R" stands for a bit that the processor lacks. `rip` is "at" an
instruction or "past" it. Assumed: MTRRs are on when Linux is taken over, as on
every machine Linux runs on; 36 address bits are enough for PSE-36; VMX operation
requires of CR4 only VMXE; LMSW, CLTS and moves to CR8 do not exit; and
`CRASH_TARGET_ON_PANIC` is not configured. The contents of XCR0, of x2APIC
registers and of devices, and the CPUID leaves other than 1, are outcomes only.

**GuestProcessor** has no VMCS, no exits and no shadows. It differs from a real
processor in what `vmx_handle_cr` leaves out, and names each difference: a move to a
control register that exits is not checked (`~ Legal0`, `~ Legal4`); one that
switches off paging in long mode leaves LMA set (`LeavesLongMode`), which no
processor can be in, so that the CPU stops at the VM entry; and one that starts PAE
paging does not load the PDPTEs (`EntersPaePaging`). Before the first reset or
emulated move the guest/host mask of CR4 is empty (`vmx.c:570`): a move without
VMXE raises #GP then, and takes effect later; both are allowed.

## 3. The runs

| Run | Bounds | Shows |
| --- | --- | --- |
| `ticket_lock` | 4 CPUs, 4 tickets | exclusion, the refinement of FifoLock, no starvation; as full as the word allows, and both halves wrap |
| `inv_queue` | 2 CPUs, 2 units, rings of 3 | each flush complete on return; queue empty when written; flushes return. A submission is two slots, so a ring of 3 wraps in the middle of one and every index occurs |
| `int_remap` | 4 entries, 3 devices (one with 2 vectors), 2 buses, 1 chip, 2 targets, 3 pages, 2 units, 1 CPU | isolation for every read and cached entry; whole regions; no leak; entries and pages run out |
| `nmi_events` | 2 CPUs | handler safe, no event lost, all handled |
| `fault_reporting` | 2 CPUs, 2 units, 2 records, 1 fault pending per unit | none forgotten, all reported |
| `fault_burst` | same, 2 faults pending | *violated*, see below |
| `pio_access` | 3 targets, 12 ports, all configurations over 4 regions, some of which overlap | which ports can be shared, by whom and after what; what the root target gets back |
| `pio_cmdreg` | same | *violated*, see below |
| `unit_handover` | 2 units, rings of 3, 3 descriptors per unit, 5 configurations; the queue may be unmapped at any shutdown | descriptors served once, tables in force, registers handed back; shutdown ends |
| `mixed_units` | 2 units, one with IR and one without | *violated*, see below |
| `cpu_handover` | 2 CPUs, 3 sets of changed registers | registers taken over and handed back, no exception, CPUs return |
| `guest_cpu` | 1 CPU, 2 targets, 37 instructions, one set of page tables that all three formats can walk, 7 addresses | refinement of GuestProcessor; own tables; the instruction that is emulated is the one that was executed |

Why the bounds are enough: CPUs and units are symmetric and interact in pairs
(two for one lock, one slot of the GDT, one fault event); two of each give every
pair, and the lock has four CPUs because its order needs more than two. Sizes of
rings and tables are the smallest at which they wrap, fragment and run out.
Registers are copied independently of each other, so a set that changes all of
them and sets that change the ones that others depend on (GDTR for the selectors,
CR3 for memory) represent the rest. `MaxRequests`, `Burst`, `Changes` and `Jobs`
are bounds of the environment, not of the code. The exits of `GuestCpu` concern
one CPU only, and a guest runs for any number of steps; the moves to CR0 and CR4
are legal and illegal ones, with and without exit, for every change of the
paging mode, and the proofs lift all these bounds.

Deadlock is checked in every run but two: in `UnitHandover` a descriptor that
cannot be emulated parks the CPU, and in `CpuHandover` a CPU back in Linux has
come to its end. Their liveness properties exclude that the code stops elsewhere.

**Fairness.** Weak fairness of the code's own steps: the hypervisor runs with
interrupts off and no scheduler stops a CPU. Weak fairness of the units: the
hardware works off its queue and delivers its messages. `TicketLock` assumes of
a lock's holder that it leaves; that a waiter gets the lock is then proved by
checking, and `CpuHandover` uses it as strong fairness of taking a lock. Nothing
is assumed of Linux: it need not exit, submit, or disable the hypervisor.
`FaultReported` holds provided that the configuration stops changing.

### Disagreements between the code and its comments

* `fault_burst`: the comment at `vtd.c:308` promises that a fault in the window
  of reprogramming is reported by an extra NMI. One check clears one record of a
  unit; a second record in the same unit keeps the PPF bit set, so that the unit
  announces nothing any more, and stays.
* `pio_cmdreg`: "but always intercept access to i8042 command register"
  (`vcpu.c:109`). When a target is destroyed whose whitelist and the root
  target's both cover the register, `vcpu_target_exit` opens it for the root
  target (`vcpu.c:147`).
* `mixed_units`: "IR+QI must be either on or off in all units" (`vtd.c:1025`).
  A unit that has them off is refused after one that has them on, but not the
  other way round.

## 4. What is proved

`InvQueue_proofs`, of the lock, for every finite set of CPUs and every number of tickets
that is at least as large (`LockAssumption`; for the code 2^16):

* `LockTyping`, and by it `TicketsStayInWindow`, `LockIsExclusive`: mutual
  exclusion alone is not inductive, since nothing in it keeps two CPUs from
  holding the same ticket after the wrap. `LockInv` adds `TicketsInWindow`: the
  queued CPUs hold different tickets, exactly those from `owner` to `next`, and
  the holder's is `owner`. The lemmas `Window...` show it for each action, by
  the arithmetic of `Ahead` (distance modulo `Modulus`) and by the cardinality
  of the set of queued CPUs.
* `LockImplementsFifo`: the initial states are mapped to initial states of
  `FifoLock`, `TakeTicket`, `Spin`, `AddwStore` to its steps, and `AddwLoad` to a
  stutter.

And of the queues, for every set of CPUs, number of units and length of the rings
(`QueueAssumption`, `LockAssumption`), with the real lock: `QueueTypeCorrect`,
`FlushIsComplete`, `CompletionFollowsExecution`, `QueuesAreDrained`. Every step is a
step of the lock or leaves it alone, so that `LockInv` holds, and by it one CPU only
is between `spin_lock` and `spin_unlock` (`Places`, `OneInside`). `QueueInv` adds what
the code relies on without saying so: a unit that has anything to do has just the two
descriptors of the CPU that polls for it, either both still in the ring (`Posted`) or
the wait descriptor left (`Taken`); otherwise it is `Quiet`. `Outstanding` is why a flush is
complete: whatever is still stale is further down the caller's list, and behind each
context entry on the list comes the IOTLB flush that drops what the entry refilled.

`NmiEvents_proofs`, for every set of CPUs: `NmiTyping`, `HandlerIsSafe` and
`NoEventIsLost`. The inductive invariant `NmiInv` adds to the type invariant what
each statement knows of `vmx_state`, VMX operation and the VMCS (`Phase`), and
where an event is on the way from its poster to `vmx_check_events` (`OnItsWay`):
at the poster, in the pending NMI, in the timer, or in an exit that is being
handled. No assumption is made.

`GuestCpu_proofs`, of the formats, for every entry, address and memory of 64-bit words. The set
of words is too large for TLC (2^64), so these are the only checks of the
formats beyond the tables of `guest_cpu`:

* `MappedIsFound`, `FlagsAreKept`, `LinkedIsFound`: what `set_terminal` and
  `set_next_pt` write, `get_phys`, `get_flags` and `get_next_pt` read, at each level;
  `EmptyIsUnused`: `page_table_empty` counts exactly the entries in use;
  `RegionIsMapped`: the EPT entry for a region has its access rights and no more.
* `LongWalk`, `PaeWalk`, `Walk32`: the walk with the arrays of `paging.c` and the
  processor's walk of the same tables end at the same address. One lemma per level
  relates the entry that is read, whether it ends the walk, and the next table.

And of the guest, for every set of targets and instructions, every processor
(`GuestAssumption`, `FixedAssumption`) and every memory (`MemoryAssumption`):

* `GuestReadsCr0`, `GuestReadsCr4`: `vmx_set_guest_cr` keeps the processor's
  restrictions, and the guest reads what it wrote.
* `GuestTyping`, `TablesAreOwn`, `HostBitsAreHeld`, `RightInstruction`. The invariant
  `GuestInv` is needed because each of them depends on what the processor did
  before: that the walk is chosen by the entry control IA-32e while the processor
  goes by EFER.LMA is right only since a VM exit has saved the one from the other
  (`SavedState`), and a guest that reached an exit had passed the checks of a VM
  entry (`GuestMode`, in `Progress`). `OwnTables` needs `Rest`: a CPU that failed runs
  no instruction, so no handler can resume it. `HostBits` relates masks and
  shadows to the real registers.
* `GuestImplementsProcessor`, from `GuestInv`: `GuestCpu` refines `GuestProcessor`.
  `GuestBits` shows that the bits which select the mode are the guest's, so that
  both sides agree on it (`SameMode`, `ModeIsConsistent`). Then one lemma per
  action: exits, entries without an exception and `HandleException` are stutters
  (`NoStep`); a handler that resumes retires the instruction (`ResumeRetires`);
  `PanicPark` is `Stop`, and a VM entry fails only in a state that is not
  `Consistent`.

`PioAccess_proofs`, for every set of targets, all whitelists and every size of the
pool (`PioAssumption`): `PioTypeCorrect`, `RootPortsHold`, `PortsExclusiveHolds`.
`vcpu_target_exit` computes from every two entries the interval to give back;
`OverlapIsIntersection` and `RefundIsIntersection` show that these are the ports that
both whitelists name and no other. The invariant is
`RootPorts` with the shape of each target's bitmap (`Shape`): `PortsExclusive` alone
says nothing of what the root target is given back. Why a shared port has a user
that does not exist: the last target to come or go of those that name the port went,
since its coming would have taken the port from the root target. Neither theorem
assumes that whitelists are disjoint.

`FaultReporting_proofs`, for every number of units and CPUs: `FaultTypeCorrect`, and
`FaultNotForgottenHolds` where units hold at most one fault at a time (`Burst` is 1 in
the statement, since `fault_burst` refutes it for 2). `Progress` says what each unit
has been through at each statement of `vtd_init_fault_nmi`; `OneFault`, that no
unit has two faults pending, makes the record that a check clears the only one.

`IntRemap_proofs`, for every set of CPUs, targets, devices, units and vectors and
every size of the table (`RemapAssumption`), where a target's CPUs are suspended while
entries are reserved (`Exclusive`, assumed by each theorem): `RemapTypeCorrect`,
`IsolationHolds`, `RegionsWholeHolds`, `PagesAccountedHolds`. Isolation speaks of what
a unit does with an entry, and is not inductive: a unit may use an entry long after
the table has changed. `CacheIsolated` says that a unit caches an entry that the table
lacks only while the manager has still to submit the invalidation, and `TableIsolated`
that a present entry belongs to the region of its sid, whose device has an owner. Both need
what the manager's own statement implies (`Settled`, `Whole`: which region is half
reserved or half freed) and what a mapping CPU is about to write (`Updates`).

`UnitHandover_proofs`, for every number of units, every length of the queues from three
and every configuration of the units (`HandoverAssumption`): `UnitTypeOK`,
`DescriptorsServedOnce`, `TablesAlwaysInForce`, `FaultEventsAlwaysWhole`,
`UnitsHandedBack`. None of these is inductive: what a shutdown gives back depends on
what `vtd_init` recorded and on every statement between. `IInv` says for each unit

* `Pending`: unless the unit is lost, what has been carried out is a prefix of what
  Linux has submitted, and the rest is in its slots of the ring (`InOrder`);
* `Unit`: the unit is Linux's (`LinuxSide`) or the hypervisor's (`SpySide`), according to
  the routine that runs and to whether its loop has been there; for the unit that the
  loop is at, `Committing` and `Stopping` say what holds before each statement, and
  `Recorded` that `root_target_units` has the position of Linux's next descriptor;
* `Event`: which part of a fault message has been replaced, that the event is
  masked meanwhile, and that it is Linux's (`Returned`) while Linux has the unit;
* `Trapped`: under the hypervisor, Linux waits while descriptors are not served.

Where the unit writes or reads next is a remainder modulo the length of the ring; the
lemmas `SlotAhead`, `SlotBehind`, `SameSlot` and `Distance` carry the arithmetic, and
`SameSlot` is why equal head and tail mean that nothing is left to do. The steps of the
routines share `GoOn`, which reduces a statement to what holds before the next one.
What is said of heads and tails has the exception of `lost` in each of these, and
`FetchLost` shows that such a unit disturbs nothing else.
`UnitsHandedBack` has the hypothesis `~ LateIR`: no unit without interrupt remapping
comes before one with it. That is the order in which `vtd_init` accepts units that
differ (`mixed_units`); `UniformUnlessLate` proves that there is no other. With `LateIR`
`vtd_restore_ir` switches on the queue and the remapping of a unit that Linux has off.

`CpuHandover_proofs`, for every set of CPUs and all changes that Linux makes to its
registers as a guest (`Changes` any set of sets of `GuestRegs`; `Nobody`, which stands for
a free lock, is not a CPU): `CpuTypeOK`, `NeverAnException`, `GuestHasItsRegisters`,
`RegistersHandedBack` and `CpusTakeTurns`. The statements of `arch_cpu_init` and
`arch_cpu_restore` are numbered, and the invariant compares a CPU's place with the
place where each register is saved (`SaveAt`), replaced (`SpyAt`) and loaded again
(`LoadAt`): before that place it holds Linux's value, behind it the hypervisor's, and
a saved value is Linux's. So one formula (`Initializing`, `Restoring`) covers a failure at
every statement. `NoException` depends on the other CPUs as well: `InTurn` says that
one CPU at a time is between taking the entry code's lock and giving it up, and
`TssCopied` that the holder of `tss_lock` finds its own TSS descriptor, not busy, in the
GDT that all CPUs share.

Only model-checked is all liveness: that flushes, events, faults, shutdowns and CPUs
come to their end (leads-to under fairness and ENABLED are beyond the proof system's
reach). Every invariant of a passing run is stated by a theorem.

## 5. Plan

In this order:

1. `RootInterrupts`: `vtd_emulate_inv_int`, `iommu_get_remapped_root_int` and
   `irte_map`, over `IntRemap`: whether an entry of Linux's table and the
   hypervisor's agree after an invalidation (hazard at `vtd.c:782`).
2. `CommRegion`: the message and reply words under reordered stores, time-outs
   and late replies; `KModule`: device registration and its undo.
3. A composition of `InvQueue` with `UnitHandover` (a shutdown while a CPU
   polls), and more than one fault record in `UnitHandover` (`vtd.c:497`).
4. Proofs of the invariants of these modules.

## 6. What is not modelled

The generic core (only its calls, and its walk over page tables), the formats of
device and MSR registers, statistics and console output; checks of configuration values before anything is
changed are a nondeterministic failure. The kernel module's ioctls only log, the
tool parses arguments and calls them one at a time. `PROJECT.json` has the
reason for each component.
