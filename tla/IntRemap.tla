------------------------------ MODULE IntRemap ------------------------------
(***************************************************************************)
(* The VT-d interrupt remapping table of hypervisor/arch/x86/vtd.c and the *)
(* root and context tables beside it.  One CPU at a time manages targets   *)
(* and devices (vtd_target_init, vtd_target_exit, iommu_add_pci_device,    *)
(* iommu_remove_pci_device) while other CPUs keep programming interrupts   *)
(* (iommu_map_interrupt) and the IOMMU units keep reading the table into   *)
(* their interrupt entry caches.  An entry is two 64-bit words that are    *)
(* written one after the other; a cached entry lasts until an INV_INT      *)
(* request for its index, whose submission (InvQueue) returns only when    *)
(* the unit has carried it out.                                            *)
(***************************************************************************)
EXTENDS Integers, FiniteSetsExt

CONSTANTS
  Limit,     \* vtd_interrupt_limit: number of entries
  Units,     \* dmar_units
  CPUs,      \* CPUs that program interrupts
  Devices,   \* PCI devices
  Chips,     \* I/O interrupt controllers, shared by the targets
  Vectors,   \* their number of vectors or pins
  Bus,       \* the bus of each PCI device
  Targets,   \* the partitions, Root among them
  Root,
  Pages,     \* size of the page pool
  Exclusive  \* whether no interrupt is programmed during a reservation

NoOne == "no one"
Manager == "manager"

ASSUME RemapAssumption ==
  /\ Limit \in Nat \ {0} /\ Units \in Nat \ {0} /\ Pages \in Nat
  /\ Vectors \in [Devices \cup Chips -> Nat]
  /\ Devices \cap Chips = {}
  /\ Bus \in [Devices -> Nat]
  /\ Root \in Targets
  /\ Exclusive \in BOOLEAN
  /\ NoOne \notin Targets \cup Devices \cup Chips
  /\ Manager \notin CPUs

VARIABLES
  lo,      \* raw[0] of each entry: present, assigned, and whom it interrupts
  hi,      \* raw[1]: source id, and whether the unit verifies it
  cache,   \* interrupt entry cache of each unit
  upd,     \* vtd_update_irte in progress, of each CPU and of the manager
  map,     \* the device a CPU is programming
  mgr,     \* the management operation in progress
  owner,   \* the target a device was added to
  active,  \* targets between vtd_target_init and vtd_target_exit
  context, \* devices with a present context entry
  rooted,  \* buses with a present root entry
  pages    \* free pages of mem_pool

tableVars == <<lo, hi>>
dmaVars == <<owner, active, context, rooted, pages>>
vars == <<tableVars, cache, upd, map, mgr, dmaVars>>

Sources == Devices \cup Chips
Entries == 0 .. Limit - 1
UnitIds == 0 .. Units - 1
Actors == CPUs \cup {Manager}

Lo == [p : BOOLEAN, assigned : BOOLEAN, irq : Targets \cup {NoOne}]
Hi == [sid : Sources \cup {NoOne}, verify : BOOLEAN]

BlankLo == [p |-> FALSE, assigned |-> FALSE, irq |-> NoOne]
BlankHi == [sid |-> NoOne, verify |-> FALSE]

NoUpdate == [step |-> "none", at |-> 0, lo |-> BlankLo, hi |-> BlankHi, unit |-> 0]
NoOp == [op |-> "idle", src |-> NoOne, target |-> NoOne, pos |-> 0, left |-> 0]

Init ==
  /\ lo = [i \in Entries |-> BlankLo]
  /\ hi = [i \in Entries |-> BlankHi]
  /\ cache = [u \in UnitIds |-> [i \in Entries |-> <<>>]]
  /\ upd = [a \in Actors |-> NoUpdate]
  /\ map = [c \in CPUs |-> NoOne]
  /\ mgr = NoOp
  /\ owner = [d \in Devices |-> NoOne]
  /\ active = {}
  /\ context = {}
  /\ rooted = {}
  /\ pages = Pages

-----------------------------------------------------------------------------
(* vtd_update_irte                                                         *)

\* The first write: the upper word if the new content is present.
StartUpdate(a, i, newLo, newHi) ==
  upd' = [upd EXCEPT ![a] = [step |-> IF newLo.p THEN "hi" ELSE "lo",
                             at |-> i, lo |-> newLo, hi |-> newHi, unit |-> 0]]

WriteHi(a) ==
  /\ upd[a].step = "hi"
  /\ hi' = [hi EXCEPT ![upd[a].at] = upd[a].hi]
  /\ upd' = [upd EXCEPT ![a].step = "lo"]
  /\ UNCHANGED <<lo, cache, map, mgr, dmaVars>>

\* Slip: leave it to the next write to invalidate a cleared entry.
WriteLoUnflushed(a) ==
  /\ upd[a].step = "lo"
  /\ lo' = [lo EXCEPT ![upd[a].at] = upd[a].lo]
  /\ upd' = [upd EXCEPT ![a] = IF @.lo.p THEN [@ EXCEPT !.step = "invalidate"]
                                        ELSE NoUpdate]
  /\ UNCHANGED <<hi, cache, map, mgr, dmaVars>>

WriteLo(a) ==
  /\ upd[a].step = "lo"
  /\ lo' = [lo EXCEPT ![upd[a].at] = upd[a].lo]
  /\ upd' = [upd EXCEPT ![a].step = "invalidate"]
  /\ UNCHANGED <<hi, cache, map, mgr, dmaVars>>

\* One submission of the loop over the units.
Invalidate(a) ==
  /\ upd[a].step = "invalidate"
  /\ cache' = [cache EXCEPT ![upd[a].unit][upd[a].at] = <<>>]
  /\ upd' = [upd EXCEPT ![a] = IF @.unit + 1 < Units
                               THEN [@ EXCEPT !.unit = upd[a].unit + 1]
                               ELSE NoUpdate]
  /\ UNCHANGED <<tableVars, map, mgr, dmaVars>>

\* A unit reads a present entry to deliver an interrupt, and keeps it.
Load(u, i) ==
  /\ lo[i].p
  /\ cache' = [cache EXCEPT ![u][i] = <<lo[i], hi[i]>>]
  /\ UNCHANGED <<tableVars, upd, map, mgr, dmaVars>>

-----------------------------------------------------------------------------
(* Regions of the table                                                    *)

\* The entries that vtd_find_int_remap_region takes for those of a source.
Region(s) == {i \in Entries : lo[i].assigned /\ hi[i].sid = s}

NeedsRegion(s) == Vectors[s] > 0 /\ Region(s) = {}

\* Slip: look at the first entry of the run only.
FitsFirst(length) ==
  {i \in Entries : i + length <= Limit /\ ~ lo[i].assigned}

\* Where a run of free entries is long enough.
Fits(length) ==
  {i \in Entries : /\ i + length <= Limit
                   /\ \A j \in i .. i + length - 1 : ~ lo[j].assigned}

\* vtd_reserve_int_remap_region picks the first run and then marks its
\* entries one by one.
Reserve(s, t) ==
  /\ Fits(Vectors[s]) # {}
  /\ mgr' = [op |-> "assign", src |-> s, target |-> t,
             pos |-> Min(Fits(Vectors[s])), left |-> Vectors[s]]

ReserveAssign ==
  /\ mgr.op = "assign"
  /\ lo' = [lo EXCEPT ![mgr.pos].assigned = TRUE]
  /\ mgr' = [mgr EXCEPT !.op = "sid"]
  /\ UNCHANGED <<hi, cache, upd, map, dmaVars>>

ReserveSid ==
  /\ mgr.op = "sid"
  /\ hi' = [hi EXCEPT ![mgr.pos].sid = mgr.src]
  /\ mgr' = IF mgr.left > 1
            THEN [mgr EXCEPT !.op = "assign", !.pos = @ + 1, !.left = @ - 1]
            ELSE [mgr EXCEPT !.op = IF mgr.src \in Chips THEN "chips" ELSE "tables"]
  /\ UNCHANGED <<lo, cache, upd, map, dmaVars>>

\* Slip: stop one entry early.
FreeRegionShort(op, s) ==
  mgr' = [op |-> op, src |-> s, target |-> owner[s],
          pos |-> IF Region(s) = {} THEN 0 ELSE Min(Region(s)),
          left |-> IF Region(s) = {} THEN 0 ELSE Vectors[s] - 1]

\* vtd_free_int_remap_region looks the region up once and clears as many
\* entries as the source has vectors.
FreeRegion(op, s) ==
  mgr' = [op |-> op, src |-> s, target |-> owner[s],
          pos |-> IF Region(s) = {} THEN 0 ELSE Min(Region(s)),
          left |-> IF Region(s) = {} THEN 0 ELSE Vectors[s]]

FreeEntry ==
  /\ mgr.op \in {"remove", "undo"}
  /\ mgr.left > 0
  /\ upd[Manager] = NoUpdate
  /\ StartUpdate(Manager, mgr.pos, BlankLo, BlankHi)
  /\ mgr' = [mgr EXCEPT !.pos = @ + 1, !.left = @ - 1]
  /\ UNCHANGED <<tableVars, cache, map, dmaVars>>

-----------------------------------------------------------------------------
(* Targets and devices                                                     *)

\* vtd_target_init: a page for the target's page table, then the regions of
\* the interrupt chips that have none yet.
TargetInit(t) ==
  /\ mgr = NoOp
  /\ t \notin active
  /\ pages > 0
  /\ pages' = pages - 1
  /\ mgr' = [NoOp EXCEPT !.op = "chips", !.target = t]
  /\ UNCHANGED <<tableVars, cache, upd, map, owner, active, context, rooted>>

TargetInitChips ==
  LET missing == {s \in Chips : NeedsRegion(s)} IN
  /\ mgr.op = "chips"
  /\ \/ /\ \E s \in missing : Reserve(s, mgr.target)
        /\ UNCHANGED <<active, pages>>
     \/ /\ \E s \in missing : Fits(Vectors[s]) = {}
        /\ pages' = pages + 1
        /\ mgr' = NoOp
        /\ UNCHANGED active
     \/ /\ missing = {}
        /\ active' = active \cup {mgr.target}
        /\ mgr' = NoOp
        /\ UNCHANGED pages
  /\ UNCHANGED <<tableVars, cache, upd, map, owner, context, rooted>>

\* Slip: give the page table back and keep the target.
TargetExitTwice(t) ==
  /\ mgr = NoOp
  /\ t \in active \ {Root}
  /\ \A d \in Devices : owner[d] # t
  /\ pages' = pages + 1
  /\ UNCHANGED <<tableVars, cache, upd, map, mgr, owner, active, context, rooted>>

\* vtd_target_exit: only the page table goes; chips keep their regions.
TargetExit(t) ==
  /\ mgr = NoOp
  /\ t \in active \ {Root}
  /\ \A d \in Devices : owner[d] # t
  /\ pages' = pages + 1
  /\ active' = active \ {t}
  /\ UNCHANGED <<tableVars, cache, upd, map, mgr, owner, context, rooted>>

\* iommu_add_pci_device; -E2BIG leaves everything as it is.
AddDevice(d, t) ==
  /\ mgr = NoOp
  /\ owner[d] = NoOne
  /\ t \in active
  /\ IF NeedsRegion(d)
     THEN Reserve(d, t)
     ELSE mgr' = [NoOp EXCEPT !.op = "tables", !.src = d, !.target = t]
  /\ UNCHANGED <<tableVars, cache, upd, map, dmaVars>>

\* The root entry, with a page for the bus's context table, and the context
\* entry; without a page the region is given back.
AddTables ==
  LET bus == Bus[mgr.src] IN
  /\ mgr.op = "tables"
  /\ IF bus \in rooted \/ pages > 0
     THEN /\ pages' = IF bus \in rooted THEN pages ELSE pages - 1
          /\ rooted' = rooted \cup {bus}
          /\ context' = context \cup {mgr.src}
          /\ owner' = [owner EXCEPT ![mgr.src] = mgr.target]
          /\ mgr' = NoOp
     ELSE /\ FreeRegion("undo", mgr.src)
          /\ UNCHANGED <<pages, rooted, context, owner>>
  /\ UNCHANGED <<tableVars, cache, upd, map, active>>

AddUndone ==
  /\ mgr.op = "undo" /\ mgr.left = 0
  /\ upd[Manager] = NoUpdate
  /\ mgr' = NoOp
  /\ UNCHANGED <<tableVars, cache, upd, map, dmaVars>>

\* iommu_remove_pci_device, of a device whose target is stopped.
RemoveDevice(d) ==
  /\ mgr = NoOp
  /\ owner[d] # NoOne
  /\ \A c \in CPUs : map[c] # d
  /\ FreeRegion("remove", d)
  /\ UNCHANGED <<tableVars, cache, upd, map, dmaVars>>

\* Slip: clear the root entry and forget the page behind it.
RemoveTablesLeak ==
  LET d == mgr.src
      left == {e \in context \ {d} : Bus[e] = Bus[d]}
  IN
  /\ mgr.op = "remove" /\ mgr.left = 0
  /\ upd[Manager] = NoUpdate
  /\ context' = context \ {d}
  /\ rooted' = IF left = {} THEN rooted \ {Bus[d]} ELSE rooted
  /\ owner' = [owner EXCEPT ![d] = NoOne]
  /\ mgr' = NoOp
  /\ UNCHANGED <<tableVars, cache, upd, map, active, pages>>

\* The context entry, and with the last one of its bus the root entry.
RemoveTables ==
  LET d == mgr.src
      left == {e \in context \ {d} : Bus[e] = Bus[d]}
  IN
  /\ mgr.op = "remove" /\ mgr.left = 0
  /\ upd[Manager] = NoUpdate
  /\ context' = context \ {d}
  /\ rooted' = IF left = {} THEN rooted \ {Bus[d]} ELSE rooted
  /\ pages' = IF left = {} THEN pages + 1 ELSE pages
  /\ owner' = [owner EXCEPT ![d] = NoOne]
  /\ mgr' = NoOp
  /\ UNCHANGED <<tableVars, cache, upd, map, active>>

-----------------------------------------------------------------------------
(* iommu_map_interrupt                                                     *)

\* A message to translate: valid, of a delivery mode that is let through,
\* and interrupting a CPU of dest.
Messages == [valid : BOOLEAN, fixed : BOOLEAN, dest : Targets]

\* A message that is not valid only clears the entry, whatever else it says.
Accepted(t, msg) == msg.valid => msg.fixed /\ msg.dest = t

MapInterrupt(c, d, v, msg) ==
  LET i == Min(Region(d)) + v IN
  /\ map[c] = NoOne
  /\ owner[d] # NoOne /\ mgr.src # d
  /\ Exclusive => mgr.op \notin {"assign", "sid"}
  /\ Region(d) # {}
  /\ i < Limit
  /\ lo[i].assigned /\ hi[i].sid = d
  /\ Accepted(owner[d], msg)
  /\ IF msg.valid
     THEN StartUpdate(c, i, [lo[i] EXCEPT !.p = TRUE, !.irq = msg.dest],
                            [hi[i] EXCEPT !.verify = TRUE])
     ELSE StartUpdate(c, i, [lo[i] EXCEPT !.p = FALSE], hi[i])
  /\ map' = [map EXCEPT ![c] = d]
  /\ UNCHANGED <<tableVars, cache, mgr, dmaVars>>

MapReturn(c) ==
  /\ map[c] # NoOne
  /\ upd[c] = NoUpdate
  /\ map' = [map EXCEPT ![c] = NoOne]
  /\ UNCHANGED <<tableVars, cache, upd, mgr, dmaVars>>

Next ==
  \/ \E a \in Actors : WriteHi(a) \/ WriteLo(a) \/ Invalidate(a)
  \/ \E u \in UnitIds, i \in Entries : Load(u, i)
  \/ ReserveAssign \/ ReserveSid \/ FreeEntry
  \/ \E t \in Targets : TargetInit(t) \/ TargetExit(t)
  \/ TargetInitChips
  \/ \E d \in Devices, t \in Targets : AddDevice(d, t)
  \/ AddTables \/ AddUndone
  \/ \E d \in Devices : RemoveDevice(d)
  \/ RemoveTables
  \/ \E c \in CPUs, d \in Devices, v \in Entries, msg \in Messages :
       MapInterrupt(c, d, v, msg)
  \/ \E c \in CPUs : MapReturn(c)

Spec == Init /\ [][Next]_vars

-----------------------------------------------------------------------------
TypeOK ==
  /\ lo \in [Entries -> Lo]
  /\ hi \in [Entries -> Hi]
  /\ cache \in [UnitIds -> [Entries -> {<<>>} \cup (Lo \X Hi)]]
  /\ upd \in [Actors -> [step : {"none", "hi", "lo", "invalidate"},
                         at : Entries, lo : Lo, hi : Hi, unit : UnitIds]]
  /\ map \in [CPUs -> Devices \cup {NoOne}]
  /\ mgr \in [op : {"idle", "assign", "sid", "chips", "tables", "remove", "undo"},
              src : Sources \cup {NoOne}, target : Targets \cup {NoOne},
              pos : 0 .. Limit, left : Nat]
  /\ owner \in [Devices -> Targets \cup {NoOne}]
  /\ active \subseteq Targets
  /\ context \subseteq Devices
  /\ rooted \subseteq {Bus[d] : d \in Devices}
  /\ pages \in 0 .. Pages

\* Whether an entry lets a unit deliver an interrupt only where it belongs:
\* for the requester it names, to CPUs of the target that owns it.
Isolates(lower, upper) ==
  /\ upper.verify
  /\ upper.sid \in Devices
  /\ owner[upper.sid] = lower.irq

\* Whatever a unit reads from the table or keeps in its cache, also between
\* the two writes of an entry and while regions change hands, sends a
\* device's interrupts to the target that owns the device.
Isolation ==
  /\ \A i \in Entries : lo[i].p => Isolates(lo[i], hi[i])
  /\ \A u \in UnitIds, i \in Entries :
       cache[u][i] # <<>> => Isolates(cache[u][i][1], cache[u][i][2])

\* A device has entries exactly while it is added, and the entries of a source
\* are one run of its full length or none at all, so that base index plus
\* vector addresses them and freeing leaves none behind.
RegionsWhole ==
  mgr = NoOp =>
    /\ \A s \in Sources :
         \/ Region(s) = {}
         \/ /\ Cardinality(Region(s)) = Vectors[s]
            /\ Max(Region(s)) - Min(Region(s)) + 1 = Vectors[s]
    /\ \A d \in Devices :
         Region(d) # {} <=> owner[d] # NoOne /\ Vectors[d] > 0

\* Pages of the pool are held by targets and by buses with a device, failed
\* operations included, and a bus has its context table while it needs it.
PagesAccounted ==
  /\ rooted = {Bus[d] : d \in context}
  /\ context = {d \in Devices : owner[d] # NoOne}
  /\ pages + Cardinality(rooted) + Cardinality(active)
       + (IF mgr.op = "chips" \/ mgr.src \in Chips THEN 1 ELSE 0) = Pages
=============================================================================
