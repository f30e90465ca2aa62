-------------------------- MODULE IntRemap_proofs --------------------------
(***************************************************************************)
(* The interrupt remapping table isolates the targets, for every size of   *)
(* the table, every set of devices, CPUs and targets, and every order in   *)
(* which entries are written, cached, invalidated, given back and reused.  *)
(***************************************************************************)
EXTENDS IntRemap, FiniteSetTheorems, WellFoundedInduction, TLAPS

\* An entry of a region that is complete: the one between the two stores of a
\* reservation still has the source of a former owner.
Settled(s) ==
  {i \in Entries : /\ lo[i].assigned /\ hi[i].sid = s
                   /\ ~ (mgr.op = "sid" /\ i = mgr.pos)}

\* One run of the full length, or nothing.
Whole(s) ==
  \/ Settled(s) = {}
  \/ \E b \in Entries : /\ b + Vectors[s] <= Limit
                        /\ Settled(s) = b .. b + Vectors[s] - 1

\* Behind the last entry that the manager has still to reserve or to clear.
End == mgr.pos + mgr.left

Reserving == mgr.op \in {"assign", "sid"}
Freeing == mgr.op \in {"remove", "undo"}

\* The regions of all sources but the one that the manager is working on.
Regions ==
  /\ \A s \in Sources \ {mgr.src} : Whole(s)
  /\ \A d \in Devices \ {mgr.src} :
       Settled(d) # {} <=> owner[d] # NoOne /\ Vectors[d] > 0

\* The manager: what it has done of a region, and what its operation is about.
ManagerIdle == mgr.op = "idle" => mgr = NoOp

ManagerReserves ==
  Reserving =>
    /\ mgr.src \in Sources /\ mgr.target \in Targets
    /\ mgr.left \in 1 .. Vectors[mgr.src]
    /\ End <= Limit
    /\ Vectors[mgr.src] <= End
    /\ Settled(mgr.src) = End - Vectors[mgr.src] .. mgr.pos - 1
    /\ \A j \in mgr.pos .. End - 1 :
         ~ lo[j].p /\ (lo[j].assigned <=> mgr.op = "sid" /\ j = mgr.pos)

ManagerHasRegion ==
  /\ mgr.op = "tables" =>
       /\ mgr.src \in Devices /\ mgr.target \in Targets
       /\ Whole(mgr.src)
       /\ Settled(mgr.src) # {} <=> Vectors[mgr.src] > 0
  /\ mgr.op = "chips" =>
       /\ mgr.src \in Chips \cup {NoOne} /\ mgr.target \in Targets
       /\ mgr.src # NoOne => Whole(mgr.src)

ManagerFrees ==
  Freeing =>
    /\ mgr.src \in Devices
    /\ End <= Limit
    /\ Settled(mgr.src)
         = (IF upd[Manager].step = "lo" THEN upd[Manager].at ELSE mgr.pos)
             .. End - 1

\* The owner of the device that the manager is working on.
ManagedOwner ==
  mgr.src \in Devices => (owner[mgr.src] # NoOne <=> mgr.op = "remove")

\* A target is not active while it is created.
Creation ==
  (mgr.op = "chips" \/ mgr.src \in Chips) => mgr.target \notin active

\* Updates of entries in progress.
ManagerUpdate ==
  LET u == upd[Manager] IN
  u.step # "none" =>
    /\ Freeing
    /\ u.step \in {"lo", "invalidate"}
    /\ u.lo = BlankLo /\ u.at = mgr.pos - 1

CpuUpdate(c) ==
  LET u == upd[c] IN
  /\ map[c] # NoOne => owner[map[c]] # NoOne /\ mgr.src # map[c]
  /\ u.step # "none" => map[c] # NoOne
  /\ u.step \in {"hi", "lo"} =>
       /\ u.at \in Settled(map[c])
       /\ u.lo.assigned
       /\ u.lo.p => u.lo.irq = owner[map[c]]
  /\ u.step = "hi" => u.lo.p /\ u.hi.sid = map[c] /\ u.hi.verify
  /\ u.step = "lo" /\ u.lo.p => hi[u.at].verify

Updates ==
  /\ \A a \in Actors : /\ upd[a].step = "none" => upd[a] = NoUpdate
                       /\ upd[a].step # "invalidate" => upd[a].unit = 0
  /\ ManagerUpdate
  /\ \A c \in CPUs : CpuUpdate(c)

\* Present entries and cached ones are of devices that have an owner.  An
\* entry may be cached longer than it is in the table only while the manager
\* has still to invalidate it.
Delivers(lower, upper) ==
  Isolates(lower, upper) /\ owner[upper.sid] # NoOne

TableIsolated ==
  \A i \in Entries :
    lo[i].p => Delivers(lo[i], hi[i]) /\ i \in Settled(hi[i].sid)

CacheIsolated ==
  \A u \in UnitIds, i \in Entries :
    cache[u][i] # <<>> =>
      /\ Delivers(cache[u][i][1], cache[u][i][2])
      /\ \/ i \in Settled(cache[u][i][2].sid)
         \/ /\ upd[Manager].step = "invalidate"
            /\ upd[Manager].at = i /\ upd[Manager].unit <= u

Finite == IsFiniteSet(rooted) /\ IsFiniteSet(active)

IInv ==
  /\ TypeOK /\ Finite /\ PagesAccounted /\ Creation
  /\ ManagerIdle /\ ManagerReserves /\ ManagerHasRegion /\ ManagerFrees
  /\ ManagedOwner
  /\ Regions /\ Updates /\ TableIsolated /\ CacheIsolated

-----------------------------------------------------------------------------
(* Minima and runs                                                         *)

\* A nonempty set of natural numbers has a least element.
LEMMA MinOfNats ==
  ASSUME NEW S \in SUBSET Nat, S # {}
  PROVE  Min(S) \in S /\ \A n \in S : Min(S) <= n
<1>1. PICK m \in S : \A n \in S : ~ (<<n, m>> \in OpToRel(<, Nat))
  BY NatLessThanWellFounded, WFMin
<1>2. ASSUME NEW n \in S PROVE m <= n
  <2>1. n < m => <<n, m>> \in OpToRel(<, Nat)
    <3>1. <<n, m>> \in Nat \X Nat /\ <<n, m>>[1] = n /\ <<n, m>>[2] = m
      OBVIOUS
    <3> QED
      BY <3>1, Zenon DEF OpToRel
  <2>2. ~ (n < m)
    BY <1>1, <2>1
  <2> QED
    BY <2>2
<1> QED
  BY <1>2 DEF Min

LEMMA MinOfRun ==
  ASSUME NEW b \in Nat, NEW e \in Int, b <= e
  PROVE  Min(b .. e) = b
<1>1. b .. e \subseteq Nat /\ b .. e # {} /\ b \in b .. e
  OBVIOUS
<1>2. Min(b .. e) \in b .. e /\ Min(b .. e) <= b
  BY <1>1, MinOfNats
<1> QED
  BY <1>2

LEMMA MaxOfRun ==
  ASSUME NEW b \in Nat, NEW e \in Int, b <= e
  PROVE  Max(b .. e) = e
<1>1. \A x \in b .. e : (\A y \in b .. e : x >= y) <=> x = e
  OBVIOUS
<1>2. e \in b .. e
  OBVIOUS
<1>3. PICK m \in b .. e : m = Max(b .. e) /\ \A y \in b .. e : m >= y
  BY <1>1, <1>2 DEF Max
<1> QED
  BY <1>1, <1>3

-----------------------------------------------------------------------------
(* What leaves the regions alone                                           *)

\* Regions change only with the table, or with the manager between the two
\* stores of a reservation.
LEMMA SettledSame ==
  ASSUME UNCHANGED tableVars,
         mgr' = mgr \/ (mgr.op # "sid" /\ mgr'.op # "sid")
  PROVE  \A s : Settled(s)' = Settled(s)
BY DEF Settled, tableVars, Entries

\* Outside of a reservation the code sees the regions as they are.
LEMMA RegionIsSettled ==
  ASSUME mgr.op # "sid"
  PROVE  \A s : Region(s) = Settled(s)
BY DEF Settled, Region

LEMMA SettledEntries == \A s : Settled(s) \subseteq Entries
BY DEF Settled

\* A source has only one region.
LEMMA SettledDisjoint ==
  ASSUME NEW s, NEW t, NEW i \in Settled(s), i \in Settled(t)
  PROVE  s = t
BY DEF Settled

-----------------------------------------------------------------------------
(* The initial state                                                       *)

LEMMA InitIInv == Init => IInv
<1> SUFFICES ASSUME Init PROVE IInv
  OBVIOUS
<1> USE RemapAssumption
<1>1. TypeOK
  <2>1. NoUpdate \in [step : {"none", "hi", "lo", "invalidate"},
                      at : Entries, lo : Lo, hi : Hi, unit : UnitIds]
    BY DEF NoUpdate, Entries, UnitIds, Lo, Hi, BlankLo, BlankHi
  <2>2. NoOp \in [op : {"idle", "assign", "sid", "chips", "tables", "remove", "undo"},
                  src : Sources \cup {NoOne}, target : Targets \cup {NoOne},
                  pos : 0 .. Limit, left : Nat]
    BY DEF NoOp
  <2>3. BlankLo \in Lo /\ BlankHi \in Hi
    BY DEF BlankLo, BlankHi, Lo, Hi
  <2> QED
    BY <2>1, <2>2, <2>3 DEF Init, TypeOK
<1>2. Finite /\ PagesAccounted
  <2>1. IsFiniteSet({}) /\ Cardinality({}) = 0
    BY FS_EmptySet
  <2>2. context = {d \in Devices : owner[d] # NoOne}
    BY DEF Init
  <2>3. mgr.op = "idle" /\ mgr.src = NoOne
    BY DEF Init, NoOp
  <2>4. rooted = {} /\ active = {} /\ context = {} /\ pages = Pages
    BY DEF Init
  <2> QED
    BY <2>1, <2>2, <2>3, <2>4 DEF Finite, PagesAccounted
<1>3. /\ mgr = NoOp /\ mgr.op = "idle" /\ mgr.src = NoOne
      /\ \A s : Settled(s) = {}
  BY DEF Init, NoOp, Settled, BlankLo
<1>4. Creation /\ ManagerIdle /\ ManagerReserves /\ ManagerHasRegion
      /\ ManagerFrees /\ ManagedOwner
  BY <1>3 DEF Creation, ManagerIdle, ManagerReserves, ManagerHasRegion, ManagerFrees,
              ManagedOwner, Reserving, Freeing
<1>5. Regions
  BY <1>3 DEF Regions, Whole, Init
<1>6. Updates
  BY DEF Init, Updates, ManagerUpdate, CpuUpdate, NoUpdate, Actors
<1>7. TableIsolated /\ CacheIsolated
  BY DEF Init, TableIsolated, CacheIsolated, BlankLo
<1> QED
  BY <1>1, <1>2, <1>4, <1>5, <1>6, <1>7 DEF IInv

-----------------------------------------------------------------------------
(* Pages                                                                   *)

\* The accounts bound the pool.
LEMMA PagesBounded ==
  ASSUME pages' \in Nat, Finite', PagesAccounted'
  PROVE  pages' \in 0 .. Pages
<1>1. Cardinality(rooted') \in Nat /\ Cardinality(active') \in Nat
  BY FS_CardinalityType DEF Finite
<1>2. PICK n \in 0 .. 1 :
         pages' + Cardinality(rooted') + Cardinality(active') + n = Pages
  BY DEF PagesAccounted
<1> QED
  BY <1>1, <1>2, RemapAssumption

\* The step leaves targets, devices and pages alone.
LEMMA AccountsSame ==
  ASSUME IInv, UNCHANGED dmaVars,
         (mgr.op = "chips" \/ mgr.src \in Chips)
           <=> (mgr'.op = "chips" \/ mgr'.src \in Chips),
         mgr'.op = "chips" \/ mgr'.src \in Chips => mgr'.target = mgr.target
  PROVE  Finite' /\ PagesAccounted' /\ Creation'
BY DEF IInv, dmaVars, Finite, PagesAccounted, Creation

-----------------------------------------------------------------------------
(* Frames: what a step that leaves a part alone preserves                  *)

\* The regions and the manager's operation stay as they are.  Entries that
\* are being reserved may not become present.
LEMMA ManagerSame ==
  ASSUME IInv, mgr' = mgr, owner' = owner, \A s : Settled(s)' = Settled(s),
         upd'[Manager].step = upd[Manager].step, upd'[Manager].at = upd[Manager].at,
         \A j \in Entries :
           /\ lo'[j].assigned <=> lo[j].assigned
           /\ ~ lo[j].assigned \/ (mgr.op = "sid" /\ j = mgr.pos)
                => (lo'[j].p <=> lo[j].p)
  PROVE  /\ ManagerIdle' /\ ManagerReserves' /\ ManagerHasRegion' /\ ManagerFrees'
         /\ ManagedOwner' /\ Regions'
<1> USE DEF IInv
<1>1. ManagerIdle' /\ ManagedOwner'
  BY DEF ManagerIdle, ManagedOwner
<1>2. Regions' /\ ManagerHasRegion'
  BY DEF Regions, ManagerHasRegion, Whole
<1>3. ManagerFrees'
  BY DEF ManagerFrees, Freeing, End
<1>4. ManagerReserves'
  <2> SUFFICES ASSUME Reserving PROVE ManagerReserves'
    BY DEF ManagerReserves, Reserving
  <2>1. mgr.pos .. End - 1 \subseteq Entries
    BY RemapAssumption DEF ManagerReserves, TypeOK, Entries, End
  <2>2. \A j \in mgr.pos .. End - 1 :
           ~ lo'[j].p /\ (lo'[j].assigned <=> mgr.op = "sid" /\ j = mgr.pos)
    BY <2>1 DEF ManagerReserves
  <2> QED
    BY <2>2 DEF ManagerReserves, Reserving, End
<1> QED
  BY <1>1, <1>2, <1>3, <1>4

\* The update a CPU is in goes on, although others work on the table.
LEMMA CpuSame ==
  ASSUME NEW c \in CPUs, CpuUpdate(c), upd'[c] = upd[c], map'[c] = map[c],
         map[c] # NoOne =>
           /\ owner'[map[c]] = owner[map[c]] /\ mgr'.src # map[c]
           /\ Settled(map[c]) \subseteq Settled(map[c])'
           /\ \A i \in Settled(map[c]) : hi[i].verify => hi'[i].verify
  PROVE  CpuUpdate(c)'
BY DEF CpuUpdate

\* Entries may leave the caches, devices with an owner keep it, and regions
\* only grow.
LEMMA CacheSame ==
  ASSUME IInv,
         \A u \in UnitIds, i \in Entries :
           cache'[u][i] = cache[u][i] \/ cache'[u][i] = <<>>,
         \A d \in Devices : owner[d] # NoOne => owner'[d] = owner[d],
         \A d \in Devices : owner[d] # NoOne => Settled(d) \subseteq Settled(d)',
         upd[Manager].step = "invalidate" => upd'[Manager] = upd[Manager]
  PROVE  CacheIsolated'
<1> SUFFICES ASSUME NEW u \in UnitIds, NEW i \in Entries, cache'[u][i] # <<>>
             PROVE  /\ Delivers(cache[u][i][1], cache[u][i][2])'
                    /\ \/ i \in Settled(cache[u][i][2].sid)'
                       \/ /\ upd'[Manager].step = "invalidate"
                          /\ upd'[Manager].at = i /\ upd'[Manager].unit <= u
  BY DEF CacheIsolated
<1>1. cache'[u][i] = cache[u][i] /\ cache[u][i] # <<>>
  OBVIOUS
<1>2. /\ Delivers(cache[u][i][1], cache[u][i][2])
      /\ \/ i \in Settled(cache[u][i][2].sid)
         \/ /\ upd[Manager].step = "invalidate"
            /\ upd[Manager].at = i /\ upd[Manager].unit <= u
  BY <1>1 DEF IInv, CacheIsolated
<1> DEFINE l == cache[u][i][1]
           h == cache[u][i][2]
<1>3. h.verify /\ h.sid \in Devices /\ owner[h.sid] = l.irq /\ owner[h.sid] # NoOne
  BY <1>2 DEF Delivers, Isolates
<1>4. Delivers(cache[u][i][1], cache[u][i][2])'
  BY <1>1, <1>3 DEF Delivers, Isolates
<1>5. i \in Settled(h.sid) => i \in Settled(h.sid)'
  BY <1>3
<1> QED
  BY <1>1, <1>2, <1>4, <1>5

\* The same for the table.
LEMMA TableSame ==
  ASSUME IInv,
         \A i \in Entries : lo'[i].p => lo'[i] = lo[i],
         \A i \in Entries : lo[i].p => hi'[i].sid = hi[i].sid
                                       /\ (hi[i].verify => hi'[i].verify),
         \A d \in Devices : owner[d] # NoOne => owner'[d] = owner[d],
         \A d \in Devices, i \in Entries :
           lo'[i].p /\ i \in Settled(d) => i \in Settled(d)'
  PROVE  TableIsolated'
<1> SUFFICES ASSUME NEW i \in Entries, lo'[i].p
             PROVE  Delivers(lo[i], hi[i])' /\ i \in Settled(hi[i].sid)'
  BY DEF TableIsolated
<1>1. lo'[i] = lo[i] /\ lo[i].p
  OBVIOUS
<1>2. Delivers(lo[i], hi[i]) /\ i \in Settled(hi[i].sid)
  BY <1>1 DEF IInv, TableIsolated
<1>3. hi[i].verify /\ hi[i].sid \in Devices /\ owner[hi[i].sid] = lo[i].irq
      /\ owner[hi[i].sid] # NoOne
  BY <1>2 DEF Delivers, Isolates
<1>4. hi'[i].sid = hi[i].sid /\ hi'[i].verify
  BY <1>1, <1>3
<1>5. Delivers(lo[i], hi[i])'
  BY <1>1, <1>3, <1>4 DEF Delivers, Isolates
<1>6. i \in Settled(hi[i].sid)'
  BY <1>2, <1>3
<1> QED
  BY <1>4, <1>5, <1>6

-----------------------------------------------------------------------------
(* vtd_update_irte and the units                                           *)

\* Only a CPU writes upper halves: the one of the device it programs, which
\* the entry names already.
LEMMA WriteHiIInv ==
  ASSUME IInv, NEW a \in Actors, WriteHi(a)
  PROVE  IInv'
<1> DEFINE i == upd[a].at
           d == map[a]
<1>1. /\ a \in CPUs /\ a # Manager /\ i \in Entries /\ d # NoOne
      /\ i \in Settled(d) /\ upd[a].lo.p /\ upd[a].hi.sid = d /\ upd[a].hi.verify
      /\ hi[i].sid = d
  <2>1. a \in CPUs
    BY DEF WriteHi, IInv, Updates, ManagerUpdate, Actors
  <2>2. CpuUpdate(a) /\ upd[a].step = "hi"
    BY <2>1 DEF WriteHi, IInv, Updates
  <2> QED
    BY <2>1, <2>2, RemapAssumption DEF CpuUpdate, Settled
<1>2. /\ hi' = [hi EXCEPT ![i] = upd[a].hi]
      /\ upd' = [upd EXCEPT ![a].step = "lo"]
      /\ UNCHANGED <<lo, cache, map, mgr, owner, active, context, rooted, pages>>
  BY DEF WriteHi, dmaVars
<1>3. \A j \in Entries : /\ hi'[j].sid = hi[j].sid
                         /\ hi[j].verify => hi'[j].verify
  BY <1>1, <1>2 DEF IInv, TypeOK
<1>4. \A s : Settled(s)' = Settled(s)
  BY <1>2, <1>3 DEF Settled, Entries
<1>5. TypeOK'
  <2>1. upd[a].hi \in Hi /\ hi' \in [Entries -> Hi]
    BY <1>1, <1>2 DEF IInv, TypeOK
  <2>2. upd' \in [Actors -> [step : {"none", "hi", "lo", "invalidate"},
                             at : Entries, lo : Lo, hi : Hi, unit : UnitIds]]
    BY <1>2, SMTT(40) DEF IInv, TypeOK
  <2> QED
    BY <1>2, <2>1, <2>2 DEF IInv, TypeOK
<1>6. Finite' /\ PagesAccounted' /\ Creation'
  BY <1>2, AccountsSame DEF dmaVars
<1>7. Manager \in Actors /\ upd'[Manager] = upd[Manager]
  BY <1>1, <1>2 DEF IInv, TypeOK, Actors
<1>8. /\ ManagerIdle' /\ ManagerReserves' /\ ManagerHasRegion' /\ ManagerFrees'
      /\ ManagedOwner' /\ Regions'
  BY <1>2, <1>4, <1>7, ManagerSame
<1>9. Updates'
  <2>1. \A b \in Actors : /\ upd'[b].step = "none" => upd'[b] = NoUpdate
                          /\ upd'[b].step # "invalidate" => upd'[b].unit = 0
    BY <1>2 DEF WriteHi, IInv, TypeOK, Updates
  <2>2. ManagerUpdate'
    BY <1>2, <1>7 DEF IInv, Updates, ManagerUpdate, Freeing
  <2>3. ASSUME NEW c \in CPUs PROVE CpuUpdate(c)'
    <3>1. CASE c = a
      <4>1. /\ upd'[a].step = "lo" /\ upd'[a].at = i /\ upd'[a].lo = upd[a].lo
            /\ hi'[i].verify
        BY <1>1, <1>2 DEF IInv, TypeOK
      <4>2. CpuUpdate(a) /\ upd[a].step = "hi"
        BY <1>1 DEF WriteHi, IInv, Updates
      <4> QED
        BY <1>2, <1>4, <3>1, <4>1, <4>2 DEF CpuUpdate
    <3>2. CASE c # a
      <4>1. upd'[c] = upd[c] /\ CpuUpdate(c)
        BY <1>2, <3>2 DEF IInv, TypeOK, Updates, Actors
      <4>2. \A j \in Settled(map[c]) : hi[j].verify => hi'[j].verify
        BY <1>3, SettledEntries
      <4> QED
        BY <1>2, <1>4, <4>1, <4>2, CpuSame DEF CpuUpdate
    <3> QED
      BY <3>1, <3>2
  <2> QED
    BY <2>1, <2>2, <2>3 DEF Updates
<1>10. TableIsolated'
  BY <1>2, <1>3, <1>4, TableSame
<1>11. CacheIsolated'
  BY <1>2, <1>4, <1>7, CacheSame
<1> QED
  BY <1>5, <1>6, <1>8, <1>9, <1>10, <1>11 DEF IInv

\* A unit that reads the table gets what the table isolates.
LEMMA LoadIInv ==
  ASSUME IInv, NEW u \in UnitIds, NEW i \in Entries, Load(u, i)
  PROVE  IInv'
<1>1. /\ lo[i].p
      /\ cache' = [cache EXCEPT ![u][i] = <<lo[i], hi[i]>>]
      /\ UNCHANGED <<lo, hi, upd, map, mgr, owner, active, context, rooted, pages>>
  BY DEF Load, tableVars, dmaVars
<1>2. \A s : Settled(s)' = Settled(s)
  BY <1>1, SettledSame DEF tableVars
<1>3. TypeOK'
  <2>1. <<lo[i], hi[i]>> \in Lo \X Hi
    BY DEF IInv, TypeOK
  <2>2. cache' \in [UnitIds -> [Entries -> {<<>>} \cup (Lo \X Hi)]]
    BY <1>1, <2>1, Zenon DEF IInv, TypeOK
  <2> QED
    BY <1>1, <2>2 DEF IInv, TypeOK
<1>4. Finite' /\ PagesAccounted' /\ Creation'
  BY <1>1, AccountsSame DEF dmaVars
<1>5. /\ ManagerIdle' /\ ManagerReserves' /\ ManagerHasRegion' /\ ManagerFrees'
      /\ ManagedOwner' /\ Regions'
  BY <1>1, <1>2, ManagerSame
<1>6. Updates'
  BY <1>1, <1>2 DEF IInv, Updates, ManagerUpdate, CpuUpdate, Freeing
<1>7. TableIsolated'
  BY <1>1, <1>2, TableSame
<1>8. CacheIsolated'
  <2> SUFFICES ASSUME NEW v \in UnitIds, NEW j \in Entries, cache'[v][j] # <<>>
               PROVE  /\ Delivers(cache[v][j][1], cache[v][j][2])'
                      /\ \/ j \in Settled(cache[v][j][2].sid)'
                         \/ /\ upd'[Manager].step = "invalidate"
                            /\ upd'[Manager].at = j /\ upd'[Manager].unit <= v
    BY DEF CacheIsolated
  <2>1. CASE v = u /\ j = i
    <3>1. cache'[v][j] = <<lo[i], hi[i]>>
      BY <1>1, <2>1 DEF IInv, TypeOK
    <3>2. Delivers(lo[i], hi[i]) /\ i \in Settled(hi[i].sid)
      BY <1>1 DEF IInv, TableIsolated
    <3> QED
      BY <1>1, <1>2, <2>1, <3>1, <3>2 DEF Delivers, Isolates
  <2>2. CASE ~ (v = u /\ j = i)
    <3>1. cache'[v][j] = cache[v][j]
      BY <1>1, <2>2 DEF IInv, TypeOK
    <3> QED
      BY <1>1, <1>2, <3>1 DEF IInv, CacheIsolated, Delivers, Isolates
  <2> QED
    BY <2>1, <2>2
<1> QED
  BY <1>3, <1>4, <1>5, <1>6, <1>7, <1>8 DEF IInv

\* A CPU completes an entry of the device it programs.
LEMMA WriteLoOfCpu ==
  ASSUME IInv, NEW a \in CPUs, WriteLo(a)
  PROVE  IInv'
<1> DEFINE i == upd[a].at
           d == map[a]
<1>1. /\ a \in Actors /\ a # Manager /\ i \in Entries /\ d # NoOne /\ d \in Devices
      /\ i \in Settled(d) /\ hi[i].sid = d /\ lo[i].assigned
      /\ upd[a].lo.assigned
      /\ upd[a].lo.p => upd[a].lo.irq = owner[d] /\ hi[i].verify
      /\ owner[d] # NoOne
      /\ ~ (mgr.op = "sid" /\ i = mgr.pos)
  <2>1. CpuUpdate(a) /\ upd[a].step = "lo"
    BY DEF WriteLo, IInv, Updates
  <2>2. map[a] # NoOne /\ upd[a].at \in Settled(map[a])
    BY <2>1 DEF CpuUpdate
  <2>3. map[a] \in Devices /\ a \in Actors /\ a # Manager
    BY <2>2, RemapAssumption DEF IInv, TypeOK, Actors
  <2> QED
    BY <2>1, <2>2, <2>3 DEF CpuUpdate, Settled
<1>2. /\ lo' = [lo EXCEPT ![i] = upd[a].lo]
      /\ upd' = [upd EXCEPT ![a].step = "invalidate"]
      /\ UNCHANGED <<hi, cache, map, mgr, owner, active, context, rooted, pages>>
  BY DEF WriteLo, dmaVars
<1>3. lo'[i] = upd[a].lo /\ \A j \in Entries \ {i} : lo'[j] = lo[j]
  BY <1>1, <1>2 DEF IInv, TypeOK
<1>4. \A j \in Entries : lo'[j].assigned <=> lo[j].assigned
  BY <1>1, <1>3
<1>5. \A s : Settled(s)' = Settled(s)
  BY <1>2, <1>4 DEF Settled, Entries
<1>6. TypeOK'
  <2>1. lo' \in [Entries -> Lo]
    BY <1>1, <1>2 DEF IInv, TypeOK
  <2>2. upd' \in [Actors -> [step : {"none", "hi", "lo", "invalidate"},
                             at : Entries, lo : Lo, hi : Hi, unit : UnitIds]]
    BY <1>2, ZenonT(60) DEF IInv, TypeOK
  <2> QED
    BY <1>2, <2>1, <2>2 DEF IInv, TypeOK
<1>7. Finite' /\ PagesAccounted' /\ Creation'
  BY <1>2, AccountsSame DEF dmaVars
<1>8. Manager \in Actors /\ upd'[Manager] = upd[Manager]
  BY <1>1, <1>2 DEF IInv, TypeOK, Actors
<1>9. /\ ManagerIdle' /\ ManagerReserves' /\ ManagerHasRegion' /\ ManagerFrees'
      /\ ManagedOwner' /\ Regions'
  <2>1. \A j \in Entries :
          /\ lo'[j].assigned <=> lo[j].assigned
          /\ ~ lo[j].assigned \/ (mgr.op = "sid" /\ j = mgr.pos)
               => (lo'[j].p <=> lo[j].p)
    BY <1>1, <1>3, <1>4
  <2> QED
    BY <1>2, <1>5, <1>8, <2>1, ManagerSame
<1>10. Updates'
  <2>1. \A b \in Actors : /\ upd'[b].step = "none" => upd'[b] = NoUpdate
                          /\ upd'[b].step # "invalidate" => upd'[b].unit = 0
    BY <1>2 DEF IInv, TypeOK, Updates
  <2>2. ManagerUpdate'
    BY <1>2, <1>8 DEF IInv, Updates, ManagerUpdate, Freeing
  <2>3. ASSUME NEW c \in CPUs PROVE CpuUpdate(c)'
    <3>1. CASE c = a
      <4>1. upd'[a].step = "invalidate"
        BY <1>1, <1>2 DEF IInv, TypeOK
      <4>2. CpuUpdate(a) /\ upd[a].step = "lo"
        BY DEF WriteLo, IInv, Updates
      <4> QED
        BY <1>2, <3>1, <4>1, <4>2 DEF CpuUpdate
    <3>2. CASE c # a
      <4>1. upd'[c] = upd[c] /\ CpuUpdate(c)
        BY <1>2, <3>2 DEF IInv, TypeOK, Updates, Actors
      <4> QED
        BY <1>2, <1>5, <4>1, CpuSame DEF CpuUpdate
    <3> QED
      BY <3>1, <3>2
  <2> QED
    BY <2>1, <2>2, <2>3 DEF Updates
<1>11. TableIsolated'
  <2> SUFFICES ASSUME NEW j \in Entries, lo'[j].p
               PROVE  Delivers(lo[j], hi[j])' /\ j \in Settled(hi[j].sid)'
    BY DEF TableIsolated
  <2>1. CASE j = i
    BY <1>1, <1>2, <1>3, <1>5, <2>1 DEF Delivers, Isolates
  <2>2. CASE j # i
    <3>1. Delivers(lo[j], hi[j]) /\ j \in Settled(hi[j].sid) /\ lo'[j] = lo[j]
      BY <1>3, <2>2 DEF IInv, TableIsolated
    <3> QED
      BY <1>2, <1>5, <3>1 DEF Delivers, Isolates
  <2> QED
    BY <2>1, <2>2
<1>12. CacheIsolated'
  BY <1>2, <1>5, <1>8, CacheSame
<1> QED
  BY <1>6, <1>7, <1>9, <1>10, <1>11, <1>12 DEF IInv

\* The manager clears the next entry of the region it gives back; copies in
\* the caches are about to be invalidated.
LEMMA WriteLoOfManager ==
  ASSUME IInv, WriteLo(Manager)
  PROVE  IInv'
<1> DEFINE i == upd[Manager].at
           d == mgr.src
<1>1. /\ Manager \in Actors /\ i \in Entries /\ d \in Devices
      /\ upd[Manager].step = "lo" /\ upd[Manager].lo = BlankLo
      /\ upd[Manager].unit = 0 /\ i = mgr.pos - 1
      /\ mgr.op \in {"remove", "undo"}
      /\ mgr.pos \in Nat /\ mgr.left \in Nat /\ mgr.pos + mgr.left <= Limit
      /\ Settled(d) = i .. mgr.pos + mgr.left - 1
  <2>1. Manager \in Actors /\ upd[Manager].step = "lo"
    BY DEF WriteLo, Actors
  <2>2. Freeing /\ upd[Manager].lo = BlankLo /\ upd[Manager].at = mgr.pos - 1
    BY <2>1 DEF IInv, Updates, ManagerUpdate
  <2>3. upd[Manager].unit = 0
    BY <2>1 DEF IInv, Updates
  <2> QED
    BY <2>1, <2>2, <2>3 DEF IInv, TypeOK, ManagerFrees, Freeing, End
<1>2. /\ lo' = [lo EXCEPT ![i] = BlankLo]
      /\ upd' = [upd EXCEPT ![Manager].step = "invalidate"]
      /\ UNCHANGED <<hi, cache, map, mgr, owner, active, context, rooted, pages>>
  BY <1>1 DEF WriteLo, dmaVars
<1>3. /\ ~ lo'[i].p /\ ~ lo'[i].assigned
      /\ \A j \in Entries \ {i} : lo'[j] = lo[j]
  BY <1>1, <1>2 DEF IInv, TypeOK, BlankLo
<1>4. i \in Settled(d)
  BY <1>1 DEF Entries
<1>5. \A s : Settled(s)' = Settled(s) \ {i}
  BY <1>2, <1>3 DEF Settled, Entries
<1>6. \A s : s # d => Settled(s)' = Settled(s)
  BY <1>4, <1>5, SettledDisjoint
<1>7. TypeOK'
  <2>1. lo' \in [Entries -> Lo]
    BY <1>1, <1>2 DEF IInv, TypeOK, BlankLo, Lo
  <2>2. upd' \in [Actors -> [step : {"none", "hi", "lo", "invalidate"},
                             at : Entries, lo : Lo, hi : Hi, unit : UnitIds]]
    BY <1>2, ZenonT(60) DEF IInv, TypeOK
  <2> QED
    BY <1>2, <2>1, <2>2 DEF IInv, TypeOK
<1>8. Finite' /\ PagesAccounted' /\ Creation'
  BY <1>2, AccountsSame DEF dmaVars
<1>9. ManagerIdle' /\ ManagerReserves' /\ ManagerHasRegion' /\ ManagedOwner'
  BY <1>1, <1>2 DEF IInv, ManagerIdle, ManagerReserves, ManagerHasRegion, ManagedOwner,
                    Reserving, End
<1>10. upd'[Manager] = [upd[Manager] EXCEPT !.step = "invalidate"]
  BY <1>1, <1>2 DEF IInv, TypeOK
<1>11. ManagerFrees'
  <2>1. Settled(d)' = mgr.pos .. mgr.pos + mgr.left - 1
    <3>1. \A b \in Nat, e \in Int : (b - 1 .. e) \ {b - 1} = b .. e
      OBVIOUS
    <3>2. Settled(d)' = (mgr.pos - 1 .. mgr.pos + mgr.left - 1) \ {mgr.pos - 1}
      BY <1>1, <1>2, <1>5
    <3> QED
      BY <1>1, <3>1, <3>2
  <2>2. upd'[Manager].step = "invalidate"
    BY <1>10 DEF IInv, TypeOK
  <2> QED
    BY <1>1, <1>2, <2>1, <2>2 DEF ManagerFrees, End
<1>12. Regions'
  BY <1>2, <1>6 DEF IInv, Regions, Whole
<1>13. Updates'
  <2>1. \A b \in Actors : /\ upd'[b].step = "none" => upd'[b] = NoUpdate
                          /\ upd'[b].step # "invalidate" => upd'[b].unit = 0
    BY <1>2 DEF IInv, TypeOK, Updates
  <2>2. ManagerUpdate'
    <3>1. /\ upd'[Manager].step = "invalidate" /\ upd'[Manager].lo = BlankLo
          /\ upd'[Manager].at = mgr.pos - 1
      BY <1>1, <1>10 DEF IInv, TypeOK
    <3> QED
      BY <1>1, <1>2, <3>1 DEF ManagerUpdate, Freeing
  <2>3. ASSUME NEW c \in CPUs PROVE CpuUpdate(c)'
    <3>1. upd'[c] = upd[c] /\ CpuUpdate(c)
      BY <1>2, RemapAssumption DEF IInv, TypeOK, Updates, Actors
    <3> QED
      BY <1>2, <1>6, <3>1, CpuSame DEF CpuUpdate
  <2> QED
    BY <2>1, <2>2, <2>3 DEF Updates
<1>14. TableIsolated'
  <2>1. \A j \in Entries : lo'[j].p => j # i /\ lo'[j] = lo[j]
    BY <1>3
  <2> QED
    BY <1>2, <1>5, <2>1, TableSame
<1>15. CacheIsolated'
  <2> SUFFICES ASSUME NEW v \in UnitIds, NEW j \in Entries, cache'[v][j] # <<>>
               PROVE  /\ Delivers(cache[v][j][1], cache[v][j][2])'
                      /\ \/ j \in Settled(cache[v][j][2].sid)'
                         \/ /\ upd'[Manager].step = "invalidate"
                            /\ upd'[Manager].at = j /\ upd'[Manager].unit <= v
    BY DEF CacheIsolated
  <2>1. /\ Delivers(cache[v][j][1], cache[v][j][2])
        /\ j \in Settled(cache[v][j][2].sid)
    BY <1>1, <1>2 DEF IInv, CacheIsolated
  <2>2. Delivers(cache[v][j][1], cache[v][j][2])'
    BY <1>2, <2>1 DEF Delivers, Isolates
  <2>3. upd'[Manager].step = "invalidate" /\ upd'[Manager].at = i /\ upd'[Manager].unit = 0
    BY <1>1, <1>10 DEF IInv, TypeOK
  <2>4. 0 <= v
    BY DEF UnitIds
  <2> QED
    BY <1>2, <1>5, <2>1, <2>2, <2>3, <2>4
<1> QED
  BY <1>7, <1>8, <1>9, <1>11, <1>12, <1>13, <1>14, <1>15 DEF IInv

\* A request leaves one unit's cache without the entry; the update is over
\* when the last unit has carried it out.
LEMMA InvalidateIInv ==
  ASSUME IInv, NEW a \in Actors, Invalidate(a)
  PROVE  IInv'
<1> DEFINE i == upd[a].at
           u == upd[a].unit
<1>1. i \in Entries /\ u \in UnitIds /\ upd[a].step = "invalidate"
  BY DEF Invalidate, IInv, TypeOK
<1>2. /\ cache' = [cache EXCEPT ![u][i] = <<>>]
      /\ upd' = [upd EXCEPT ![a] = IF u + 1 < Units
                                   THEN [upd[a] EXCEPT !.unit = u + 1]
                                   ELSE NoUpdate]
      /\ UNCHANGED <<lo, hi, map, mgr, owner, active, context, rooted, pages>>
  BY DEF Invalidate, tableVars, dmaVars
<1>3. /\ cache'[u][i] = <<>>
      /\ \A v \in UnitIds, j \in Entries :
           cache'[v][j] = cache[v][j] \/ cache'[v][j] = <<>>
  BY <1>1, <1>2 DEF IInv, TypeOK
<1>4. \A s : Settled(s)' = Settled(s)
  BY <1>2, SettledSame DEF tableVars
<1>5. \/ /\ u + 1 < Units /\ upd'[a].step = "invalidate" /\ upd'[a].at = i
         /\ upd'[a].lo = upd[a].lo /\ upd'[a].unit = u + 1
      \/ /\ ~ (u + 1 < Units) /\ upd'[a] = NoUpdate /\ upd'[a].step = "none"
         /\ upd'[a].unit = 0
  BY <1>1, <1>2 DEF IInv, TypeOK, NoUpdate
<1>6. \A b \in Actors \ {a} : upd'[b] = upd[b]
  BY <1>2 DEF IInv, TypeOK
<1>7. TypeOK'
  <2>1. cache' \in [UnitIds -> [Entries -> {<<>>} \cup (Lo \X Hi)]]
    BY <1>2, Zenon DEF IInv, TypeOK
  <2>2. (IF u + 1 < Units THEN [upd[a] EXCEPT !.unit = u + 1] ELSE NoUpdate)
          \in [step : {"none", "hi", "lo", "invalidate"},
               at : Entries, lo : Lo, hi : Hi, unit : UnitIds]
    <3>1. NoUpdate \in [step : {"none", "hi", "lo", "invalidate"},
                        at : Entries, lo : Lo, hi : Hi, unit : UnitIds]
      BY RemapAssumption
         DEF NoUpdate, Entries, UnitIds, Lo, Hi, BlankLo, BlankHi
    <3>2. u + 1 < Units => u + 1 \in UnitIds
      BY <1>1, RemapAssumption DEF UnitIds
    <3> QED
      BY <3>1, <3>2 DEF IInv, TypeOK
  <2>3. upd' \in [Actors -> [step : {"none", "hi", "lo", "invalidate"},
                             at : Entries, lo : Lo, hi : Hi, unit : UnitIds]]
    BY <1>2, <2>2 DEF IInv, TypeOK
  <2> QED
    BY <1>2, <2>1, <2>3 DEF IInv, TypeOK
<1>8. Finite' /\ PagesAccounted' /\ Creation'
  BY <1>2, AccountsSame DEF dmaVars
<1>9. Manager \in Actors
  BY DEF Actors
<1>10. upd[Manager].step # "lo" => upd'[Manager].step # "lo"
  BY <1>5, <1>6, <1>9
<1>11. upd[Manager].step = "lo" => upd'[Manager] = upd[Manager]
  BY <1>1, <1>6, <1>9
<1>12. ManagerIdle' /\ ManagerReserves' /\ ManagerHasRegion' /\ ManagedOwner' /\ Regions'
  BY <1>2, <1>4 DEF IInv, ManagerIdle, ManagerReserves, ManagerHasRegion, ManagedOwner,
                    Reserving, End, Regions, Whole
<1>13. ManagerFrees'
  BY <1>2, <1>4, <1>10, <1>11 DEF IInv, ManagerFrees, Freeing, End
<1>14. Updates'
  <2>1. \A b \in Actors : /\ upd'[b].step = "none" => upd'[b] = NoUpdate
                          /\ upd'[b].step # "invalidate" => upd'[b].unit = 0
    BY <1>5, <1>6 DEF IInv, Updates
  <2>2. ManagerUpdate'
    BY <1>1, <1>2, <1>5, <1>6, <1>9 DEF IInv, Updates, ManagerUpdate, Freeing
  <2>3. ASSUME NEW c \in CPUs PROVE CpuUpdate(c)'
    <3>1. c \in Actors /\ CpuUpdate(c)
      BY DEF IInv, Updates, Actors
    <3>2. CASE c = a
      BY <1>1, <1>2, <1>5, <3>1, <3>2 DEF CpuUpdate
    <3>3. CASE c # a
      BY <1>2, <1>4, <1>6, <3>1, <3>3, CpuSame DEF CpuUpdate
    <3> QED
      BY <3>2, <3>3
  <2> QED
    BY <2>1, <2>2, <2>3 DEF Updates
<1>15. TableIsolated'
  BY <1>2, <1>4, TableSame
<1>16. CacheIsolated'
  <2>1. CASE a # Manager
    BY <1>2, <1>3, <1>4, <1>6, <1>9, <2>1, CacheSame
  <2>2. CASE a = Manager
    <3> SUFFICES ASSUME NEW v \in UnitIds, NEW j \in Entries, cache'[v][j] # <<>>
                 PROVE  /\ Delivers(cache[v][j][1], cache[v][j][2])'
                        /\ \/ j \in Settled(cache[v][j][2].sid)'
                           \/ /\ upd'[Manager].step = "invalidate"
                              /\ upd'[Manager].at = j /\ upd'[Manager].unit <= v
      BY DEF CacheIsolated
    <3>1. cache'[v][j] = cache[v][j] /\ ~ (v = u /\ j = i)
      BY <1>3
    <3>2. /\ Delivers(cache[v][j][1], cache[v][j][2])
          /\ \/ j \in Settled(cache[v][j][2].sid)
             \/ i = j /\ u <= v
      BY <2>2, <3>1 DEF IInv, CacheIsolated
    <3>3. Delivers(cache[v][j][1], cache[v][j][2])'
      BY <1>2, <3>1, <3>2 DEF Delivers, Isolates
    <3>4. CASE i = j /\ u <= v
      <4>1. u + 1 <= v /\ u + 1 < Units
        BY <1>1, <3>1, <3>4, RemapAssumption DEF UnitIds
      <4> QED
        BY <1>5, <2>2, <3>3, <3>4, <4>1
    <3> QED
      BY <1>4, <3>1, <3>2, <3>3, <3>4
  <2> QED
    BY <2>1, <2>2
<1> QED
  BY <1>7, <1>8, <1>12, <1>13, <1>14, <1>15, <1>16 DEF IInv

-----------------------------------------------------------------------------
(* vtd_reserve_int_remap_region and vtd_free_int_remap_region              *)

\* During a reservation the manager updates no entry.
LEMMA ManagerQuiet ==
  ASSUME IInv, ~ Freeing
  PROVE  Manager \in Actors /\ upd[Manager] = NoUpdate /\ upd[Manager].step = "none"
BY DEF IInv, Updates, ManagerUpdate, Actors

\* The first store takes an entry that is free; it names a former owner, and
\* belongs to no region yet.
LEMMA ReserveAssignIInv ==
  ASSUME IInv, ReserveAssign
  PROVE  IInv'
<1> DEFINE n == Vectors[mgr.src]
<1>1. /\ mgr.op = "assign" /\ Reserving /\ ~ Freeing
      /\ mgr.src \in Sources /\ mgr.target \in Targets
      /\ mgr.pos \in Nat /\ mgr.left \in Nat /\ mgr.left >= 1
      /\ End <= Limit
      /\ mgr.pos \in Entries /\ ~ lo[mgr.pos].p /\ ~ lo[mgr.pos].assigned
  <2>1. mgr.op = "assign" /\ Reserving /\ ~ Freeing
    BY DEF ReserveAssign, Reserving, Freeing
  <2>2. /\ mgr.src \in Sources /\ mgr.target \in Targets
        /\ mgr.left \in 1 .. n /\ End <= Limit
        /\ \A j \in mgr.pos .. End - 1 :
             ~ lo[j].p /\ (lo[j].assigned <=> mgr.op = "sid" /\ j = mgr.pos)
    BY <2>1 DEF IInv, ManagerReserves
  <2>3. mgr.pos \in Nat /\ mgr.left \in Nat /\ mgr.left >= 1
    BY <2>2, RemapAssumption DEF IInv, TypeOK, Sources
  <2>4. mgr.pos \in Entries /\ mgr.pos \in mgr.pos .. End - 1
    BY <2>2, <2>3, RemapAssumption DEF Entries, End
  <2> QED
    BY <2>1, <2>2, <2>3, <2>4
<1>2. /\ lo' = [lo EXCEPT ![mgr.pos].assigned = TRUE]
      /\ mgr' = [mgr EXCEPT !.op = "sid"]
      /\ UNCHANGED <<hi, cache, upd, map, owner, active, context, rooted, pages>>
  BY DEF ReserveAssign, dmaVars
<1>3. /\ lo'[mgr.pos].assigned /\ ~ lo'[mgr.pos].p
      /\ \A j \in Entries \ {mgr.pos} : lo'[j] = lo[j]
  BY <1>1, <1>2 DEF IInv, TypeOK, Lo
<1>4. /\ mgr'.op = "sid" /\ mgr'.src = mgr.src /\ mgr'.target = mgr.target
      /\ mgr'.pos = mgr.pos /\ mgr'.left = mgr.left
  BY <1>2 DEF IInv, TypeOK
<1>5. \A s : Settled(s)' = Settled(s)
  BY <1>1, <1>2, <1>3, <1>4 DEF Settled, Entries
<1>6. TypeOK'
  <2>1. lo' \in [Entries -> Lo]
    <3>1. [lo[mgr.pos] EXCEPT !.assigned = TRUE] \in Lo
      <4>1. lo[mgr.pos] \in Lo
        BY <1>1 DEF IInv, TypeOK
      <4> QED
        BY <4>1, Zenon DEF Lo
    <3>2. lo' = [lo EXCEPT ![mgr.pos] = [lo[mgr.pos] EXCEPT !.assigned = TRUE]]
      BY <1>2
    <3> QED
      BY <3>1, <3>2, Zenon DEF IInv, TypeOK
  <2>2. mgr' \in [op : {"idle", "assign", "sid", "chips", "tables", "remove", "undo"},
                  src : Sources \cup {NoOne}, target : Targets \cup {NoOne},
                  pos : 0 .. Limit, left : Nat]
    BY <1>2 DEF IInv, TypeOK
  <2> QED
    BY <1>2, <2>1, <2>2 DEF IInv, TypeOK
<1>7. Finite' /\ PagesAccounted' /\ Creation'
  BY <1>1, <1>2, <1>4, AccountsSame DEF dmaVars
<1>8. ManagerIdle' /\ ManagerHasRegion' /\ ManagerFrees' /\ ManagedOwner'
  BY <1>1, <1>2, <1>4 DEF IInv, ManagerIdle, ManagerHasRegion, ManagerFrees,
                          ManagedOwner, Freeing
<1>9. ManagerReserves'
  <2>1. mgr.pos .. End - 1 \subseteq Entries
    BY <1>1, RemapAssumption DEF Entries, End
  <2>2. \A j \in mgr.pos .. End - 1 :
          ~ lo'[j].p /\ (lo'[j].assigned <=> j = mgr.pos)
    BY <1>1, <1>3, <2>1 DEF IInv, ManagerReserves
  <2>3. Settled(mgr.src)' = Settled(mgr.src)
    BY <1>4, <1>5
  <2> QED
    BY <1>1, <1>4, <2>2, <2>3 DEF IInv, ManagerReserves, Reserving, End
<1>10. Regions'
  BY <1>2, <1>4, <1>5 DEF IInv, Regions, Whole
<1>11. Updates'
  <2>1. ManagerUpdate'
    BY <1>1, <1>2, ManagerQuiet DEF ManagerUpdate
  <2>2. ASSUME NEW c \in CPUs PROVE CpuUpdate(c)'
    BY <1>2, <1>4, <1>5, CpuSame DEF IInv, Updates, CpuUpdate
  <2> QED
    BY <1>2, <2>1, <2>2 DEF IInv, Updates
<1>12. TableIsolated'
  BY <1>2, <1>3, <1>5, TableSame
<1>13. CacheIsolated'
  BY <1>2, <1>5, CacheSame
<1> QED
  BY <1>6, <1>7, <1>8, <1>9, <1>10, <1>11, <1>12, <1>13 DEF IInv

\* The second store gives the entry to the new owner.
LEMMA ReserveSidIInv ==
  ASSUME IInv, ReserveSid
  PROVE  IInv'
<1> DEFINE n == Vectors[mgr.src]
<1>1. /\ mgr.op = "sid" /\ Reserving /\ ~ Freeing
      /\ mgr.src \in Sources /\ mgr.target \in Targets /\ mgr.src # NoOne
  <2>1. mgr.op = "sid" /\ Reserving /\ ~ Freeing
    BY DEF ReserveSid, Reserving, Freeing
  <2>2. mgr.src \in Sources /\ mgr.target \in Targets
    BY <2>1 DEF IInv, ManagerReserves
  <2> QED
    BY <2>1, <2>2, RemapAssumption DEF Sources
<1>a. /\ n \in Nat /\ mgr.pos \in Nat /\ mgr.left \in Nat /\ End \in Nat
      /\ mgr.left >= 1 /\ mgr.left <= n /\ End <= Limit /\ n <= End
  <2>1. n \in Nat /\ mgr.pos \in Nat /\ mgr.left \in Nat
    BY <1>1, RemapAssumption DEF IInv, TypeOK, Sources
  <2>2. mgr.left \in 1 .. n /\ End <= Limit /\ n <= End
    BY <1>1 DEF IInv, ManagerReserves
  <2> QED
    BY <2>1, <2>2 DEF End
<1>b. Settled(mgr.src) = End - n .. mgr.pos - 1
  BY <1>1, Zenon DEF IInv, ManagerReserves
<1>c. \A j \in mgr.pos .. End - 1 : ~ lo[j].p /\ (lo[j].assigned <=> j = mgr.pos)
  <2>1. \A j \in mgr.pos .. End - 1 :
          ~ lo[j].p /\ (lo[j].assigned <=> mgr.op = "sid" /\ j = mgr.pos)
    BY <1>1, Zenon DEF IInv, ManagerReserves
  <2> QED
    BY <1>1, <2>1, Zenon
<1>2. mgr.pos \in Entries /\ lo[mgr.pos].assigned /\ ~ lo[mgr.pos].p
  <2>1. mgr.pos \in mgr.pos .. End - 1 /\ mgr.pos \in Entries
    BY <1>a, RemapAssumption DEF Entries, End
  <2> QED
    BY <1>c, <2>1
<1>3. /\ hi' = [hi EXCEPT ![mgr.pos].sid = mgr.src]
      /\ mgr' = IF mgr.left > 1
                THEN [mgr EXCEPT !.op = "assign", !.pos = mgr.pos + 1,
                                 !.left = mgr.left - 1]
                ELSE [mgr EXCEPT !.op = IF mgr.src \in Chips THEN "chips" ELSE "tables"]
      /\ UNCHANGED <<lo, cache, upd, map, owner, active, context, rooted, pages>>
  BY DEF ReserveSid, dmaVars
<1>4. /\ hi'[mgr.pos].sid = mgr.src
      /\ \A j \in Entries \ {mgr.pos} : hi'[j] = hi[j]
      /\ \A j \in Entries : hi[j].verify => hi'[j].verify
  BY <1>2, <1>3 DEF IInv, TypeOK, Hi
<1>5. /\ mgr'.src = mgr.src /\ mgr'.target = mgr.target
      /\ \/ /\ mgr.left > 1 /\ mgr'.op = "assign"
            /\ mgr'.pos = mgr.pos + 1 /\ mgr'.left = mgr.left - 1
         \/ /\ mgr.left = 1 /\ mgr.src \in Chips /\ mgr'.op = "chips"
            /\ mgr'.pos = mgr.pos /\ mgr'.left = mgr.left
         \/ /\ mgr.left = 1 /\ mgr.src \notin Chips /\ mgr'.op = "tables"
            /\ mgr'.pos = mgr.pos /\ mgr'.left = mgr.left
  BY <1>a, <1>3 DEF IInv, TypeOK
<1>6. mgr'.op # "sid"
  BY <1>5
<1>7. \A s : Settled(s)' = IF s = mgr.src THEN Settled(s) \cup {mgr.pos} ELSE Settled(s)
  BY <1>1, <1>2, <1>3, <1>4, <1>6 DEF Settled, Entries
<1>8. Settled(mgr.src)' = End - n .. mgr.pos
  <2>1. End - n <= mgr.pos /\ End - n \in Nat
    BY <1>a DEF End
  <2>2. \A a \in Nat, b \in Nat : a <= b => (a .. b - 1) \cup {b} = a .. b
    OBVIOUS
  <2>3. Settled(mgr.src)' = (End - n .. mgr.pos - 1) \cup {mgr.pos}
    BY <1>5, <1>7, <1>b
  <2> QED
    BY <1>a, <2>1, <2>2, <2>3
<1>9. TypeOK'
  <2>1. hi' \in [Entries -> Hi]
    BY <1>1, <1>2, <1>3 DEF IInv, TypeOK, Hi
  <2>2. mgr' \in [op : {"idle", "assign", "sid", "chips", "tables", "remove", "undo"},
                  src : Sources \cup {NoOne}, target : Targets \cup {NoOne},
                  pos : 0 .. Limit, left : Nat]
    <3>1. CASE mgr.left > 1
      <4>1. mgr.pos + 1 \in 0 .. Limit /\ mgr.left - 1 \in Nat
        BY <1>a, <3>1, RemapAssumption DEF End
      <4>2. mgr' = [mgr EXCEPT !.op = "assign", !.pos = mgr.pos + 1, !.left = mgr.left - 1]
        BY <1>3, <3>1
      <4> QED
        BY <4>1, <4>2 DEF IInv, TypeOK
    <3>2. CASE ~ (mgr.left > 1)
      <4>1. \/ mgr' = [mgr EXCEPT !.op = "chips"]
            \/ mgr' = [mgr EXCEPT !.op = "tables"]
        BY <1>3, <3>2
      <4> QED
        BY <4>1 DEF IInv, TypeOK
    <3> QED
      BY <3>1, <3>2
  <2> QED
    BY <1>3, <2>1, <2>2 DEF IInv, TypeOK
<1>10. Finite' /\ PagesAccounted' /\ Creation'
  BY <1>1, <1>3, <1>5, AccountsSame DEF dmaVars
<1>11. ManagerIdle' /\ ManagerFrees' /\ ManagedOwner'
  BY <1>1, <1>3, <1>5 DEF IInv, ManagerIdle, ManagerFrees, ManagedOwner, Freeing
<1>12. ManagerHasRegion'
  <2>1. mgr'.op \in {"tables", "chips"} => Whole(mgr.src)' /\ Settled(mgr.src)' # {}
    <3> SUFFICES ASSUME mgr'.op \in {"tables", "chips"}
                 PROVE  Whole(mgr.src)' /\ Settled(mgr.src)' # {}
      OBVIOUS
    <3>1. mgr.left = 1
      BY <1>5
    <3> DEFINE b == mgr.pos + 1 - n
    <3>2. b \in Entries /\ b + n <= Limit /\ b + n - 1 = mgr.pos /\ b = End - n
      BY <1>a, <3>1, RemapAssumption DEF Entries, End
    <3>3. Settled(mgr.src)' = b .. b + n - 1 /\ mgr.pos \in Settled(mgr.src)'
      <4>1. mgr.pos \in End - n .. mgr.pos
        BY <1>a DEF End
      <4> QED
        BY <1>8, <3>2, <4>1, Zenon
    <3>4. Vectors[mgr.src]' = n
      BY <1>5
    <3> QED
      BY <3>2, <3>3, <3>4 DEF Whole
  <2>2. n > 0
    BY <1>a
  <2>3. mgr'.op = "chips" => mgr.src \in Chips
    BY <1>5
  <2>4. mgr'.op = "tables" => mgr.src \in Devices
    BY <1>1, <1>5 DEF Sources
  <2> QED
    BY <1>1, <1>5, <2>1, <2>2, <2>3, <2>4 DEF ManagerHasRegion
<1>13. ManagerReserves'
  <2> SUFFICES ASSUME mgr'.op = "assign" PROVE ManagerReserves'
    BY <1>6 DEF ManagerReserves, Reserving
  <2>1. mgr.left > 1 /\ mgr'.pos = mgr.pos + 1 /\ mgr'.left = mgr.left - 1
    BY <1>5
  <2>2. End' = End /\ mgr'.left \in 1 .. n /\ mgr'.pos - 1 = mgr.pos
    BY <1>a, <2>1 DEF End
  <2>3. \A j \in mgr'.pos .. End - 1 : ~ lo'[j].p /\ ~ lo'[j].assigned
    <3>1. \A j \in mgr'.pos .. End - 1 : j \in mgr.pos .. End - 1 /\ j # mgr.pos
      BY <1>a, <2>1
    <3> QED
      BY <1>3, <1>c, <3>1
  <2>4. Vectors[mgr'.src] = n
    BY <1>5
  <2>5. End' - Vectors[mgr'.src] = End - n
    BY <2>2, <2>4
  <2>6. Settled(mgr.src)'
          = End' - Vectors[mgr'.src] .. mgr'.pos - 1
    BY <1>8, <2>2, <2>5, Zenon
  <2>7. /\ mgr'.src \in Sources /\ mgr'.target \in Targets
        /\ mgr'.left \in 1 .. Vectors[mgr'.src]
        /\ End' <= Limit /\ Vectors[mgr'.src] <= End'
    BY <1>1, <1>a, <1>5, <2>2, <2>4
  <2>8. \A j \in mgr'.pos .. End' - 1 :
          ~ lo'[j].p /\ (lo'[j].assigned <=> mgr'.op = "sid" /\ j = mgr'.pos)
    BY <1>6, <2>2, <2>3
  <2> QED
    BY <2>6, <2>7, <2>8, Zenon DEF ManagerReserves
<1>14. Regions'
  BY <1>3, <1>5, <1>7 DEF IInv, Regions, Whole
<1>15. \A s : Settled(s) \subseteq Settled(s)'
  BY <1>7
<1>16. Updates'
  <2>1. ManagerUpdate'
    BY <1>1, <1>3, ManagerQuiet DEF ManagerUpdate
  <2>2. ASSUME NEW c \in CPUs PROVE CpuUpdate(c)'
    <3>1. CpuUpdate(c)
      BY DEF IInv, Updates
    <3>2. Settled(map[c]) \subseteq Settled(map[c])'
      BY <1>3, <1>15
    <3>3. \A j \in Settled(map[c]) : hi[j].verify => hi'[j].verify
      BY <1>4, SettledEntries
    <3> QED
      BY <1>3, <1>5, <3>1, <3>2, <3>3, CpuSame DEF CpuUpdate
  <2> QED
    BY <1>3, <2>1, <2>2 DEF IInv, Updates
<1>17. TableIsolated'
  <2>1. \A j \in Entries : lo[j].p => hi'[j].sid = hi[j].sid
                                      /\ (hi[j].verify => hi'[j].verify)
    BY <1>2, <1>4
  <2> QED
    BY <1>3, <1>15, <2>1, TableSame
<1>18. CacheIsolated'
  BY <1>3, <1>15, CacheSame
<1> QED
  BY <1>9, <1>10, <1>11, <1>12, <1>13, <1>14, <1>16, <1>17, <1>18 DEF IInv

\* The manager passes from one task to another, and leaves the table alone.
LEMMA ManagerStep ==
  ASSUME IInv, UNCHANGED <<tableVars, cache, upd, map, owner>>,
         mgr.op # "sid", mgr'.op # "sid", upd[Manager].step = "none",
         \A c \in CPUs : map[c] # NoOne => mgr'.src # map[c]
  PROVE  /\ \A s : Settled(s)' = Settled(s)
         /\ Updates' /\ TableIsolated' /\ CacheIsolated'
<1>1. \A s : Settled(s)' = Settled(s)
  BY SettledSame
<1>2. UNCHANGED <<lo, hi, cache, upd, map, owner>>
  BY DEF tableVars
<1>3. Updates'
  <2>1. ManagerUpdate'
    BY <1>2 DEF ManagerUpdate
  <2>2. ASSUME NEW c \in CPUs PROVE CpuUpdate(c)'
    <3>1. CpuUpdate(c)
      BY DEF IInv, Updates
    <3>2. Settled(map[c]) \subseteq Settled(map[c])'
      BY <1>1, <1>2
    <3> QED
      BY <1>2, <3>1, <3>2, CpuSame
  <2> QED
    BY <1>2, <2>1, <2>2 DEF IInv, Updates
<1>4. TableIsolated'
  BY <1>1, <1>2, TableSame
<1>5. CacheIsolated'
  BY <1>1, <1>2, CacheSame
<1> QED
  BY <1>1, <1>3, <1>4, <1>5

\* All regions are whole but while one is reserved or given back.
LEMMA AllWhole ==
  ASSUME IInv, mgr.op \in {"idle", "chips", "tables"}
  PROVE  \A s \in Sources : Whole(s)
<1>1. mgr.src \in Sources => Whole(mgr.src)
  <2>1. CASE mgr.op = "idle"
    BY <2>1, RemapAssumption DEF IInv, ManagerIdle, NoOp, Sources
  <2>2. CASE mgr.op = "chips"
    BY <2>2, RemapAssumption DEF IInv, ManagerHasRegion, Sources
  <2>3. CASE mgr.op = "tables"
    BY <2>3 DEF IInv, ManagerHasRegion
  <2> QED
    BY <2>1, <2>2, <2>3
<1> QED
  BY <1>1 DEF IInv, Regions

\* The next entry to be cleared is the first of what is left of the region.
LEMMA FreeEntryIInv ==
  ASSUME IInv, FreeEntry
  PROVE  IInv'
<1> DEFINE new == [step |-> "lo", at |-> mgr.pos, lo |-> BlankLo, hi |-> BlankHi,
                   unit |-> 0]
<1>1. /\ mgr.op \in {"remove", "undo"} /\ mgr.left > 0
      /\ Manager \in Actors /\ upd[Manager] = NoUpdate
      /\ upd' = [upd EXCEPT ![Manager] = new]
      /\ mgr' = [mgr EXCEPT !.pos = mgr.pos + 1, !.left = mgr.left - 1]
      /\ UNCHANGED <<lo, hi, cache, map, owner, active, context, rooted, pages>>
  <2>1. upd' = [upd EXCEPT ![Manager] = new]
    BY DEF FreeEntry, StartUpdate, BlankLo
  <2> QED
    BY <2>1 DEF FreeEntry, tableVars, dmaVars, Actors
<1>2. /\ mgr.pos \in Nat /\ mgr.left \in Nat /\ mgr.pos \in Entries
      /\ mgr.pos + 1 \in 0 .. Limit /\ mgr.left - 1 \in Nat
      /\ (mgr.pos + 1) + (mgr.left - 1) = End /\ End <= Limit
      /\ mgr.src \in Devices
  <2>1. mgr.pos \in Nat /\ mgr.left \in Nat
    BY RemapAssumption DEF IInv, TypeOK
  <2>2. End <= Limit /\ mgr.src \in Devices
    BY <1>1 DEF IInv, ManagerFrees, Freeing
  <2> QED
    BY <1>1, <2>1, <2>2, RemapAssumption DEF End, Entries
<1>3. /\ mgr'.op = mgr.op /\ mgr'.src = mgr.src /\ mgr'.target = mgr.target
      /\ mgr'.pos = mgr.pos + 1 /\ mgr'.left = mgr.left - 1
      /\ End' = End
  <2>1. /\ mgr'.op = mgr.op /\ mgr'.src = mgr.src /\ mgr'.target = mgr.target
        /\ mgr'.pos = mgr.pos + 1 /\ mgr'.left = mgr.left - 1
    BY <1>1 DEF IInv, TypeOK
  <2> QED
    BY <1>2, <2>1 DEF End
<1>4. \A s : Settled(s)' = Settled(s)
  BY <1>1, <1>3, SettledSame DEF tableVars
<1>5. /\ upd'[Manager] = new /\ upd[Manager].step = "none"
      /\ \A a \in Actors \ {Manager} : upd'[a] = upd[a]
  BY <1>1 DEF IInv, TypeOK, NoUpdate
<1>6. TypeOK'
  <2>1. new \in [step : {"none", "hi", "lo", "invalidate"},
                 at : Entries, lo : Lo, hi : Hi, unit : UnitIds]
    BY <1>2, RemapAssumption DEF UnitIds, Lo, Hi, BlankLo, BlankHi
  <2>2. upd' \in [Actors -> [step : {"none", "hi", "lo", "invalidate"},
                             at : Entries, lo : Lo, hi : Hi, unit : UnitIds]]
    BY <1>1, <2>1, Zenon DEF IInv, TypeOK
  <2>3. mgr' \in [op : {"idle", "assign", "sid", "chips", "tables", "remove", "undo"},
                  src : Sources \cup {NoOne}, target : Targets \cup {NoOne},
                  pos : 0 .. Limit, left : Nat]
    BY <1>1, <1>2 DEF IInv, TypeOK
  <2> QED
    BY <1>1, <2>2, <2>3 DEF IInv, TypeOK
<1>7. Finite' /\ PagesAccounted' /\ Creation'
  BY <1>1, <1>3, AccountsSame DEF dmaVars
<1>8. ManagerIdle' /\ ManagerReserves' /\ ManagerHasRegion' /\ ManagedOwner'
  BY <1>1, <1>3 DEF IInv, ManagerIdle, ManagerReserves, ManagerHasRegion, ManagedOwner,
                    Reserving
<1>9. ManagerFrees'
  <2>1. Settled(mgr.src) = mgr.pos .. End - 1
    BY <1>1, <1>5 DEF IInv, ManagerFrees, Freeing
  <2>2. Settled(mgr.src)' = mgr.pos .. End - 1
    BY <1>3, <1>4, <2>1
  <2>3. upd'[Manager].step = "lo" /\ upd'[Manager].at = mgr.pos
    BY <1>5
  <2> QED
    BY <1>2, <1>3, <2>2, <2>3 DEF ManagerFrees
<1>10. Regions'
  BY <1>1, <1>3, <1>4 DEF IInv, Regions, Whole
<1>11. Updates'
  <2>1. \A b \in Actors : /\ upd'[b].step = "none" => upd'[b] = NoUpdate
                          /\ upd'[b].step # "invalidate" => upd'[b].unit = 0
    BY <1>5 DEF IInv, Updates
  <2>2. ManagerUpdate'
    BY <1>1, <1>2, <1>3, <1>5 DEF ManagerUpdate, Freeing
  <2>3. ASSUME NEW c \in CPUs PROVE CpuUpdate(c)'
    <3>1. upd'[c] = upd[c] /\ CpuUpdate(c)
      BY <1>5, RemapAssumption DEF IInv, Updates, Actors
    <3>2. Settled(map[c]) \subseteq Settled(map[c])'
      BY <1>1, <1>4
    <3> QED
      BY <1>1, <1>3, <3>1, <3>2, CpuSame DEF CpuUpdate
  <2> QED
    BY <2>1, <2>2, <2>3 DEF Updates
<1>12. TableIsolated'
  BY <1>1, <1>4, TableSame
<1>13. CacheIsolated'
  BY <1>1, <1>4, <1>5, CacheSame
<1> QED
  BY <1>6, <1>7, <1>8, <1>9, <1>10, <1>11, <1>12, <1>13 DEF IInv

\* vtd_reserve_int_remap_region has found a run of free entries, none of
\* which is present.
LEMMA ReserveStarts ==
  ASSUME IInv, NEW s \in Sources, NEW t \in Targets,
         mgr.op \in {"idle", "chips", "tables"}, NeedsRegion(s), Reserve(s, t),
         UNCHANGED <<tableVars, upd, owner>>
  PROVE  /\ mgr' \in [op : {"idle", "assign", "sid", "chips", "tables", "remove", "undo"},
                      src : Sources \cup {NoOne}, target : Targets \cup {NoOne},
                      pos : 0 .. Limit, left : Nat]
         /\ mgr'.op = "assign" /\ mgr'.src = s /\ mgr'.target = t
         /\ ManagerReserves'
<1> DEFINE n == Vectors[s]
           b == Min(Fits(n))
<1>1. n \in Nat /\ n > 0 /\ Region(s) = {}
  BY RemapAssumption DEF NeedsRegion, Sources
<1>2. b \in Fits(n)
  <2>1. Fits(n) \subseteq Nat /\ Fits(n) # {}
    BY DEF Fits, Entries, Reserve
  <2> QED
    BY <2>1, MinOfNats
<1>3. b \in Entries /\ b \in Nat /\ b + n <= Limit
      /\ \A j \in b .. b + n - 1 : ~ lo[j].assigned
  <2> HIDE DEF b, n
  <2>1. /\ b \in Entries /\ b + n <= Limit
        /\ \A j \in b .. b + n - 1 : ~ lo[j].assigned
    BY <1>2, Zenon DEF Fits
  <2> QED
    BY <2>1 DEF Entries
<1>4. mgr' = [op |-> "assign", src |-> s, target |-> t, pos |-> b, left |-> n]
  BY DEF Reserve
<1> HIDE DEF n, b
<1>5. /\ mgr'.op = "assign" /\ mgr'.src = s /\ mgr'.target = t
      /\ mgr'.pos = b /\ mgr'.left = n /\ End' = b + n /\ Vectors[mgr'.src] = n
  BY <1>4 DEF End, n
<1>6. mgr' \in [op : {"idle", "assign", "sid", "chips", "tables", "remove", "undo"},
                src : Sources \cup {NoOne}, target : Targets \cup {NoOne},
                pos : 0 .. Limit, left : Nat]
  <2>1. b \in 0 .. Limit
    BY <1>1, <1>3, RemapAssumption
  <2> QED
    BY <1>1, <1>4, <2>1
<1>7. ManagerReserves'
  <2>1. Settled(s) = {}
    BY <1>1, RegionIsSettled
  <2>2. Settled(mgr.src)' = {}
    BY <1>5, <2>1, SettledSame
  <2>3. (b + n) - n .. b - 1 = {}
    BY <1>1, <1>3
  <2>4. \A j \in b .. b + n - 1 : j \in Entries
    BY <1>1, <1>3, RemapAssumption DEF Entries
  <2>5. \A j \in Entries : lo[j].p => lo[j].assigned
    BY DEF IInv, TableIsolated, Settled
  <2>6. b .. b + n - 1 = b .. (b + n) - 1
    BY <1>1, <1>3
  <2>7. \A j \in b .. (b + n) - 1 : ~ lo'[j].p /\ ~ lo'[j].assigned
    BY <1>3, <2>4, <2>5, <2>6 DEF tableVars
  <2>8. n \in 1 .. n /\ n <= b + n
    BY <1>1, <1>3
  <2> QED
    BY <1>3, <1>5, <2>2, <2>3, <2>7, <2>8 DEF ManagerReserves
<1> QED
  BY <1>5, <1>6, <1>7

\* vtd_free_int_remap_region starts at the first entry of the region, and will
\* clear as many as the region has.
LEMMA FreeStarts ==
  ASSUME IInv, NEW d \in Devices, NEW op \in {"remove", "undo"},
         mgr.op # "sid", upd[Manager].step = "none", Whole(d), FreeRegion(op, d),
         UNCHANGED <<tableVars, upd, owner>>
  PROVE  /\ mgr' \in [op : {"idle", "assign", "sid", "chips", "tables", "remove", "undo"},
                      src : Sources \cup {NoOne}, target : Targets \cup {NoOne},
                      pos : 0 .. Limit, left : Nat]
         /\ mgr'.op = op /\ mgr'.src = d /\ mgr'.target = owner[d]
         /\ ManagerFrees'
<1> DEFINE n == Vectors[d]
<1>1. n \in Nat /\ d \in Sources /\ owner[d] \in Targets \cup {NoOne}
  BY RemapAssumption DEF Sources, IInv, TypeOK
<1>2. Region(d) = Settled(d)
  BY RegionIsSettled
<1>3. PICK p \in 0 .. Limit, l \in Nat :
         /\ mgr' = [op |-> op, src |-> d, target |-> owner[d], pos |-> p, left |-> l]
         /\ p + l <= Limit /\ Settled(d) = p .. (p + l) - 1
  <2>1. CASE Settled(d) = {}
    <3>1. mgr' = [op |-> op, src |-> d, target |-> owner[d], pos |-> 0, left |-> 0]
      BY <1>2, <2>1 DEF FreeRegion
    <3>2. 0 .. (0 + 0) - 1 = {}
      OBVIOUS
    <3>3. 0 \in 0 .. Limit /\ 0 \in Nat /\ 0 + 0 <= Limit
      BY RemapAssumption
    <3> WITNESS 0 \in 0 .. Limit, 0 \in Nat
    <3> QED
      BY <2>1, <3>1, <3>2, <3>3
  <2>2. CASE Settled(d) # {}
    <3>1. PICK b \in Entries : b + n <= Limit /\ Settled(d) = b .. b + n - 1
      BY <2>2 DEF Whole
    <3>2. b \in Nat /\ b \in 0 .. Limit /\ b + n - 1 \in Int
      BY <1>1, <3>1, RemapAssumption DEF Entries
    <3>3. b <= b + n - 1
      BY <1>1, <2>2, <3>1, <3>2
    <3>4. Min(Region(d)) = b
      BY <1>2, <3>1, <3>2, <3>3, MinOfRun
    <3>5. mgr' = [op |-> op, src |-> d, target |-> owner[d], pos |-> b, left |-> n]
      BY <1>2, <2>2, <3>4 DEF FreeRegion
    <3>6. b .. b + n - 1 = b .. (b + n) - 1
      BY <1>1, <3>2
    <3> QED
      BY <1>1, <3>1, <3>2, <3>5, <3>6
  <2> QED
    BY <2>1, <2>2
<1>4. /\ mgr'.op = op /\ mgr'.src = d /\ mgr'.target = owner[d]
      /\ mgr'.pos = p /\ End' = p + l
  BY <1>3 DEF End
<1>5. mgr' \in [op : {"idle", "assign", "sid", "chips", "tables", "remove", "undo"},
                src : Sources \cup {NoOne}, target : Targets \cup {NoOne},
                pos : 0 .. Limit, left : Nat]
  BY <1>1, <1>3
<1>6. ManagerFrees'
  <2>1. Settled(mgr.src)' = p .. (p + l) - 1
    BY <1>3, <1>4, SettledSame
  <2>2. upd'[Manager].step # "lo"
    OBVIOUS
  <2> QED
    BY <1>3, <1>4, <2>1, <2>2 DEF ManagerFrees
<1> QED
  BY <1>4, <1>5, <1>6

-----------------------------------------------------------------------------
(* Targets and devices                                                     *)

\* vtd_target_init takes a page before it looks at the chips.
LEMMA TargetInitIInv ==
  ASSUME IInv, NEW t \in Targets, TargetInit(t)
  PROVE  IInv'
<1>1. /\ mgr = NoOp /\ mgr.op = "idle" /\ mgr.src = NoOne /\ ~ Freeing /\ ~ Reserving
      /\ t \notin active /\ pages > 0
      /\ UNCHANGED <<tableVars, cache, upd, map, owner, active, context, rooted>>
  BY DEF TargetInit, NoOp, Freeing, Reserving
<1>2. /\ mgr'.op = "chips" /\ mgr'.src = NoOne /\ mgr'.target = t
      /\ mgr' \in [op : {"idle", "assign", "sid", "chips", "tables", "remove", "undo"},
                   src : Sources \cup {NoOne}, target : Targets \cup {NoOne},
                   pos : 0 .. Limit, left : Nat]
  <2>1. mgr' = [op |-> "chips", src |-> NoOne, target |-> t, pos |-> 0, left |-> 0]
    BY DEF TargetInit, NoOp
  <2>2. 0 \in 0 .. Limit
    BY RemapAssumption
  <2> QED
    BY <2>1, <2>2
<1>3. upd[Manager].step = "none"
  BY <1>1, ManagerQuiet
<1>4. \A c \in CPUs : map[c] # NoOne => mgr'.src # map[c]
  BY <1>2
<1>5. /\ \A s : Settled(s)' = Settled(s)
      /\ Updates' /\ TableIsolated' /\ CacheIsolated'
  BY <1>1, <1>2, <1>3, <1>4, ManagerStep
<1>6. NoOne \notin Chips /\ NoOne \notin Devices
  BY RemapAssumption
<1>7. Finite' /\ PagesAccounted' /\ pages' \in Nat
  <2>1. pages \in Nat /\ pages' = pages - 1 /\ pages' \in Nat
    BY <1>1, RemapAssumption DEF TargetInit, IInv, TypeOK
  <2>2. Cardinality(rooted) \in Nat /\ Cardinality(active) \in Nat
    BY FS_CardinalityType DEF IInv, Finite
  <2>3. pages + Cardinality(rooted) + Cardinality(active) + 0 = Pages
    BY <1>1, <1>6 DEF IInv, PagesAccounted
  <2>4. pages' + Cardinality(rooted) + Cardinality(active) + 1 = Pages
    BY <2>1, <2>2, <2>3
  <2> QED
    BY <1>1, <1>2, <2>1, <2>4 DEF IInv, Finite, PagesAccounted
<1>8. TypeOK'
  BY <1>1, <1>2, <1>7, PagesBounded DEF IInv, TypeOK, tableVars
<1>9. Creation' /\ ManagerIdle' /\ ManagerReserves' /\ ManagerHasRegion'
      /\ ManagerFrees' /\ ManagedOwner'
  BY <1>1, <1>2, <1>6 DEF Creation, ManagerIdle, ManagerReserves, ManagerHasRegion,
       ManagerFrees, ManagedOwner, Reserving, Freeing
<1>10. Regions'
  BY <1>1, <1>2, <1>5, <1>6 DEF IInv, Regions, Whole, Sources
<1> QED
  BY <1>5, <1>7, <1>8, <1>9, <1>10 DEF IInv

\* vtd_target_exit gives that page back.
LEMMA TargetExitIInv ==
  ASSUME IInv, NEW t \in Targets, TargetExit(t)
  PROVE  IInv'
<1>1. /\ mgr' = mgr /\ mgr.op = "idle" /\ mgr.src = NoOne /\ ~ Freeing
      /\ t \in active /\ active' = active \ {t} /\ pages' = pages + 1
      /\ UNCHANGED <<tableVars, cache, upd, map, owner, context, rooted>>
  BY DEF TargetExit, NoOp, Freeing
<1>2. UNCHANGED <<lo, hi, cache, upd, map, owner, context, rooted>>
  BY <1>1 DEF tableVars
<1>3. upd[Manager].step = "none"
  BY <1>1, ManagerQuiet
<1>4. \A c \in CPUs : map[c] # NoOne => mgr'.src # map[c]
  BY <1>1
<1>5. /\ \A s : Settled(s)' = Settled(s)
      /\ Updates' /\ TableIsolated' /\ CacheIsolated'
  BY <1>1, <1>3, <1>4, ManagerStep
<1>6. NoOne \notin Chips
  BY RemapAssumption
<1>7. Finite' /\ PagesAccounted' /\ pages' \in Nat
  <2>1. pages \in Nat /\ pages' \in Nat
    BY <1>1, RemapAssumption DEF IInv, TypeOK
  <2>2. /\ IsFiniteSet(active')
        /\ Cardinality(active') = Cardinality(active) - 1
    BY <1>1, FS_RemoveElement DEF IInv, Finite
  <2>3. Cardinality(rooted) \in Nat /\ Cardinality(active) \in Nat
    BY FS_CardinalityType DEF IInv, Finite
  <2>4. pages + Cardinality(rooted) + Cardinality(active) + 0 = Pages
    BY <1>1, <1>6 DEF IInv, PagesAccounted
  <2>5. pages' + Cardinality(rooted') + Cardinality(active') + 0 = Pages
    <3> HIDE DEF IInv
    <3>1. Cardinality(rooted') = Cardinality(rooted)
      BY <1>2
    <3> QED
      BY <1>1, <2>1, <2>2, <2>3, <2>4, <3>1
  <2> QED
    BY <1>1, <1>2, <1>6, <2>1, <2>2, <2>5 DEF IInv, Finite, PagesAccounted
<1>8. TypeOK'
  BY <1>1, <1>2, <1>7, PagesBounded DEF IInv, TypeOK
<1>9. Creation'
  BY <1>1, <1>6 DEF Creation
<1>10. /\ ManagerIdle' /\ ManagerReserves' /\ ManagerHasRegion' /\ ManagerFrees'
       /\ ManagedOwner' /\ Regions'
  BY <1>1, <1>2, <1>5, ManagerSame
<1> QED
  BY <1>5, <1>7, <1>8, <1>9, <1>10 DEF IInv

\* Nothing is half done: the manager has no device in hand.
LEMMA NoDeviceInHand ==
  ASSUME IInv, mgr.op \in {"idle", "chips"}
  PROVE  /\ mgr.src \notin Devices
         /\ \A s \in Sources : Whole(s)
         /\ \A d \in Devices :
              Settled(d) # {} <=> owner[d] # NoOne /\ Vectors[d] > 0
<1>1. mgr.src \notin Devices
  BY RemapAssumption DEF IInv, ManagerIdle, NoOp, ManagerHasRegion
<1> QED
  BY <1>1, AllWhole DEF IInv, Regions

\* The manager has come to an end, with all regions whole.
LEMMA ManagerDone ==
  ASSUME mgr' = NoOp, \A s \in Sources : Whole(s)',
         \A d \in Devices :
           Settled(d)' # {} <=> owner'[d] # NoOne /\ Vectors[d] > 0
  PROVE  /\ mgr' \in [op : {"idle", "assign", "sid", "chips", "tables", "remove", "undo"},
                      src : Sources \cup {NoOne}, target : Targets \cup {NoOne},
                      pos : 0 .. Limit, left : Nat]
         /\ Creation' /\ ManagerIdle' /\ ManagerReserves' /\ ManagerHasRegion'
         /\ ManagerFrees' /\ ManagedOwner' /\ Regions'
<1>1. /\ mgr'.op = "idle" /\ mgr'.src = NoOne
      /\ NoOne \notin Devices /\ NoOne \notin Chips
  BY RemapAssumption DEF NoOp
<1>2. mgr' \in [op : {"idle", "assign", "sid", "chips", "tables", "remove", "undo"},
                src : Sources \cup {NoOne}, target : Targets \cup {NoOne},
                pos : 0 .. Limit, left : Nat]
  <2>1. 0 \in 0 .. Limit
    BY RemapAssumption
  <2> QED
    BY <2>1 DEF NoOp
<1>3. Creation' /\ ManagerIdle' /\ ManagerReserves' /\ ManagerHasRegion'
      /\ ManagerFrees' /\ ManagedOwner'
  BY <1>1 DEF Creation, ManagerIdle, ManagerReserves, ManagerHasRegion,
       ManagerFrees, ManagedOwner, Reserving, Freeing
<1>4. Regions'
  BY DEF Regions
<1> QED
  BY <1>2, <1>3, <1>4

\* The chips that have no region yet get one, one after the other; when that
\* is not possible the page is given back.
LEMMA TargetInitChipsIInv ==
  ASSUME IInv, TargetInitChips
  PROVE  IInv'
<1>1. /\ mgr.op = "chips" /\ ~ Freeing /\ ~ Reserving
      /\ UNCHANGED <<tableVars, cache, upd, map, owner, context, rooted>>
  BY DEF TargetInitChips, Freeing, Reserving
<1>2. upd[Manager].step = "none" /\ mgr.target \in Targets /\ mgr.target \notin active
  BY <1>1, ManagerQuiet DEF IInv, ManagerHasRegion, Creation
<1>3. /\ mgr.src \notin Devices
      /\ \A s \in Sources : Whole(s)
      /\ \A d \in Devices :
           Settled(d) # {} <=> owner[d] # NoOne /\ Vectors[d] > 0
  BY <1>1, NoDeviceInHand
<1>4. \A c \in CPUs : map[c] \in Devices \cup {NoOne}
  BY DEF IInv, TypeOK
<1>5. pages \in Nat /\ Cardinality(rooted) \in Nat /\ Cardinality(active) \in Nat
      /\ pages + Cardinality(rooted) + Cardinality(active) + 1 = Pages
  BY <1>1, RemapAssumption, FS_CardinalityType DEF IInv, TypeOK, Finite, PagesAccounted
<1>6. ASSUME NEW s \in Chips, NeedsRegion(s), Reserve(s, mgr.target),
             UNCHANGED <<active, pages>>
      PROVE  IInv'
  <2>1. s \in Sources /\ s \notin Devices
    BY RemapAssumption DEF Sources
  <2>2. /\ mgr' \in [op : {"idle", "assign", "sid", "chips", "tables", "remove", "undo"},
                     src : Sources \cup {NoOne}, target : Targets \cup {NoOne},
                     pos : 0 .. Limit, left : Nat]
        /\ mgr'.op = "assign" /\ mgr'.src = s /\ mgr'.target = mgr.target
        /\ ManagerReserves'
    BY <1>1, <1>2, <1>6, <2>1, ReserveStarts
  <2>3. \A c \in CPUs : map[c] # NoOne => mgr'.src # map[c]
    BY <1>4, <2>1, <2>2
  <2>4. /\ \A t : Settled(t)' = Settled(t)
        /\ Updates' /\ TableIsolated' /\ CacheIsolated'
    BY <1>1, <1>2, <2>2, <2>3, ManagerStep
  <2>5. Finite' /\ PagesAccounted' /\ Creation'
    BY <1>1, <1>6, <2>2, AccountsSame DEF dmaVars
  <2>6. TypeOK'
    BY <1>1, <1>6, <2>2 DEF IInv, TypeOK, tableVars
  <2>7. ManagerIdle' /\ ManagerHasRegion' /\ ManagerFrees' /\ ManagedOwner'
    BY <2>1, <2>2 DEF ManagerIdle, ManagerHasRegion, ManagerFrees, ManagedOwner, Freeing
  <2>8. Regions'
    BY <1>1, <1>3, <2>4 DEF Regions, Whole
  <2> QED
    BY <2>2, <2>4, <2>5, <2>6, <2>7, <2>8 DEF IInv
<1>7. ASSUME mgr' = NoOp, active' \in SUBSET Targets, pages' \in Nat,
             IsFiniteSet(active'),
             pages' + Cardinality(rooted) + Cardinality(active') + 0 = Pages
      PROVE  IInv'
  <2>1. mgr'.op = "idle" /\ mgr'.src = NoOne /\ NoOne \notin Chips
    BY <1>7, RemapAssumption DEF NoOp
  <2>2. \A c \in CPUs : map[c] # NoOne => mgr'.src # map[c]
    BY <2>1
  <2>3. /\ \A t : Settled(t)' = Settled(t)
        /\ Updates' /\ TableIsolated' /\ CacheIsolated'
    BY <1>1, <1>2, <2>1, <2>2, ManagerStep
  <2>4. \A s \in Sources : Whole(s)'
    BY <1>3, <2>3 DEF Whole
  <2>5. \A d \in Devices : Settled(d)' # {} <=> owner'[d] # NoOne /\ Vectors[d] > 0
    BY <1>1, <1>3, <2>3
  <2>6. /\ mgr' \in [op : {"idle", "assign", "sid", "chips", "tables", "remove", "undo"},
                     src : Sources \cup {NoOne}, target : Targets \cup {NoOne},
                     pos : 0 .. Limit, left : Nat]
        /\ Creation' /\ ManagerIdle' /\ ManagerReserves' /\ ManagerHasRegion'
        /\ ManagerFrees' /\ ManagedOwner' /\ Regions'
    BY <1>7, <2>4, <2>5, ManagerDone
  <2>7. Finite' /\ PagesAccounted'
    <3>1. rooted' = {Bus[d] : d \in context'} /\ context' = {d \in Devices : owner'[d] # NoOne}
      BY <1>1 DEF IInv, PagesAccounted
    <3> QED
      BY <1>1, <1>7, <2>1, <3>1 DEF IInv, Finite, PagesAccounted
  <2>8. TypeOK'
    BY <1>1, <1>7, <2>6, <2>7, PagesBounded DEF IInv, TypeOK, tableVars
  <2> QED
    BY <2>3, <2>6, <2>7, <2>8 DEF IInv
<1>8. CASE \E s \in Chips : NeedsRegion(s) /\ Reserve(s, mgr.target)
                            /\ UNCHANGED <<active, pages>>
  BY <1>6, <1>8
<1>9. CASE mgr' = NoOp /\ pages' = pages + 1 /\ active' = active
  BY <1>5, <1>7, <1>9 DEF IInv, TypeOK, Finite
<1>10. CASE mgr' = NoOp /\ pages' = pages /\ active' = active \cup {mgr.target}
  <2>1. /\ IsFiniteSet(active')
        /\ Cardinality(active') = Cardinality(active) + 1
    BY <1>2, <1>10, FS_AddElement DEF IInv, Finite
  <2> QED
    BY <1>2, <1>5, <1>7, <1>10, <2>1 DEF IInv, TypeOK
<1> QED
  BY <1>8, <1>9, <1>10 DEF TargetInitChips

\* iommu_add_pci_device finds a region or goes on to the tables; no CPU is
\* programming a device that has no owner.
LEMMA AddDeviceIInv ==
  ASSUME IInv, NEW d \in Devices, NEW t \in Targets, AddDevice(d, t)
  PROVE  IInv'
<1>1. /\ mgr = NoOp /\ mgr.op = "idle" /\ mgr.src = NoOne /\ ~ Freeing
      /\ owner[d] = NoOne /\ t \in active
      /\ UNCHANGED <<tableVars, cache, upd, map, owner, active, context, rooted, pages>>
  BY DEF AddDevice, NoOp, Freeing, dmaVars
<1>2. upd[Manager].step = "none"
  BY <1>1, ManagerQuiet
<1>3. /\ \A s \in Sources : Whole(s)
      /\ \A e \in Devices :
           Settled(e) # {} <=> owner[e] # NoOne /\ Vectors[e] > 0
  BY <1>1, NoDeviceInHand
<1>4. d \in Sources /\ d \notin Chips /\ Settled(d) = {} /\ Region(d) = {}
      /\ NoOne \notin Chips /\ NoOne \notin Devices
      /\ Vectors[d] \in Nat
  BY <1>1, <1>3, RemapAssumption, RegionIsSettled DEF Sources
<1>5. \A c \in CPUs : map[c] # d
  BY <1>1, <1>4 DEF IInv, Updates, CpuUpdate
<1>6. /\ mgr' \in [op : {"idle", "assign", "sid", "chips", "tables", "remove", "undo"},
                   src : Sources \cup {NoOne}, target : Targets \cup {NoOne},
                   pos : 0 .. Limit, left : Nat]
      /\ mgr'.op \in {"assign", "tables"} /\ mgr'.src = d /\ mgr'.target = t
      /\ mgr'.op = "tables" => Vectors[d] = 0
      /\ ManagerReserves'
  <2>1. CASE NeedsRegion(d)
    <3>1. Reserve(d, t)
      BY <2>1 DEF AddDevice
    <3> QED
      BY <1>1, <1>4, <2>1, <3>1, ReserveStarts
  <2>2. CASE ~ NeedsRegion(d)
    <3>1. mgr' = [op |-> "tables", src |-> d, target |-> t, pos |-> 0, left |-> 0]
      BY <2>2 DEF AddDevice, NoOp
    <3>2. 0 \in 0 .. Limit
      BY RemapAssumption
    <3>3. mgr'.op = "tables" /\ mgr'.src = d /\ mgr'.target = t
      BY <3>1
    <3>4. mgr' \in [op : {"idle", "assign", "sid", "chips", "tables", "remove", "undo"},
                    src : Sources \cup {NoOne}, target : Targets \cup {NoOne},
                    pos : 0 .. Limit, left : Nat]
      BY <1>4, <3>1, <3>2
    <3>5. Vectors[d] = 0
      BY <1>4, <2>2 DEF NeedsRegion
    <3> QED
      BY <3>3, <3>4, <3>5 DEF ManagerReserves, Reserving
  <2> QED
    BY <2>1, <2>2
<1>7. /\ \A s : Settled(s)' = Settled(s)
      /\ Updates' /\ TableIsolated' /\ CacheIsolated'
  BY <1>1, <1>2, <1>5, <1>6, ManagerStep
<1>8. Finite' /\ PagesAccounted' /\ Creation'
  BY <1>1, <1>4, <1>6, AccountsSame DEF dmaVars
<1>9. TypeOK'
  BY <1>1, <1>6 DEF IInv, TypeOK, tableVars
<1>10. ManagerIdle' /\ ManagerFrees' /\ ManagedOwner'
  BY <1>1, <1>4, <1>6 DEF ManagerIdle, ManagerFrees, ManagedOwner, Freeing
<1>11. ManagerHasRegion'
  <2>1. Settled(d)' = {}
    BY <1>4, <1>7
  <2> QED
    BY <1>6, <2>1 DEF ManagerHasRegion, Whole
<1>12. Regions'
  BY <1>1, <1>3, <1>7 DEF Regions, Whole
<1> QED
  BY <1>6, <1>7, <1>8, <1>9, <1>10, <1>11, <1>12 DEF IInv

\* The device has an owner as soon as the tables have it; without a page its
\* region is given back.
LEMMA AddTablesIInv ==
  ASSUME IInv, AddTables
  PROVE  IInv'
<1> DEFINE d == mgr.src
           bus == Bus[d]
<1>1. /\ mgr.op = "tables" /\ ~ Freeing /\ ~ Reserving
      /\ UNCHANGED <<tableVars, cache, upd, map, active>>
  BY DEF AddTables, Freeing, Reserving
<1>2. /\ d \in Devices /\ mgr.target \in Targets /\ Whole(d) /\ owner[d] = NoOne
      /\ Settled(d) # {} <=> Vectors[d] > 0
  BY <1>1 DEF IInv, ManagerHasRegion, ManagedOwner
<1>3. d \in Sources /\ d \notin Chips /\ NoOne \notin Chips /\ NoOne \notin Devices
      /\ mgr.target # NoOne
  BY <1>2, RemapAssumption DEF Sources
<1>4. upd[Manager].step = "none"
  BY <1>1, ManagerQuiet
<1>5. \A c \in CPUs : /\ map[c] # d
                      /\ map[c] # NoOne => map[c] \in Devices /\ owner[map[c]] # NoOne
  BY <1>2, <1>3 DEF IInv, TypeOK, Updates, CpuUpdate
<1>6. \A s \in Sources : Whole(s)
  BY <1>1, AllWhole
<1>7. CASE bus \in rooted \/ pages > 0
  <2>1. /\ pages' = IF bus \in rooted THEN pages ELSE pages - 1
        /\ rooted' = rooted \cup {bus} /\ context' = context \cup {d}
        /\ owner' = [owner EXCEPT ![d] = mgr.target] /\ mgr' = NoOp
    BY <1>7 DEF AddTables
  <2>2. /\ owner'[d] = mgr.target
        /\ \A e \in Devices \ {d} : owner'[e] = owner[e]
    BY <1>2, <2>1 DEF IInv, TypeOK
  <2>3. mgr'.op = "idle" /\ mgr'.src = NoOne
    BY <2>1 DEF NoOp
  <2>4. \A s : Settled(s)' = Settled(s)
    BY <1>1, <2>3, SettledSame
  <2>5. \A s \in Sources : Whole(s)'
    BY <1>6, <2>4 DEF Whole
  <2>6. \A e \in Devices : Settled(e)' # {} <=> owner'[e] # NoOne /\ Vectors[e] > 0
    <3>1. \A e \in Devices \ {d} : Settled(e) # {} <=> owner[e] # NoOne /\ Vectors[e] > 0
      BY DEF IInv, Regions
    <3> QED
      BY <1>2, <1>3, <2>2, <2>4, <3>1
  <2>7. /\ mgr' \in [op : {"idle", "assign", "sid", "chips", "tables", "remove", "undo"},
                     src : Sources \cup {NoOne}, target : Targets \cup {NoOne},
                     pos : 0 .. Limit, left : Nat]
        /\ Creation' /\ ManagerIdle' /\ ManagerReserves' /\ ManagerHasRegion'
        /\ ManagerFrees' /\ ManagedOwner' /\ Regions'
    BY <2>1, <2>5, <2>6, ManagerDone
  <2>8. Finite' /\ PagesAccounted' /\ pages' \in Nat
    <3>1. /\ pages \in Nat /\ Cardinality(rooted) \in Nat /\ Cardinality(active) \in Nat
          /\ pages + Cardinality(rooted) + Cardinality(active) + 0 = Pages
      BY <1>1, <1>3, RemapAssumption, FS_CardinalityType
      DEF IInv, TypeOK, Finite, PagesAccounted
    <3>2. /\ IsFiniteSet(rooted')
          /\ Cardinality(rooted')
               = IF bus \in rooted THEN Cardinality(rooted) ELSE Cardinality(rooted) + 1
      BY <2>1, FS_AddElement DEF IInv, Finite
    <3>3. pages' \in Nat
          /\ pages' + Cardinality(rooted') + Cardinality(active) + 0 = Pages
      <4> HIDE DEF bus
      <4> QED
        BY <1>7, <2>1, <3>1, <3>2
    <3>4. context = {e \in Devices : owner[e] # NoOne} /\ rooted = {Bus[e] : e \in context}
      BY DEF IInv, PagesAccounted
    <3>5. context' = {e \in Devices : owner'[e] # NoOne}
      BY <1>2, <1>3, <2>1, <2>2, <3>4
    <3>6. rooted' = {Bus[e] : e \in context'}
      BY <2>1, <3>4
    <3>7. mgr'.op # "chips" /\ mgr'.src \notin Chips
      BY <1>3, <2>3
    <3> QED
      BY <1>1, <3>2, <3>3, <3>5, <3>6, <3>7 DEF IInv, Finite, PagesAccounted
  <2>9. TypeOK'
    <3>1. owner' \in [Devices -> Targets \cup {NoOne}]
      BY <1>2, <2>1 DEF IInv, TypeOK
    <3>2. context' \subseteq Devices /\ rooted' \subseteq {Bus[e] : e \in Devices}
      BY <1>2, <2>1 DEF IInv, TypeOK
    <3>3. pages' \in 0 .. Pages
      BY <2>8, PagesBounded
    <3> QED
      BY <1>1, <2>7, <3>1, <3>2, <3>3 DEF IInv, TypeOK, tableVars
  <2>10. Updates'
    <3>1. ManagerUpdate'
      BY <1>1, <1>4 DEF ManagerUpdate
    <3>2. ASSUME NEW c \in CPUs PROVE CpuUpdate(c)'
      <4>1. CpuUpdate(c)
        BY DEF IInv, Updates
      <4>2. map[c] # NoOne => owner'[map[c]] = owner[map[c]] /\ mgr'.src # map[c]
        BY <1>5, <2>2, <2>3
      <4>3. Settled(map[c]) \subseteq Settled(map[c])'
        BY <1>1, <2>4
      <4> QED
        BY <1>1, <4>1, <4>2, <4>3, CpuSame DEF tableVars
    <3> QED
      BY <1>1, <3>1, <3>2 DEF IInv, Updates
  <2>11. \A e \in Devices : owner[e] # NoOne => owner'[e] = owner[e]
    BY <1>2, <2>2
  <2>12. TableIsolated'
    BY <1>1, <2>4, <2>11, TableSame DEF tableVars
  <2>13. CacheIsolated'
    BY <1>1, <2>4, <2>11, CacheSame
  <2> QED
    BY <2>7, <2>8, <2>9, <2>10, <2>12, <2>13 DEF IInv
<1>8. CASE ~ (bus \in rooted \/ pages > 0)
  <2>1. FreeRegion("undo", d) /\ UNCHANGED <<pages, rooted, context, owner>>
    BY <1>8 DEF AddTables
  <2>2. /\ mgr' \in [op : {"idle", "assign", "sid", "chips", "tables", "remove", "undo"},
                     src : Sources \cup {NoOne}, target : Targets \cup {NoOne},
                     pos : 0 .. Limit, left : Nat]
        /\ mgr'.op = "undo" /\ mgr'.src = d
        /\ ManagerFrees'
    BY <1>1, <1>2, <1>4, <2>1, FreeStarts
  <2>3. /\ \A s : Settled(s)' = Settled(s)
        /\ Updates' /\ TableIsolated' /\ CacheIsolated'
    BY <1>1, <1>4, <1>5, <2>1, <2>2, ManagerStep
  <2>4. Finite' /\ PagesAccounted' /\ Creation'
    BY <1>1, <1>3, <2>1, <2>2, AccountsSame DEF dmaVars
  <2>5. TypeOK'
    BY <1>1, <2>1, <2>2 DEF IInv, TypeOK, tableVars
  <2>6. ManagerIdle' /\ ManagerReserves' /\ ManagerHasRegion' /\ ManagedOwner'
    BY <1>2, <2>1, <2>2 DEF ManagerIdle, ManagerReserves, ManagerHasRegion, ManagedOwner,
         Reserving
  <2>7. Regions'
    BY <2>1, <2>2, <2>3 DEF IInv, Regions, Whole
  <2> QED
    BY <2>2, <2>3, <2>4, <2>5, <2>6, <2>7 DEF IInv
<1> QED
  BY <1>7, <1>8

\* The device that could not be added has nothing left in the table.
LEMMA AddUndoneIInv ==
  ASSUME IInv, AddUndone
  PROVE  IInv'
<1> DEFINE d == mgr.src
<1>1. /\ mgr.op = "undo" /\ mgr.left = 0 /\ Freeing /\ ~ Reserving
      /\ upd[Manager].step = "none" /\ mgr' = NoOp
      /\ UNCHANGED <<tableVars, cache, upd, map, owner, active, context, rooted, pages>>
  BY DEF AddUndone, NoUpdate, Freeing, Reserving, dmaVars
<1>2. mgr'.op = "idle" /\ mgr'.src = NoOne /\ NoOne \notin Chips /\ NoOne \notin Devices
  BY <1>1, RemapAssumption DEF NoOp
<1>3. d \in Devices /\ owner[d] = NoOne /\ Settled(d) = {} /\ d \notin Chips
  <2>1. d \in Devices /\ Settled(d) = mgr.pos .. End - 1
    BY <1>1 DEF IInv, ManagerFrees
  <2>2. mgr.pos \in Nat
    BY RemapAssumption DEF IInv, TypeOK
  <2>3. mgr.pos .. End - 1 = {}
    BY <1>1, <2>2 DEF End
  <2>4. owner[d] = NoOne
    BY <1>1, <2>1 DEF IInv, ManagedOwner
  <2> QED
    BY <2>1, <2>3, <2>4, RemapAssumption
<1>4. \A c \in CPUs : map[c] # NoOne => mgr'.src # map[c]
  BY <1>2
<1>5. /\ \A s : Settled(s)' = Settled(s)
      /\ Updates' /\ TableIsolated' /\ CacheIsolated'
  BY <1>1, <1>2, <1>4, ManagerStep
<1>6. \A s \in Sources : Whole(s)'
  BY <1>3, <1>5 DEF IInv, Regions, Whole
<1>7. \A e \in Devices : Settled(e)' # {} <=> owner'[e] # NoOne /\ Vectors[e] > 0
  BY <1>1, <1>3, <1>5 DEF IInv, Regions
<1>8. /\ mgr' \in [op : {"idle", "assign", "sid", "chips", "tables", "remove", "undo"},
                   src : Sources \cup {NoOne}, target : Targets \cup {NoOne},
                   pos : 0 .. Limit, left : Nat]
      /\ Creation' /\ ManagerIdle' /\ ManagerReserves' /\ ManagerHasRegion'
      /\ ManagerFrees' /\ ManagedOwner' /\ Regions'
  BY <1>1, <1>6, <1>7, ManagerDone
<1>9. Finite' /\ PagesAccounted'
  BY <1>1, <1>2, <1>3, AccountsSame DEF dmaVars
<1>10. TypeOK'
  BY <1>1, <1>8 DEF IInv, TypeOK, tableVars
<1> QED
  BY <1>5, <1>8, <1>9, <1>10 DEF IInv

\* iommu_remove_pci_device, when no CPU is programming the device.
LEMMA RemoveDeviceIInv ==
  ASSUME IInv, NEW d \in Devices, RemoveDevice(d)
  PROVE  IInv'
<1>1. /\ mgr.op = "idle" /\ mgr.src = NoOne /\ ~ Freeing
      /\ owner[d] # NoOne /\ \A c \in CPUs : map[c] # d
      /\ FreeRegion("remove", d)
      /\ UNCHANGED <<tableVars, cache, upd, map, owner, active, context, rooted, pages>>
  BY DEF RemoveDevice, NoOp, Freeing, dmaVars
<1>2. upd[Manager].step = "none" /\ d \notin Chips /\ NoOne \notin Chips /\ d \in Sources
  BY <1>1, ManagerQuiet, RemapAssumption DEF Sources
<1>3. /\ \A s \in Sources : Whole(s)
      /\ \A e \in Devices :
           Settled(e) # {} <=> owner[e] # NoOne /\ Vectors[e] > 0
  BY <1>1, NoDeviceInHand
<1>4. /\ mgr' \in [op : {"idle", "assign", "sid", "chips", "tables", "remove", "undo"},
                   src : Sources \cup {NoOne}, target : Targets \cup {NoOne},
                   pos : 0 .. Limit, left : Nat]
      /\ mgr'.op = "remove" /\ mgr'.src = d
      /\ ManagerFrees'
  BY <1>1, <1>2, <1>3, FreeStarts
<1>5. /\ \A s : Settled(s)' = Settled(s)
      /\ Updates' /\ TableIsolated' /\ CacheIsolated'
  BY <1>1, <1>2, <1>4, ManagerStep
<1>6. Finite' /\ PagesAccounted' /\ Creation'
  BY <1>1, <1>2, <1>4, AccountsSame DEF dmaVars
<1>7. TypeOK'
  BY <1>1, <1>4 DEF IInv, TypeOK, tableVars
<1>8. ManagerIdle' /\ ManagerReserves' /\ ManagerHasRegion' /\ ManagedOwner'
  BY <1>1, <1>4 DEF ManagerIdle, ManagerReserves, ManagerHasRegion, ManagedOwner,
       Reserving
<1>9. Regions'
  BY <1>1, <1>3, <1>5 DEF Regions, Whole
<1> QED
  BY <1>4, <1>5, <1>6, <1>7, <1>8, <1>9 DEF IInv

\* The device loses its owner when neither the table nor a cache has an entry
\* of it any more.
LEMMA RemoveTablesIInv ==
  ASSUME IInv, RemoveTables
  PROVE  IInv'
<1> DEFINE d == mgr.src
           left == {e \in context \ {d} : Bus[e] = Bus[d]}
<1>1. /\ mgr.op = "remove" /\ mgr.left = 0 /\ Freeing
      /\ upd[Manager].step = "none" /\ mgr' = NoOp
      /\ context' = context \ {d}
      /\ rooted' = IF left = {} THEN rooted \ {Bus[d]} ELSE rooted
      /\ pages' = IF left = {} THEN pages + 1 ELSE pages
      /\ owner' = [owner EXCEPT ![d] = NoOne]
      /\ UNCHANGED <<lo, hi, cache, upd, map, active>>
  BY DEF RemoveTables, NoUpdate, Freeing, tableVars
<1>2. mgr'.op = "idle" /\ mgr'.src = NoOne /\ NoOne \notin Chips /\ NoOne \notin Devices
  BY <1>1, RemapAssumption DEF NoOp
<1>3. d \in Devices /\ owner[d] # NoOne /\ Settled(d) = {} /\ d \notin Chips
  <2>1. d \in Devices /\ Settled(d) = mgr.pos .. End - 1
    BY <1>1 DEF IInv, ManagerFrees
  <2>2. mgr.pos \in Nat
    BY RemapAssumption DEF IInv, TypeOK
  <2>3. mgr.pos .. End - 1 = {}
    BY <1>1, <2>2 DEF End
  <2>4. owner[d] # NoOne
    BY <1>1, <2>1 DEF IInv, ManagedOwner
  <2> QED
    BY <2>1, <2>3, <2>4, RemapAssumption
<1>4. owner'[d] = NoOne /\ \A e \in Devices \ {d} : owner'[e] = owner[e]
  BY <1>1, <1>3 DEF IInv, TypeOK
<1>5. \A s : Settled(s)' = Settled(s)
  BY <1>1, <1>2, SettledSame DEF tableVars
<1>6. \A s \in Sources : Whole(s)'
  BY <1>3, <1>5 DEF IInv, Regions, Whole
<1>7. \A e \in Devices : Settled(e)' # {} <=> owner'[e] # NoOne /\ Vectors[e] > 0
  BY <1>3, <1>4, <1>5 DEF IInv, Regions
<1>8. /\ mgr' \in [op : {"idle", "assign", "sid", "chips", "tables", "remove", "undo"},
                   src : Sources \cup {NoOne}, target : Targets \cup {NoOne},
                   pos : 0 .. Limit, left : Nat]
      /\ Creation' /\ ManagerIdle' /\ ManagerReserves' /\ ManagerHasRegion'
      /\ ManagerFrees' /\ ManagedOwner' /\ Regions'
  BY <1>1, <1>6, <1>7, ManagerDone
<1>9. Finite' /\ PagesAccounted' /\ pages' \in Nat
  <2>1. /\ pages \in Nat /\ Cardinality(rooted) \in Nat /\ Cardinality(active) \in Nat
        /\ pages + Cardinality(rooted) + Cardinality(active) + 0 = Pages
    BY <1>1, <1>3, RemapAssumption, FS_CardinalityType
    DEF IInv, TypeOK, Finite, PagesAccounted
  <2>2. context = {e \in Devices : owner[e] # NoOne} /\ rooted = {Bus[e] : e \in context}
    BY DEF IInv, PagesAccounted
  <2>3. Bus[d] \in rooted
    BY <1>3, <2>2
  <2>4. /\ IsFiniteSet(rooted')
        /\ Cardinality(rooted')
             = IF left = {} THEN Cardinality(rooted) - 1 ELSE Cardinality(rooted)
    BY <1>1, <2>3, FS_RemoveElement DEF IInv, Finite
  <2>5. pages' \in Nat
        /\ pages' + Cardinality(rooted') + Cardinality(active) + 0 = Pages
    <3> HIDE DEF left
    <3> QED
      BY <1>1, <2>1, <2>4
  <2>6. context' = {e \in Devices : owner'[e] # NoOne}
    BY <1>1, <1>4, <2>2
  <2>7. rooted' = {Bus[e] : e \in context'}
    <3>1. CASE left = {}
      BY <1>1, <2>2, <3>1
    <3>2. CASE left # {}
      BY <1>1, <2>2, <3>2
    <3> QED
      BY <3>1, <3>2
  <2> QED
    BY <1>1, <1>2, <2>4, <2>5, <2>6, <2>7 DEF IInv, Finite, PagesAccounted
<1>10. TypeOK'
  <2>1. owner' \in [Devices -> Targets \cup {NoOne}]
    BY <1>1 DEF IInv, TypeOK
  <2>2. pages' \in 0 .. Pages
    BY <1>9, PagesBounded
  <2> QED
    BY <1>1, <1>8, <2>1, <2>2 DEF IInv, TypeOK
<1>11. Updates'
  <2>1. ManagerUpdate'
    BY <1>1 DEF ManagerUpdate
  <2>2. ASSUME NEW c \in CPUs PROVE CpuUpdate(c)'
    <3>1. CpuUpdate(c)
      BY DEF IInv, Updates
    <3>2. map[c] # NoOne => owner'[map[c]] = owner[map[c]] /\ mgr'.src # map[c]
      BY <1>2, <1>4, <3>1 DEF CpuUpdate, IInv, TypeOK
    <3>3. Settled(map[c]) \subseteq Settled(map[c])'
      BY <1>1, <1>5
    <3> QED
      BY <1>1, <3>1, <3>2, <3>3, CpuSame
  <2> QED
    BY <1>1, <2>1, <2>2 DEF IInv, Updates
<1>12. TableIsolated'
  <2> SUFFICES ASSUME NEW i \in Entries, lo[i].p
               PROVE  Delivers(lo[i], hi[i])' /\ i \in Settled(hi[i].sid)'
    BY <1>1 DEF TableIsolated
  <2>1. Delivers(lo[i], hi[i]) /\ i \in Settled(hi[i].sid)
    BY DEF IInv, TableIsolated
  <2>2. hi[i].sid \in Devices \ {d}
    BY <1>3, <2>1 DEF Delivers, Isolates
  <2>3. owner'[hi[i].sid] = owner[hi[i].sid]
    BY <1>4, <2>2
  <2> QED
    BY <1>1, <1>5, <2>1, <2>3 DEF Delivers, Isolates
<1>13. CacheIsolated'
  <2> SUFFICES ASSUME NEW u \in UnitIds, NEW i \in Entries, cache[u][i] # <<>>
               PROVE  /\ Delivers(cache[u][i][1], cache[u][i][2])'
                      /\ i \in Settled(cache[u][i][2].sid)'
    BY <1>1 DEF CacheIsolated
  <2>1. Delivers(cache[u][i][1], cache[u][i][2]) /\ i \in Settled(cache[u][i][2].sid)
    BY <1>1 DEF IInv, CacheIsolated
  <2>2. cache[u][i][2].sid \in Devices \ {d}
    BY <1>3, <2>1 DEF Delivers, Isolates
  <2>3. owner'[cache[u][i][2].sid] = owner[cache[u][i][2].sid]
    BY <1>4, <2>2
  <2> QED
    BY <1>1, <1>5, <2>1, <2>3 DEF Delivers, Isolates
<1> QED
  BY <1>8, <1>9, <1>10, <1>11, <1>12, <1>13 DEF IInv

-----------------------------------------------------------------------------
(* iommu_map_interrupt                                                     *)

\* A CPU prepares an entry of the device's own region, for the device's own
\* target.  That the sid it compares is of a settled entry rests on Exclusive.
LEMMA MapInterruptIInv ==
  ASSUME Exclusive, IInv, NEW c \in CPUs, NEW d \in Devices, NEW v \in Entries,
         NEW msg \in Messages, MapInterrupt(c, d, v, msg)
  PROVE  IInv'
<1> DEFINE i == Min(Region(d)) + v
           newLo == IF msg.valid THEN [lo[i] EXCEPT !.p = TRUE, !.irq = msg.dest]
                                 ELSE [lo[i] EXCEPT !.p = FALSE]
           newHi == IF msg.valid THEN [hi[i] EXCEPT !.verify = TRUE] ELSE hi[i]
           new == [step |-> IF newLo.p THEN "hi" ELSE "lo",
                   at |-> i, lo |-> newLo, hi |-> newHi, unit |-> 0]
<1>1. /\ map[c] = NoOne /\ owner[d] # NoOne /\ mgr.src # d
      /\ mgr.op \notin {"assign", "sid"}
      /\ i < Limit /\ lo[i].assigned /\ hi[i].sid = d
      /\ msg.valid => msg.dest = owner[d]
      /\ upd' = [upd EXCEPT ![c] = new]
      /\ map' = [map EXCEPT ![c] = d]
      /\ UNCHANGED <<lo, hi, cache, mgr, owner, active, context, rooted, pages>>
  <2>1. upd' = [upd EXCEPT ![c] = new]
    BY DEF MapInterrupt, StartUpdate
  <2> QED
    BY <2>1, Exclusive DEF MapInterrupt, Accepted, tableVars, dmaVars
<1>2. i \in Entries
  <2>1. Region(d) \subseteq Nat /\ Region(d) # {}
    BY DEF MapInterrupt, Region, Entries
  <2>2. Min(Region(d)) \in Nat
    BY <2>1, MinOfNats
  <2>3. v \in Nat
    BY DEF Entries
  <2> HIDE DEF i
  <2>4. i \in Nat
    BY <2>2, <2>3 DEF i
  <2> QED
    BY <1>1, <2>4, RemapAssumption DEF Entries
<1> HIDE DEF i
<1>3. i \in Settled(d)
  BY <1>1, <1>2 DEF Settled
<1>4. lo[i] \in Lo /\ hi[i] \in Hi /\ msg.valid \in BOOLEAN /\ msg.dest \in Targets
  BY <1>2 DEF IInv, TypeOK, Messages
<1>5. newLo \in Lo /\ newHi \in Hi
  <2>1. [lo[i] EXCEPT !.p = TRUE, !.irq = msg.dest] \in Lo /\ [lo[i] EXCEPT !.p = FALSE] \in Lo
    BY <1>4, Zenon DEF Lo
  <2>2. [hi[i] EXCEPT !.verify = TRUE] \in Hi
    BY <1>4, Zenon DEF Hi
  <2> QED
    BY <1>4, <2>1, <2>2, Zenon
<1>6. /\ newLo.assigned
      /\ newLo.p <=> msg.valid
      /\ newLo.p => newLo.irq = owner[d]
      /\ newHi.sid = d
      /\ newLo.p => newHi.verify
  BY <1>1, <1>4 DEF Lo, Hi
<1> HIDE DEF newLo, newHi
<1>7. new \in [step : {"none", "hi", "lo", "invalidate"},
               at : Entries, lo : Lo, hi : Hi, unit : UnitIds]
  BY <1>2, <1>5, RemapAssumption DEF UnitIds
<1>8. /\ c \in Actors /\ upd'[c] = new /\ map'[c] = d
      /\ \A a \in Actors \ {c} : upd'[a] = upd[a]
      /\ \A b \in CPUs \ {c} : map'[b] = map[b]
      /\ Manager \in Actors \ {c}
  BY <1>1, RemapAssumption DEF IInv, TypeOK, Actors
<1>9. TypeOK'
  <2>1. upd' \in [Actors -> [step : {"none", "hi", "lo", "invalidate"},
                             at : Entries, lo : Lo, hi : Hi, unit : UnitIds]]
    BY <1>1, <1>7, Zenon DEF IInv, TypeOK
  <2>2. map' \in [CPUs -> Devices \cup {NoOne}]
    BY <1>1 DEF IInv, TypeOK
  <2> QED
    BY <1>1, <2>1, <2>2 DEF IInv, TypeOK
<1>10. \A s : Settled(s)' = Settled(s)
  BY <1>1, SettledSame DEF tableVars
<1>11. Finite' /\ PagesAccounted' /\ Creation'
  BY <1>1, AccountsSame DEF dmaVars
<1>12. upd'[Manager] = upd[Manager]
  BY <1>8
<1>13. /\ ManagerIdle' /\ ManagerReserves' /\ ManagerHasRegion' /\ ManagerFrees'
       /\ ManagedOwner' /\ Regions'
  BY <1>1, <1>10, <1>12, ManagerSame
<1>14. Updates'
  <2>1. \A a \in Actors : /\ upd'[a].step = "none" => upd'[a] = NoUpdate
                          /\ upd'[a].step # "invalidate" => upd'[a].unit = 0
    BY <1>8 DEF IInv, Updates
  <2>2. ManagerUpdate'
    BY <1>1, <1>12 DEF IInv, Updates, ManagerUpdate, Freeing
  <2>3. CpuUpdate(c)'
    <3>1. d # NoOne /\ i \in Settled(d)'
      BY <1>3, <1>10, RemapAssumption
    <3>2. upd'[c].step = "hi" <=> newLo.p
      BY <1>8
    <3>3. upd'[c].step \in {"hi", "lo"} /\ upd'[c].at = i
          /\ upd'[c].lo = newLo /\ upd'[c].hi = newHi
      BY <1>8
    <3> HIDE DEF new
    <3> QED
      BY <1>1, <1>6, <1>8, <3>1, <3>2, <3>3 DEF CpuUpdate
  <2>4. ASSUME NEW b \in CPUs \ {c} PROVE CpuUpdate(b)'
    <3>1. upd'[b] = upd[b] /\ map'[b] = map[b] /\ CpuUpdate(b)
      BY <1>8 DEF Actors, IInv, Updates
    <3>2. Settled(map[b]) \subseteq Settled(map[b])'
      BY <1>10, <3>1
    <3> QED
      BY <1>1, <3>1, <3>2, CpuSame DEF CpuUpdate
  <2> QED
    BY <2>1, <2>2, <2>3, <2>4 DEF Updates
<1>15. TableIsolated'
  BY <1>1, <1>10, TableSame
<1>16. CacheIsolated'
  BY <1>1, <1>10, <1>12, CacheSame
<1> QED
  BY <1>9, <1>11, <1>13, <1>14, <1>15, <1>16 DEF IInv

LEMMA MapReturnIInv ==
  ASSUME IInv, NEW c \in CPUs, MapReturn(c)
  PROVE  IInv'
<1>1. /\ upd[c] = NoUpdate /\ upd[c].step = "none"
      /\ map' = [map EXCEPT ![c] = NoOne]
      /\ UNCHANGED <<lo, hi, cache, upd, mgr, owner, active, context, rooted, pages>>
  BY DEF MapReturn, NoUpdate, tableVars, dmaVars
<1>2. map'[c] = NoOne /\ \A b \in CPUs \ {c} : map'[b] = map[b]
  BY <1>1 DEF IInv, TypeOK
<1>3. TypeOK'
  BY <1>1 DEF IInv, TypeOK
<1>4. \A s : Settled(s)' = Settled(s)
  BY <1>1, SettledSame DEF tableVars
<1>5. Finite' /\ PagesAccounted' /\ Creation'
  BY <1>1, AccountsSame DEF dmaVars
<1>6. /\ ManagerIdle' /\ ManagerReserves' /\ ManagerHasRegion' /\ ManagerFrees'
      /\ ManagedOwner' /\ Regions'
  BY <1>1, <1>4, ManagerSame
<1>7. Updates'
  <2>1. ManagerUpdate'
    BY <1>1 DEF IInv, Updates, ManagerUpdate, Freeing
  <2>2. CpuUpdate(c)'
    BY <1>1, <1>2 DEF CpuUpdate
  <2>3. ASSUME NEW b \in CPUs \ {c} PROVE CpuUpdate(b)'
    <3>1. map'[b] = map[b] /\ CpuUpdate(b)
      BY <1>2 DEF IInv, Updates
    <3>2. Settled(map[b]) \subseteq Settled(map[b])'
      BY <1>4, <3>1
    <3> QED
      BY <1>1, <3>1, <3>2, CpuSame DEF CpuUpdate
  <2> QED
    BY <1>1, <2>1, <2>2, <2>3 DEF IInv, Updates
<1>8. TableIsolated'
  BY <1>1, <1>4, TableSame
<1>9. CacheIsolated'
  BY <1>1, <1>4, CacheSame
<1> QED
  BY <1>3, <1>5, <1>6, <1>7, <1>8, <1>9 DEF IInv

-----------------------------------------------------------------------------
(* The invariant and what it implies                                       *)

LEMMA NextIInv ==
  ASSUME Exclusive, IInv, Next
  PROVE  IInv'
<1>1. ASSUME NEW a \in Actors, WriteLo(a) PROVE IInv'
  BY <1>1, WriteLoOfCpu, WriteLoOfManager DEF Actors
<1>2. ASSUME NEW c \in CPUs, NEW d \in Devices, NEW v \in Entries, NEW msg \in Messages,
             MapInterrupt(c, d, v, msg)
      PROVE  IInv'
  BY <1>2, Exclusive, MapInterruptIInv
<1>3. ASSUME NEW t \in Targets, TargetInit(t) \/ TargetExit(t) PROVE IInv'
  BY <1>3, TargetInitIInv, TargetExitIInv
<1>4. CASE ReserveAssign \/ ReserveSid \/ FreeEntry
  BY <1>4, ReserveAssignIInv, ReserveSidIInv, FreeEntryIInv
<1>5. CASE TargetInitChips \/ AddTables \/ AddUndone \/ RemoveTables
  BY <1>5, TargetInitChipsIInv, AddTablesIInv, AddUndoneIInv, RemoveTablesIInv
<1>6. CASE \/ \E a \in Actors : WriteHi(a) \/ Invalidate(a)
           \/ \E u \in UnitIds, i \in Entries : Load(u, i)
  BY <1>6, WriteHiIInv, InvalidateIInv, LoadIInv
<1>7. CASE \/ \E d \in Devices, t \in Targets : AddDevice(d, t)
           \/ \E d \in Devices : RemoveDevice(d)
           \/ \E c \in CPUs : MapReturn(c)
  BY <1>7, AddDeviceIInv, RemoveDeviceIInv, MapReturnIInv
<1> QED
  BY <1>1, <1>2, <1>3, <1>4, <1>5, <1>6, <1>7 DEF Next

LEMMA StutterIInv ==
  ASSUME IInv, UNCHANGED vars
  PROVE  IInv'
<1>1. UNCHANGED <<lo, hi, cache, upd, map, mgr, owner, active, context, rooted, pages>>
  BY DEF vars, tableVars, dmaVars
<1>2. \A s : Settled(s)' = Settled(s)
  BY <1>1, SettledSame DEF tableVars
<1>3. TypeOK'
  BY <1>1 DEF IInv, TypeOK
<1>4. Finite' /\ PagesAccounted' /\ Creation'
  BY <1>1, AccountsSame DEF dmaVars
<1>5. /\ ManagerIdle' /\ ManagerReserves' /\ ManagerHasRegion' /\ ManagerFrees'
      /\ ManagedOwner' /\ Regions'
  BY <1>1, <1>2, ManagerSame
<1>6. Updates'
  <2>1. ManagerUpdate'
    BY <1>1 DEF IInv, Updates, ManagerUpdate, Freeing
  <2>2. ASSUME NEW c \in CPUs PROVE CpuUpdate(c)'
    <3>1. CpuUpdate(c)
      BY DEF IInv, Updates
    <3>2. Settled(map[c]) \subseteq Settled(map[c])'
      BY <1>1, <1>2
    <3> QED
      BY <1>1, <3>1, <3>2, CpuSame DEF CpuUpdate
  <2> QED
    BY <1>1, <2>1, <2>2 DEF IInv, Updates
<1>7. TableIsolated'
  BY <1>1, <1>2, TableSame
<1>8. CacheIsolated'
  BY <1>1, <1>2, CacheSame
<1> QED
  BY <1>3, <1>4, <1>5, <1>6, <1>7, <1>8 DEF IInv

LEMMA SpecIInv == ASSUME Exclusive PROVE Spec => []IInv
<1>1. IInv /\ [Next]_vars => IInv'
  BY Exclusive, NextIInv, StutterIInv
<1> QED
  BY <1>1, InitIInv, PTL DEF Spec

LEMMA WholeRegion ==
  ASSUME IInv, mgr = NoOp, NEW s \in Sources, Region(s) # {}
  PROVE  /\ Cardinality(Region(s)) = Vectors[s]
         /\ Max(Region(s)) - Min(Region(s)) + 1 = Vectors[s]
<1> DEFINE n == Vectors[s]
<1>1. mgr.op = "idle"
  BY DEF NoOp
<1>2. Whole(s) /\ Region(s) = Settled(s)
  BY <1>1, NoDeviceInHand, RegionIsSettled
<1>3. PICK b \in Entries : b + n <= Limit /\ Region(s) = b .. b + n - 1
  BY <1>2 DEF Whole
<1>4. n \in Nat /\ b \in Nat /\ b + n - 1 \in Int
  BY <1>3, RemapAssumption DEF Sources, Entries
<1> HIDE DEF n
<1>5. b <= b + n - 1
  BY <1>3, <1>4
<1>6. Min(Region(s)) = b /\ Max(Region(s)) = b + n - 1
  BY <1>3, <1>4, <1>5, MinOfRun, MaxOfRun
<1>7. Cardinality(b .. b + n - 1) = n
  <2>1. Cardinality(b .. b + n - 1) = IF b > b + n - 1 THEN 0 ELSE (b + n - 1) - b + 1
    BY <1>4, FS_Interval
  <2> QED
    BY <1>4, <1>5, <2>1
<1>8. Cardinality(Region(s)) = n
  BY <1>3, <1>7
<1>9. (b + n - 1) - b + 1 = n
  BY <1>4
<1> QED
  BY <1>6, <1>8, <1>9 DEF n

\* The state of the table, the caches and the management keeps its types, the
\* positions stay inside the table and the pages inside the pool.
THEOREM RemapTypeCorrect == ASSUME Exclusive PROVE Spec => []TypeOK
<1>1. IInv => TypeOK
  BY DEF IInv
<1> QED
  BY <1>1, SpecIInv, PTL

\* No interrupt leaves its target: whatever the table or a cache holds, while
\* vtd_update_irte writes the two halves of entries and regions change hands,
\* sends the interrupts of a device to the target that owns it.
THEOREM IsolationHolds == ASSUME Exclusive PROVE Spec => []Isolation
<1>1. IInv => Isolation
  BY DEF IInv, TableIsolated, CacheIsolated, Delivers, Isolation
<1> QED
  BY <1>1, SpecIInv, PTL

\* vtd_reserve_int_remap_region and vtd_free_int_remap_region leave whole
\* regions: of an added device, one run as long as it has vectors, and of a
\* device that was removed or could not be added, nothing.
THEOREM RegionsWholeHolds == ASSUME Exclusive PROVE Spec => []RegionsWhole
<1>1. IInv => RegionsWhole
  <2> SUFFICES ASSUME IInv, mgr = NoOp
               PROVE  /\ \A s \in Sources :
                           \/ Region(s) = {}
                           \/ /\ Cardinality(Region(s)) = Vectors[s]
                              /\ Max(Region(s)) - Min(Region(s)) + 1 = Vectors[s]
                      /\ \A d \in Devices :
                           Region(d) # {} <=> owner[d] # NoOne /\ Vectors[d] > 0
    BY DEF RegionsWhole
  <2>1. mgr.op = "idle"
    BY DEF NoOp
  <2>2. \A d \in Devices : Region(d) # {} <=> owner[d] # NoOne /\ Vectors[d] > 0
    BY <2>1, NoDeviceInHand, RegionIsSettled
  <2> QED
    BY <2>2, WholeRegion
<1> QED
  BY <1>1, SpecIInv, PTL

\* mem_pool loses no page: the free ones, the context tables of buses with a
\* device and the page tables of targets are the whole pool, after failed
\* operations too.
THEOREM PagesAccountedHolds == ASSUME Exclusive PROVE Spec => []PagesAccounted
<1>1. IInv => PagesAccounted
  BY DEF IInv
<1> QED
  BY <1>1, SpecIInv, PTL
=============================================================================
