------------------------ MODULE UnitHandover_proofs ------------------------
(***************************************************************************)
(* UnitHandover for every number of units, length of the queues, and       *)
(* configuration of the units by Linux: its descriptors are served once    *)
(* and in order until the head of the unit is lost, the tables in force    *)
(* are the ones a unit has read, fault messages are whole, and Linux gets  *)
(* the units back as it believes them to be, unless vtd_init has accepted  *)
(* units that are not uniform.                                             *)
(***************************************************************************)
EXTENDS UnitHandover, SequenceTheorems, TLAPS

\* The slot of the ring that is to be served next.
Position(u) == Len(log[u]) % QSize

\* What has been carried out is a prefix of what Linux has submitted, and the
\* rest is in the ring.
InOrder(u) ==
  /\ Len(log[u]) <= sent[u] /\ sent[u] - Len(log[u]) < QSize
  /\ \A i \in 1 .. Len(log[u]) : log[u][i] = i
  /\ \A i \in Len(log[u]) + 1 .. sent[u] : ring[u][(i - 1) % QSize] = i

Pending(u) ==
  /\ u \notin lost => InOrder(u)
  /\ linux[u] # "on" => sent[u] = 0 /\ u \notin lost

\* All of it has been carried out.
Served(u) == u \notin lost => Len(log[u]) = sent[u]

\* The unit fetches from where it has come to, up to where Linux writes.
InPlace(u) ==
  u \notin lost => reg[u].head = Position(u) /\ reg[u].tail = LinuxTail(u)

\* The configurations that vtd_init accepts although they are not uniform: a
\* unit that Linux does not remap with, before one that it does.
LateIR ==
  \E u, v \in UnitIds :
    /\ u < v /\ linux[u] = "off" /\ linux[v] = "on"
    /\ \A w \in UnitIds : w < v => linux[w] # "other"

\* A unit that belongs to Linux.
LinuxSide(u) ==
  LET r == reg[u] IN
  /\ r.te <=> linux[u] = "other"
  /\ r.qie => InPlace(u) /\ r.iqa # "spy"
  /\ r.ire => "int" \in r.fresh
  /\ linux[u] = "on" => /\ r.qie /\ r.ire
                        /\ r.irta = "linux" /\ r.irt = "linux" /\ r.iqa = "linux"
  /\ linux[u] = "off" /\ ~ LateIR => ~ r.qie /\ ~ r.ire

\* vtd_init has looked at the unit.
Recorded(u) ==
  /\ linux[u] # "other" /\ emu[u].iqa # "spy"
  /\ u \notin lost => emu[u].iqh = Position(u)
  /\ linux[u] = "on" => /\ ir /\ emu[u].iqa = "linux" /\ emu[u].irta = "linux"
                        /\ emu[u].im = mask[u]
  /\ linux[u] = "off" /\ ~ LateIR => ~ ir

\* A unit that belongs to the hypervisor.
SpySide(u) ==
  LET r == reg[u] IN
  /\ r.te /\ r.ire /\ r.qie
  /\ r.root = "spy" /\ r.irta = "spy" /\ r.irt = "spy" /\ r.iqa = "spy"
  /\ r.head = r.tail
  /\ Caches \subseteq r.fresh

\* The unit has two descriptors to fetch, and has done the request when it
\* has one or none left.
Answering(u, cache) ==
  LET left == (reg[u].tail - reg[u].head) % QSize IN
  left \in 0 .. 2 /\ (left < 2 => cache \in reg[u].fresh)

\* Before statement k of vtd_init_unit; p: the CPU polls for its answer.
Committing(u, k, p) ==
  LET r == reg[u] IN
  /\ k = 1 => LinuxSide(u)
  /\ r.te <=> k > 10
  /\ k <= 2 => (r.ire => "int" \in r.fresh)
  /\ k >= 3 => ~ r.ire
  /\ k \in 2 .. 6 => ~ r.qie /\ r.head = 0
  /\ k >= 7 => r.qie
  /\ k >= 4 => r.root = "spy"
  /\ k >= 5 => r.irta = "spy" /\ r.irt = "spy"
  /\ k >= 6 => r.iqa = "spy" /\ (~ p => r.head = r.tail)
  /\ k >= 8 => "context" \in r.fresh
  /\ k >= 9 => "iotlb" \in r.fresh
  /\ k >= 10 => "int" \in r.fresh
  /\ p => k \in 7 .. 9 /\ Answering(u, Commit[k][2])

\* Before statement k of iommu_prepare_shutdown and vtd_restore_ir.
Stopping(u, k, p) ==
  LET r == reg[u] IN
  /\ k = 1 => SpySide(u)
  /\ k >= 2 => ~ r.te
  /\ k = 2 => "int" \in r.fresh
  /\ k \in 3 .. 9 => ~ r.ire
  /\ k <= 5 => r.qie /\ r.iqa = "spy" /\ (~ p => r.head = r.tail)
  /\ k >= 4 /\ linux[u] = "on" => r.irta = "linux" /\ r.irt = "linux"
  /\ k >= 5 => "int" \in r.fresh
  /\ k \in 6 .. 7 => ~ r.qie /\ r.head = 0
  /\ k >= 7 => r.iqa = emu[u].iqa
  /\ k = 7 => r.tail = 0
  /\ k >= 8 => r.qie
  /\ k = 8 => \/ r.head = r.tail
              \/ p /\ r.tail = (r.head + 1) % QSize /\ ring[u][r.head] = 0
  /\ k >= 9 => InPlace(u)
  /\ k >= 10 => r.ire
  /\ p => k = 8 \/ (k = 4 /\ Answering(u, "int"))

\* The unit of the loop, before statement k of the routine, and the units that
\* the loop has still to come to, and has behind it.
Place(op, u, k, p) ==
  /\ op = "faults" => LinuxSide(u) /\ ~ p
  /\ op = "commit" => Committing(u, k, p)
  /\ op = "shutdown" => Stopping(u, k, p)

Ahead(op, u) == IF op = "shutdown" THEN SpySide(u) ELSE LinuxSide(u)

Behind(op, u) == IF op = "commit" THEN SpySide(u) ELSE LinuxSide(u)

\* What the part of the program that runs implies for a unit.
Unit(u) ==
  /\ pc.op = "linux" => LinuxSide(u)
  /\ pc.op = "init" => /\ LinuxSide(u)
                       /\ u < pc.unit => Recorded(u) /\ Served(u)
                       /\ u >= pc.unit => emu[u] = NoEmulation
  /\ pc.op = "run" => Recorded(u) /\ SpySide(u)
  /\ pc.op \in Routines =>
       /\ Recorded(u)
       /\ Served(u)
       /\ u > pc.unit => Ahead(pc.op, u)
       /\ u = pc.unit => Place(pc.op, u, pc.at, pc.polling)
       /\ u < pc.unit => Behind(pc.op, u)

\* The message of a unit's fault event is of one owner, or the event is masked
\* while statements 2 to 5 of vtd_init_fault_nmi or the last of vtd_restore_ir
\* replace it.
Whole(r) == \A n, k \in 1 .. 3 : r.fe[n] = r.fe[k]

Message(op, r, k) ==
  /\ op = "faults" /\ k > 1 => /\ r.im
                               /\ k > 2 => r.fe[1] = "spy"
                               /\ k > 3 => r.fe[2] = "spy"
                               /\ k > 4 => r.fe[3] = "spy"
  /\ op = "shutdown" /\ k > 10 => /\ r.im
                                  /\ k > 11 => r.fe[3] = "linux"
                                  /\ k > 12 => r.fe[2] = "linux"
                                  /\ k > 13 => r.fe[1] = "linux"
  /\ ~ (op = "faults" /\ k > 1) /\ ~ (op = "shutdown" /\ k > 10) => Whole(r)

\* The fault event is Linux's.
Returned(u) ==
  linux[u] = "on" =>
    reg[u].im = mask[u] /\ \A n \in 1 .. 3 : reg[u].fe[n] = "linux"

Event(u) ==
  /\ IF pc.op \in Routines /\ u = pc.unit
     THEN Message(pc.op, reg[u], pc.at) ELSE Whole(reg[u])
  /\ pc.op \in {"linux", "init"} \/ (pc.op = "shutdown" /\ u < pc.unit)
       => Returned(u)

\* Linux waits for the emulation of what it has submitted.
Trapped(u) ==
  /\ trap[u] # "none" => pc.op = "run"
  /\ pc.op = "run" /\ trap[u] = "none" => Served(u)

Flags ==
  /\ pc.op \in {"init", "faults", "commit"} => ~ ready
  /\ pc.op \in {"run", "shutdown"} => ready

PcOK ==
  /\ pc \in [op : Routines \cup {"linux", "init", "run"}, unit : UnitIds,
             at : Nat, polling : BOOLEAN]
  /\ pc.op \in Routines => pc.at \in 1 .. Len(Program(pc.op))
  /\ pc.op \notin Routines => pc.at = 1
  /\ pc.polling => pc.op \in {"commit", "shutdown"}

\* The inductive invariant.
IInv ==
  /\ TypeOK
  /\ log \in [UnitIds -> Seq(0 .. MaxRequests)]
  /\ PcOK
  /\ Flags
  /\ \A u \in UnitIds : Pending(u) /\ Unit(u) /\ Event(u) /\ Trapped(u)

\* A step leaves a unit alone.
SameUnit(u) ==
  /\ reg'[u] = reg[u] /\ ring'[u] = ring[u] /\ sent'[u] = sent[u]
  /\ log'[u] = log[u] /\ emu'[u] = emu[u] /\ trap'[u] = trap[u]
  /\ mask'[u] = mask[u] /\ (u \in lost' <=> u \in lost)

Registers ==
  [te : BOOLEAN, ire : BOOLEAN, qie : BOOLEAN, root : Owners,
   irta : Owners, irt : Owners, iqa : Owners, head : Index, tail : Index,
   fresh : SUBSET Caches, im : BOOLEAN, fe : [1 .. 3 -> Owners]]

-----------------------------------------------------------------------------
(***************************************************************************)
(* Positions in a ring.                                                    *)
(***************************************************************************)
LEMMA Remainder ==
  ASSUME NEW q \in Nat \ {0}, NEW k \in Int, NEW r \in 0 .. q - 1
  PROVE  (q * k + r) % q = r
  OBVIOUS

LEMMA Quotient ==
  ASSUME NEW q \in Nat \ {0}, NEW a \in Int
  PROVE  /\ a % q \in 0 .. q - 1
         /\ a \div q \in Int
         /\ a = q * (a \div q) + (a % q)
  OBVIOUS

\* The position after another descriptor.
LEMMA NextIndex ==
  ASSUME NEW q \in Nat \ {0}, NEW a \in Nat
  PROVE  /\ (a + 1) % q = IF (a % q) + 1 = q THEN 0 ELSE (a % q) + 1
         /\ (a + 1) % q = ((a % q) + 1) % q
<1> DEFINE k == a \div q
           r == a % q
<1>1. r \in 0 .. q - 1 /\ k \in Int /\ a = q * k + r
  BY Quotient
<1> HIDE DEF k, r
<1>2. CASE r + 1 < q
  <2>1. r + 1 \in 0 .. q - 1
    BY <1>1, <1>2
  <2>2. a + 1 = q * k + (r + 1)
    BY <1>1
  <2>3. (a + 1) % q = r + 1
    BY <1>1, <2>1, <2>2, Remainder
  <2>4. (r + 1) % q = r + 1
    <3>1. q * 0 + (r + 1) = r + 1
      BY <1>1
    <3>2. (q * 0 + (r + 1)) % q = r + 1
      BY <2>1, Remainder
    <3> QED BY <3>1, <3>2
  <2> QED BY <1>1, <1>2, <2>3, <2>4 DEF r
<1>3. CASE r + 1 = q
  <2>1. 0 \in 0 .. q - 1 /\ k + 1 \in Int
    BY <1>1
  <2>2. a + 1 = q * (k + 1) + 0
    BY <1>1, <1>3
  <2>3. (a + 1) % q = 0
    BY <2>1, <2>2, Remainder
  <2>4. (r + 1) % q = 0
    <3>1. q * 1 + 0 = r + 1
      BY <1>1, <1>3
    <3>2. (q * 1 + 0) % q = 0
      BY <2>1, Remainder
    <3> QED BY <3>1, <3>2
  <2> QED BY <1>3, <2>3, <2>4 DEF r
<1> QED BY <1>1, <1>2, <1>3

\* Distances in the ring, from a position that is less than a turn away.
LEMMA SlotAhead ==
  ASSUME NEW q \in Nat \ {0}, NEW a \in Nat, NEW b \in Nat, a <= b, b < a + q
  PROVE  ((b % q) - a) % q = b - a
<1> DEFINE k == b \div q
           r == b % q
<1>1. r \in 0 .. q - 1 /\ k \in Int /\ b = q * k + r
  BY Quotient
<1> HIDE DEF k, r
<1>2. b - a \in 0 .. q - 1 /\ 0 - k \in Int
  BY <1>1
<1>3. r - a = q * (0 - k) + (b - a)
  BY <1>1
<1>4. (q * (0 - k) + (b - a)) % q = b - a
  BY <1>2, Remainder
<1> QED BY <1>3, <1>4 DEF r

LEMMA SlotBehind ==
  ASSUME NEW q \in Nat \ {0}, NEW a \in Nat, NEW b \in Nat, b < a, a < b + q
  PROVE  ((b % q) - a) % q = q - (a - b)
<1> DEFINE k == b \div q
           r == b % q
<1>1. r \in 0 .. q - 1 /\ k \in Int /\ b = q * k + r
  BY Quotient
<1> HIDE DEF k, r
<1>2. q - (a - b) \in 0 .. q - 1 /\ (0 - k) - 1 \in Int
  BY <1>1
<1>3. r - a = q * ((0 - k) - 1) + (q - (a - b))
  BY <1>1
<1>4. (q * ((0 - k) - 1) + (q - (a - b))) % q = q - (a - b)
  BY <1>2, Remainder
<1> QED BY <1>3, <1>4 DEF r

LEMMA SameSlot ==
  ASSUME NEW q \in Nat \ {0}, NEW a \in Nat, NEW b \in Nat,
         a <= b, b < a + q, a % q = b % q
  PROVE  a = b
<1>1. ((b % q) - a) % q = b - a
  BY SlotAhead
<1>2. a <= a /\ a < a + q
  OBVIOUS
<1>3. ((a % q) - a) % q = a - a
  BY <1>2, SlotAhead
<1> QED BY <1>1, <1>3

\* One or two slots on, and how far it is from one position to another.
LEMMA Slots ==
  /\ QSize \in Nat \ {0} /\ QSize >= 3 /\ Index \subseteq Nat
  /\ \A h \in Index, n \in 0 .. 2 :
       (h + n) % QSize = IF h + n < QSize THEN h + n ELSE h + n - QSize
  /\ \A h, t \in Index :
       (t - h) % QSize = IF t >= h THEN t - h ELSE t - h + QSize
<1>1. QSize \in Nat \ {0} /\ QSize >= 3
  BY HandoverAssumption DEF HandoverAssumption
<1>2. \A h \in Index : h \in Nat /\ h < QSize
  BY <1>1 DEF Index
<1>3. ASSUME NEW h \in Index, NEW n \in 0 .. 2
      PROVE  (h + n) % QSize = IF h + n < QSize THEN h + n ELSE h + n - QSize
  <2>1. CASE h + n < QSize
    <3>1. h + n \in 0 .. QSize - 1 /\ QSize * 0 + (h + n) = h + n
      BY <1>1, <1>2, <2>1
    <3>2. (QSize * 0 + (h + n)) % QSize = h + n
      BY <1>1, <3>1, Remainder
    <3> QED BY <2>1, <3>1, <3>2
  <2>2. CASE h + n >= QSize
    <3>1. /\ (h + n) - QSize \in 0 .. QSize - 1
          /\ QSize * 1 + ((h + n) - QSize) = h + n
      BY <1>1, <1>2, <2>2
    <3>2. (QSize * 1 + ((h + n) - QSize)) % QSize = (h + n) - QSize
      BY <1>1, <3>1, Remainder
    <3> QED BY <1>1, <1>2, <2>2, <3>1, <3>2
  <2> QED BY <1>1, <1>2, <2>1, <2>2
<1>4. ASSUME NEW h \in Index, NEW t \in Index
      PROVE  (t - h) % QSize = IF t >= h THEN t - h ELSE t - h + QSize
  <2>1. CASE t >= h
    <3>1. t - h \in 0 .. QSize - 1 /\ QSize * 0 + (t - h) = t - h
      BY <1>1, <1>2, <2>1
    <3>2. (QSize * 0 + (t - h)) % QSize = t - h
      BY <1>1, <3>1, Remainder
    <3> QED BY <2>1, <3>1, <3>2
  <2>2. CASE t < h
    <3>1. /\ (t - h) + QSize \in 0 .. QSize - 1
          /\ QSize * (0 - 1) + ((t - h) + QSize) = t - h
          /\ 0 - 1 \in Int
      BY <1>1, <1>2, <2>2
    <3>2. (QSize * (0 - 1) + ((t - h) + QSize)) % QSize = (t - h) + QSize
      BY <1>1, <3>1, Remainder
    <3> QED BY <1>1, <1>2, <2>2, <3>1, <3>2
  <2> QED BY <1>2, <2>1, <2>2
<1> QED BY <1>1, <1>2, <1>3, <1>4

\* The positions around a gap of one or two slots.
LEMMA Distance ==
  ASSUME NEW h \in Index, NEW t \in Index
  PROVE  /\ ((t - h) % QSize) \in Nat
         /\ ((t - h) % QSize) = 0 <=> t = h
         /\ (h + 1) % QSize \in Index
         /\ t # h => ((t - ((h + 1) % QSize)) % QSize) = ((t - h) % QSize) - 1
         /\ \A n \in 1 .. 2 : /\ (t + n) % QSize \in Index
                              /\ (t + n) % QSize # t
                              /\ (((t + n) % QSize) - t) % QSize = n
<1>1. \A i \in Index : i \in Nat /\ i < QSize
  BY Slots DEF Index
<1>2. (t - h) % QSize = IF t >= h THEN t - h ELSE t - h + QSize
  BY Slots
<1> DEFINE s == (h + 1) % QSize
<1>3. s = IF h + 1 < QSize THEN h + 1 ELSE h + 1 - QSize
  BY Slots
<1> HIDE DEF s
<1>4. s \in Index
  BY <1>1, <1>3, Slots DEF Index
<1>5. (t - s) % QSize = IF t >= s THEN t - s ELSE t - s + QSize
  BY <1>4, Slots
<1>6. t # h => (t - s) % QSize = ((t - h) % QSize) - 1
  <2> DEFINE d == (t - h) % QSize
             e == (t - s) % QSize
  <2>1. /\ d = IF t >= h THEN t - h ELSE t - h + QSize
        /\ e = IF t >= s THEN t - s ELSE t - s + QSize
    BY <1>2, <1>5
  <2> HIDE DEF d, e
  <2>2. /\ QSize \in Nat /\ QSize >= 3
        /\ h \in Nat /\ h < QSize /\ t \in Nat /\ t < QSize
    BY <1>1, Slots
  <2>3. t # h => e = d - 1
    BY <1>3, <2>1, <2>2
  <2> QED BY <2>3 DEF d, e
<1>7. ASSUME NEW n \in 1 .. 2
      PROVE  /\ (t + n) % QSize \in Index
             /\ (t + n) % QSize # t
             /\ (((t + n) % QSize) - t) % QSize = n
  <2> DEFINE w == (t + n) % QSize
  <2>1. n \in 0 .. 2
    OBVIOUS
  <2>2. w = IF t + n < QSize THEN t + n ELSE t + n - QSize
    BY <2>1, Slots
  <2> HIDE DEF w
  <2>3. QSize \in Nat /\ QSize >= 3 /\ t \in Nat /\ t < QSize
    BY <1>1, Slots
  <2>4. w \in Index /\ w # t
    BY <2>2, <2>3 DEF Index
  <2> DEFINE d == (w - t) % QSize
  <2>5. d = IF w >= t THEN w - t ELSE w - t + QSize
    BY <2>4, Slots
  <2> HIDE DEF d
  <2>6. d = n
    BY <2>2, <2>3, <2>5
  <2> QED BY <2>4, <2>6 DEF w, d
<1>8. (t - h) % QSize \in Nat /\ ((t - h) % QSize = 0 <=> t = h)
  BY <1>1, <1>2, Slots
<1> QED BY <1>4, <1>6, <1>7, <1>8 DEF s

-----------------------------------------------------------------------------
(***************************************************************************)
(* The operators on registers.                                             *)
(***************************************************************************)
LEMMA CommandFields ==
  ASSUME NEW r \in Registers, NEW on \in BOOLEAN
  PROVE  /\ Command(r, "te", on) = [r EXCEPT !.te = on]
         /\ Command(r, "ire", on) = [r EXCEPT !.ire = on]
         /\ Command(r, "qie", on) =
              [r EXCEPT !.qie = on, !.head = IF on THEN r.head ELSE 0]
  BY DEF Command, Registers

LEMMA RegistersOK ==
  ASSUME NEW r \in Registers
  PROVE  /\ \A on \in BOOLEAN, bit \in Controls : Command(r, bit, on) \in Registers
         /\ \A o \in Owners : /\ SetRoot(r, o) \in Registers
                              /\ SetTable(r, o) \in Registers
                              /\ SetQueue(r, o) \in Registers
         /\ \A n \in 1 .. 2 : Advance(r, n) \in Registers
         /\ \A n \in 0 .. 3, o \in Owners, im \in BOOLEAN :
              SetEvent(r, n, o, im) \in Registers
<1>1. 0 \in Index
  BY Slots DEF Index
<1>2. ASSUME NEW on \in BOOLEAN, NEW bit \in Controls
      PROVE  Command(r, bit, on) \in Registers
  <2>1. CASE bit = "te"
    <3>1. [r EXCEPT !.te = on] \in Registers
      BY DEF Registers
    <3> QED BY <2>1, <3>1, CommandFields
  <2>2. CASE bit = "ire"
    <3>1. [r EXCEPT !.ire = on] \in Registers
      BY DEF Registers
    <3> QED BY <2>2, <3>1, CommandFields
  <2>3. CASE bit = "qie"
    <3> DEFINE h == IF on THEN r.head ELSE 0
    <3>1. h \in Index
      BY <1>1 DEF Registers
    <3> HIDE DEF h
    <3>2. [r EXCEPT !.qie = on, !.head = h] \in Registers
      BY <3>1 DEF Registers
    <3> QED BY <2>3, <3>2, CommandFields DEF h
  <2> QED BY <2>1, <2>2, <2>3 DEF Controls
<1>3. ASSUME NEW o \in Owners
      PROVE  /\ SetRoot(r, o) \in Registers
             /\ SetTable(r, o) \in Registers
             /\ SetQueue(r, o) \in Registers
  <2>1. SetRoot(r, o) \in Registers
    BY DEF SetRoot, Registers
  <2>2. SetTable(r, o) \in Registers
    BY DEF SetTable, Registers
  <2>3. SetQueue(r, o) \in Registers
    BY <1>1 DEF SetQueue, Registers
  <2> QED BY <2>1, <2>2, <2>3
<1>4. ASSUME NEW n \in 1 .. 2
      PROVE  Advance(r, n) \in Registers
  <2>1. r.tail \in Index
    BY DEF Registers
  <2>2. (r.tail + n) % QSize \in Index
    BY <2>1, Distance
  <2> DEFINE t == (r.tail + n) % QSize
  <2>3. t \in Index
    BY <2>2
  <2>4. Advance(r, n) = [r EXCEPT !.tail = t]
    BY DEF Advance
  <2> HIDE DEF t
  <2> QED BY <2>3, <2>4 DEF Registers
<1>5. ASSUME NEW n \in 0 .. 3, NEW o \in Owners, NEW im \in BOOLEAN
      PROVE  SetEvent(r, n, o, im) \in Registers
  <2>1. CASE n = 0
    BY <2>1 DEF SetEvent, Registers
  <2>2. CASE n \in 1 .. 3
    <3> DEFINE fe == [r.fe EXCEPT ![n] = o]
    <3>1. fe \in [1 .. 3 -> Owners]
      BY <2>2 DEF Registers
    <3>2. SetEvent(r, n, o, im) = [r EXCEPT !.fe = fe]
      BY <2>2 DEF SetEvent, Registers
    <3> HIDE DEF fe
    <3> QED BY <3>1, <3>2 DEF Registers
  <2> QED BY <2>1, <2>2
<1> QED BY <1>2, <1>3, <1>4, <1>5

\* What an event statement leaves alone, and what it sets.
LEMMA EventFields ==
  ASSUME NEW r \in Registers, NEW n \in 0 .. 3, NEW o \in Owners,
         NEW im \in BOOLEAN
  PROVE  LET e == SetEvent(r, n, o, im) IN
         /\ e.te = r.te /\ e.ire = r.ire /\ e.qie = r.qie /\ e.root = r.root
         /\ e.irta = r.irta /\ e.irt = r.irt /\ e.iqa = r.iqa
         /\ e.head = r.head /\ e.tail = r.tail /\ e.fresh = r.fresh
         /\ n = 0 => e.im = im /\ e.fe = r.fe
         /\ n # 0 => /\ e.im = r.im
                     /\ \A k \in 1 .. 3 : e.fe[k] = IF k = n THEN o ELSE r.fe[k]
<1>1. CASE n = 0
  BY <1>1 DEF SetEvent, Registers
<1>2. CASE n # 0
  <2> DEFINE fe == [r.fe EXCEPT ![n] = o]
  <2>1. \A k \in 1 .. 3 : fe[k] = IF k = n THEN o ELSE r.fe[k]
    BY <1>2 DEF Registers
  <2>2. SetEvent(r, n, o, im) = [r EXCEPT !.fe = fe]
    BY <1>2 DEF SetEvent, Registers
  <2> HIDE DEF fe
  <2> QED BY <1>2, <2>1, <2>2 DEF Registers
<1> QED BY <1>1, <1>2

-----------------------------------------------------------------------------
(***************************************************************************)
(* The statements of the routines.                                         *)
(***************************************************************************)
LEMMA FaultsText ==
  /\ Len(Faults) = 5
  /\ Faults[1] = <<"event", 0, "spy", TRUE>>
  /\ Faults[2] = <<"event", 1, "spy">>
  /\ Faults[3] = <<"event", 2, "spy">>
  /\ Faults[4] = <<"event", 3, "spy">>
  /\ Faults[5] = <<"event", 0, "spy", FALSE>>
  BY DEF Faults

LEMMA CommitText ==
  /\ Len(Commit) = 11
  /\ Commit[1] = <<"clear", "qie">> /\ Commit[2] = <<"clear", "ire">>
  /\ Commit[3] = <<"root">> /\ Commit[4] = <<"table", "spy">>
  /\ Commit[5] = <<"queue", "spy">> /\ Commit[6] = <<"set", "qie">>
  /\ Commit[7] = <<"inv", "context">> /\ Commit[8] = <<"inv", "iotlb">>
  /\ Commit[9] = <<"inv", "int">> /\ Commit[10] = <<"set", "te">>
  /\ Commit[11] = <<"set", "ire">>
<1>1. Len(Commit) = 11
  BY DEF Commit
<1>2. /\ Commit[1] = <<"clear", "qie">> /\ Commit[2] = <<"clear", "ire">>
      /\ Commit[3] = <<"root">> /\ Commit[4] = <<"table", "spy">>
  BY DEF Commit
<1>3. /\ Commit[5] = <<"queue", "spy">> /\ Commit[6] = <<"set", "qie">>
      /\ Commit[7] = <<"inv", "context">> /\ Commit[8] = <<"inv", "iotlb">>
  BY DEF Commit
<1>4. /\ Commit[9] = <<"inv", "int">> /\ Commit[10] = <<"set", "te">>
      /\ Commit[11] = <<"set", "ire">>
  BY DEF Commit
<1> QED BY <1>1, <1>2, <1>3, <1>4

\* The program of a shutdown, without and with the units of Linux to restore.
LEMMA ShutdownText ==
  /\ Shutdown[1] = <<"clear", "te">> /\ Shutdown[2] = <<"clear", "ire">>
  /\ ~ ir => Len(Shutdown) = 3 /\ Shutdown[3] = <<"clear", "qie">>
  /\ ir => /\ Len(Shutdown) = 14
           /\ Shutdown[3] = <<"table", "linux">>
           /\ Shutdown[4] = <<"inv", "int">>
           /\ Shutdown[5] = <<"clear", "qie">>
           /\ Shutdown[6] = <<"queue", "linux">>
           /\ Shutdown[7] = <<"set", "qie">>
           /\ Shutdown[8] = <<"sync">>
           /\ Shutdown[9] = <<"set", "ire">>
           /\ Shutdown[10] = <<"event", 0, "linux", TRUE>>
           /\ Shutdown[11] = <<"event", 3, "linux">>
           /\ Shutdown[12] = <<"event", 2, "linux">>
           /\ Shutdown[13] = <<"event", 1, "linux">>
           /\ Shutdown[14] = <<"restore", 0>>
<1> DEFINE first == << <<"clear", "te">>, <<"clear", "ire">> >>
           last == << <<"clear", "qie">> >>
<1>1. CASE ir
  <2>1. Shutdown = first \o Restore
    BY <1>1 DEF Shutdown
  <2>2. /\ Shutdown[1] = <<"clear", "te">> /\ Shutdown[2] = <<"clear", "ire">>
        /\ Len(Shutdown) = 14
    BY <2>1 DEF Restore
  <2>3. Shutdown[3] = <<"table", "linux">>
    BY <2>1 DEF Restore
  <2>4. Shutdown[4] = <<"inv", "int">>
    BY <2>1 DEF Restore
  <2>5. Shutdown[5] = <<"clear", "qie">>
    BY <2>1 DEF Restore
  <2>6. Shutdown[6] = <<"queue", "linux">>
    BY <2>1 DEF Restore
  <2>7. Shutdown[7] = <<"set", "qie">>
    BY <2>1 DEF Restore
  <2>8. Shutdown[8] = <<"sync">>
    BY <2>1 DEF Restore
  <2>9. Shutdown[9] = <<"set", "ire">>
    BY <2>1 DEF Restore
  <2>10. Shutdown[10] = <<"event", 0, "linux", TRUE>>
    <3> DEFINE e == <<"event", 0, "linux", TRUE>>
               text ==
                 << <<"table", "linux">>, <<"inv", "int">>, <<"clear", "qie">>,
                    <<"queue", "linux">>, <<"set", "qie">>, <<"sync">>,
                    <<"set", "ire">>, e, <<"event", 3, "linux">>,
                    <<"event", 2, "linux">>, <<"event", 1, "linux">>,
                    <<"restore", 0>> >>
    <3>1. Restore = text
      BY Zenon DEF Restore
    <3> HIDE DEF e
    <3>2. (first \o text)[10] = e
      OBVIOUS
    <3> HIDE DEF text
    <3> QED BY <2>1, <3>1, <3>2 DEF e
  <2>11. Shutdown[11] = <<"event", 3, "linux">>
    BY <2>1 DEF Restore
  <2>12. Shutdown[12] = <<"event", 2, "linux">>
    BY <2>1 DEF Restore
  <2>13. Shutdown[13] = <<"event", 1, "linux">>
    BY <2>1 DEF Restore
  <2>14. Shutdown[14] = <<"restore", 0>>
    BY <2>1 DEF Restore
  <2> HIDE DEF first
  <2> QED BY <1>1, <2>2, <2>3, <2>4, <2>5, <2>6, <2>7, <2>8,
             <2>9, <2>10, <2>11, <2>12, <2>13, <2>14
<1>2. CASE ~ ir
  <2>1. Shutdown = first \o last
    BY <1>2 DEF Shutdown
  <2>2. /\ Shutdown[1] = <<"clear", "te">> /\ Shutdown[2] = <<"clear", "ire">>
    BY <2>1
  <2>3. Len(Shutdown) = 3
    BY <2>1
  <2>4. Shutdown[3] = <<"clear", "qie">>
    BY <2>1
  <2> QED BY <1>2, <2>2, <2>3, <2>4
<1> QED BY <1>1, <1>2

LEMMA Programs ==
  /\ Program("faults") = Faults /\ Program("commit") = Commit
  /\ Program("shutdown") = Shutdown
  /\ \A op \in Routines : Len(Program(op)) \in Nat /\ Len(Program(op)) >= 1
  /\ After("faults") = "commit" /\ After("commit") = "run"
  /\ After("shutdown") = "linux"
<1>1. /\ Program("faults") = Faults /\ Program("commit") = Commit
      /\ Program("shutdown") = Shutdown
  BY DEF Program
<1>2. /\ After("faults") = "commit" /\ After("commit") = "run"
      /\ After("shutdown") = "linux"
  BY DEF After
<1>3. Len(Shutdown) \in {3, 14}
  BY ShutdownText
<1>4. ASSUME NEW op \in Routines
      PROVE  Len(Program(op)) \in Nat /\ Len(Program(op)) >= 1
  <2>1. CASE op = "faults"
    BY <1>1, <2>1, FaultsText
  <2>2. CASE op = "commit"
    BY <1>1, <2>2, CommitText
  <2>3. CASE op = "shutdown"
    BY <1>1, <1>3, <2>3
  <2> QED BY <2>1, <2>2, <2>3 DEF Routines
<1> QED BY <1>1, <1>2, <1>4

-----------------------------------------------------------------------------
(***************************************************************************)
(* What a step keeps of the units that it leaves alone.                    *)
(***************************************************************************)
LEMMA SameLateIR ==
  ASSUME linux' = linux
  PROVE  LateIR' <=> LateIR
  BY DEF LateIR

LEMMA Undisturbed ==
  ASSUME NEW u, SameUnit(u), linux' = linux, ir' = ir
  PROVE  /\ Pending(u) => Pending(u)'
         /\ Served(u) => Served(u)'
         /\ LinuxSide(u) => LinuxSide(u)'
         /\ Recorded(u) => Recorded(u)'
         /\ SpySide(u) => SpySide(u)'
         /\ InPlace(u) => InPlace(u)'
         /\ Position(u)' = Position(u) /\ LinuxTail(u)' = LinuxTail(u)
         /\ Returned(u) => Returned(u)'
<1>1. LateIR' <=> LateIR
  BY SameLateIR
<1>2. Position(u)' = Position(u) /\ LinuxTail(u)' = LinuxTail(u)
  BY DEF Position, LinuxTail, SameUnit
<1>3. Pending(u) => Pending(u)'
  BY DEF Pending, InOrder, SameUnit
<1>4. Served(u) => Served(u)'
  BY DEF Served, SameUnit
<1>8. InPlace(u) => InPlace(u)'
  BY <1>2 DEF InPlace, SameUnit
<1>5. LinuxSide(u) => LinuxSide(u)'
  BY <1>1, <1>8 DEF LinuxSide, SameUnit
<1>6. Recorded(u) => Recorded(u)'
  BY <1>1, <1>2 DEF Recorded, SameUnit
<1>7. SpySide(u) => SpySide(u)'
  BY DEF SpySide, SameUnit
<1>9. Returned(u) => Returned(u)'
  BY DEF Returned, SameUnit
<1> QED BY <1>2, <1>3, <1>4, <1>5, <1>6, <1>7, <1>8, <1>9

LEMMA UndisturbedPlace ==
  ASSUME NEW u, SameUnit(u), linux' = linux, ir' = ir,
         NEW op, NEW k, NEW p, Place(op, u, k, p)
  PROVE  Place(op, u, k, p)'
<1>1. CASE op = "faults"
  BY <1>1, Undisturbed DEF Place
<1>2. CASE op = "commit"
  <2>1. Answering(u, Commit[k][2]) <=> Answering(u, Commit[k][2])'
    BY DEF Answering, SameUnit
  <2>2. Committing(u, k, p) => Committing(u, k, p)'
    BY <2>1, Undisturbed DEF Committing, SameUnit
  <2> QED BY <1>2, <2>2 DEF Place
<1>3. CASE op = "shutdown"
  <2>1. Answering(u, "int") <=> Answering(u, "int")'
    BY DEF Answering, SameUnit
  <2>2. Stopping(u, k, p) => Stopping(u, k, p)'
    BY <2>1, Undisturbed DEF Stopping, SameUnit
  <2> QED BY <1>3, <2>2 DEF Place
<1> QED BY <1>1, <1>2, <1>3 DEF Place

LEMMA UndisturbedUnit ==
  ASSUME NEW u, SameUnit(u), linux' = linux, ir' = ir, pc' = pc,
         Pending(u) /\ Unit(u) /\ Event(u) /\ Trapped(u)
  PROVE  (Pending(u) /\ Unit(u) /\ Event(u) /\ Trapped(u))'
<1>1. Place(pc.op, u, pc.at, pc.polling)
        => Place(pc.op, u, pc.at, pc.polling)'
  <2>1. Committing(u, pc.at, pc.polling) => Committing(u, pc.at, pc.polling)'
    BY Undisturbed DEF Committing, Answering, SameUnit
  <2>2. Stopping(u, pc.at, pc.polling) => Stopping(u, pc.at, pc.polling)'
    BY Undisturbed DEF Stopping, Answering, SameUnit
  <2> QED BY <2>1, <2>2, Undisturbed DEF Place
<1>2. Pending(u)'
  BY Undisturbed
<1>3. Ahead(pc.op, u) => Ahead(pc.op, u)'
  BY Undisturbed DEF Ahead
<1>4. Behind(pc.op, u) => Behind(pc.op, u)'
  BY Undisturbed DEF Behind
<1>5. Unit(u)'
  BY <1>1, <1>3, <1>4, Undisturbed DEF Unit, SameUnit
<1>6. Event(u)'
  BY Undisturbed DEF Event, SameUnit
<1>7. Trapped(u)'
  BY Undisturbed DEF Trapped, SameUnit
<1> QED BY <1>2, <1>5, <1>6, <1>7

\* A step of one unit, of Linux, or of the emulation.
Still == UNCHANGED <<linux, ir, ready, pc>>

LEMMA OneUnit ==
  ASSUME IInv, TypeOK', (log \in [UnitIds -> Seq(0 .. MaxRequests)])', Still,
         NEW u \in UnitIds, \A v \in UnitIds \ {u} : SameUnit(v),
         (Pending(u) /\ Unit(u) /\ Event(u) /\ Trapped(u))'
  PROVE  IInv'
<1>1. linux' = linux /\ ir' = ir /\ ready' = ready /\ pc' = pc
  BY DEF Still
<1>2. Flags'
  BY <1>1 DEF IInv, Flags
<1>3. Program(pc.op)' = Program(pc.op)
  BY <1>1 DEF Program, Shutdown
<1>4. PcOK'
  BY <1>1, <1>3 DEF IInv, PcOK
<1>5. ASSUME NEW v \in UnitIds
      PROVE  (Pending(v) /\ Unit(v) /\ Event(v) /\ Trapped(v))'
  <2>1. CASE v = u
    BY <2>1
  <2>2. CASE v # u
    <3>1. SameUnit(v)
      BY <2>2
    <3>2. Pending(v) /\ Unit(v) /\ Event(v) /\ Trapped(v)
      BY DEF IInv
    <3> QED BY <1>1, <3>1, <3>2, UndisturbedUnit
  <2> QED BY <2>1, <2>2
<1> QED BY <1>2, <1>4, <1>5 DEF IInv

-----------------------------------------------------------------------------
(***************************************************************************)
(* How a routine goes on.                                                  *)
(***************************************************************************)
\* A statement touches the registers of the loop's unit, and its ring.
Touches(u) ==
  /\ UNCHANGED <<linux, sent, log, mask, emu, ir, trap>>
  /\ ready' = (ready \/ (pc.op = "commit" /\ Finished))
  /\ reg' \in [UnitIds -> Registers]
  /\ ring' \in [UnitIds -> [Index -> 0 .. MaxRequests]]
  /\ \A v \in UnitIds \ {u} : reg'[v] = reg[v] /\ ring'[v] = ring[v]
  /\ lost' \subseteq UnitIds /\ lost \subseteq lost'
  /\ \A v \in lost' \ lost : v = u /\ linux[u] = "on"

LEMMA RoutineKeeps ==
  ASSUME IInv, pc.op \in Routines, NEW u, Touches(u), NEW v \in UnitIds
  PROVE  /\ Pending(v)' /\ Served(v)' /\ Recorded(v)' /\ trap'[v] = "none"
         /\ v # u => SameUnit(v)
<1>1. /\ Pending(v) /\ Unit(v) /\ Event(v) /\ Trapped(v)
      /\ trap[v] \in {"none", "busy", "panic"} /\ sent[v] \in Nat
      /\ log[v] \in Seq(0 .. MaxRequests)
  <2>1. MaxRequests \in Nat
    BY HandoverAssumption DEF HandoverAssumption
  <2> QED BY <2>1 DEF IInv, TypeOK
<1>2. Served(v) /\ Recorded(v) /\ trap[v] = "none"
  BY <1>1 DEF Unit, Trapped, Routines
<1>3. /\ linux' = linux /\ sent' = sent /\ log' = log /\ emu' = emu /\ ir' = ir
      /\ trap' = trap /\ mask' = mask
  BY DEF Touches
<1>4. LateIR' <=> LateIR
  BY <1>3, SameLateIR
<1>5. Len(log[v]) \in Nat
  BY <1>1, LenProperties
<1>6. /\ v \notin lost' => v \notin lost
      /\ v \in lost' => v \in lost \/ (v = u /\ linux[v] = "on")
  BY DEF Touches
<1>7. Pending(v)'
  <2>1. v \notin lost' => InOrder(v)'
    BY <1>1, <1>2, <1>3, <1>5, <1>6 DEF Pending, InOrder, Served
  <2> QED BY <1>1, <1>3, <1>6, <2>1 DEF Pending
<1>8. Served(v)'
  BY <1>2, <1>3, <1>6 DEF Served
<1>9. Recorded(v)'
  BY <1>2, <1>3, <1>4, <1>6 DEF Recorded, Position
<1>10. v # u => SameUnit(v)
  BY <1>3, <1>6 DEF SameUnit, Touches
<1> QED BY <1>2, <1>3, <1>7, <1>8, <1>9, <1>10

LEMMA RoutineTypes ==
  ASSUME IInv, NEW u, Touches(u), pc'.op \in Routines \cup {"linux", "init", "run"},
         pc'.unit \in UnitIds
  PROVE  TypeOK' /\ (log \in [UnitIds -> Seq(0 .. MaxRequests)])'
<1>1. /\ linux' = linux /\ sent' = sent /\ log' = log /\ emu' = emu /\ ir' = ir
      /\ trap' = trap /\ mask' = mask /\ ready' \in BOOLEAN
      /\ lost' \subseteq UnitIds
  BY DEF Touches, IInv, TypeOK
<1>2. reg' \in [UnitIds -> Registers]
      /\ ring' \in [UnitIds -> [Index -> 0 .. MaxRequests]]
  BY DEF Touches
<1> QED BY <1>1, <1>2 DEF IInv, TypeOK, Registers

\* The first statement finds a unit as it was before the routine.
LEMMA FirstPlace ==
  ASSUME NEW op \in Routines, NEW u, Ahead(op, u)', linux'[u] # "other"
  PROVE  Place(op, u, 1, FALSE)'
<1>1. CASE op = "faults"
  BY <1>1 DEF Ahead, Place
<1>2. CASE op = "commit"
  <2>1. LinuxSide(u)'
    BY <1>2 DEF Ahead
  <2>2. Committing(u, 1, FALSE)'
    BY <2>1 DEF Committing, LinuxSide
  <2> QED BY <1>2, <2>2 DEF Place
<1>3. CASE op = "shutdown"
  <2>1. SpySide(u)'
    BY <1>3 DEF Ahead
  <2>2. Stopping(u, 1, FALSE)'
    BY <2>1 DEF Stopping, SpySide
  <2> QED BY <1>3, <2>2 DEF Place
<1> QED BY <1>1, <1>2, <1>3 DEF Routines

LEMMA FirstMessage ==
  ASSUME NEW op, NEW r, Whole(r)
  PROVE  Message(op, r, 1)
  BY DEF Message

\* The next statement for the same unit.
LEMMA NextStatement ==
  ASSUME IInv, NEW op \in Routines, NEW u \in UnitIds, NEW k \in Nat,
         pc.op = op, pc.unit = u, pc.at = k, Touches(u),
         NEW p \in BOOLEAN, op # "faults" \/ ~ p,
         NEW j \in 1 .. Len(Program(op)),
         pc' = [op |-> op, unit |-> u, at |-> j, polling |-> p],
         ready' = ready, Place(op, u, j, p)', Message(op, reg'[u], j)
  PROVE  IInv'
<1>1. /\ linux' = linux /\ ir' = ir
      /\ pc'.op = op /\ pc'.unit = u /\ pc'.at = j /\ pc'.polling = p
  BY DEF Touches
<1>2. TypeOK' /\ (log \in [UnitIds -> Seq(0 .. MaxRequests)])'
  BY <1>1, RoutineTypes
<1>3. Program(op)' = Program(op)
  BY <1>1 DEF Program, Shutdown
<1>4. PcOK'
  <2>1. j \in Nat
    BY Programs
  <2>2. pc' \in [op : Routines \cup {"linux", "init", "run"}, unit : UnitIds,
                 at : Nat, polling : BOOLEAN]
    BY <2>1
  <2>3. pc'.op \in Routines /\ pc'.at \in 1 .. Len(Program(op)')
        /\ (pc'.polling => pc'.op \in {"commit", "shutdown"})
    BY <1>1, <1>3 DEF Routines
  <2> QED BY <1>1, <2>2, <2>3 DEF PcOK
<1>5. Flags'
  BY <1>1 DEF IInv, Flags
<1>6. ASSUME NEW v \in UnitIds
      PROVE  (Pending(v) /\ Unit(v) /\ Event(v) /\ Trapped(v))'
  <2>1. Unit(v) /\ Event(v)
    BY DEF IInv
  <2>2. Pending(v)' /\ Served(v)' /\ Recorded(v)' /\ trap'[v] = "none"
        /\ (v # u => SameUnit(v))
    BY RoutineKeeps
  <2>3. op # "linux" /\ op # "init" /\ op # "run"
    BY DEF Routines
  <2>4. CASE v = u
    <3>1. ~ (u < u)
      BY DEF UnitIds
    <3>2. Unit(v)'
      BY <1>1, <2>2, <2>3, <2>4, <3>1 DEF Unit
    <3>3. Event(v)'
      BY <1>1, <2>3, <2>4, <3>1 DEF Event
    <3> QED BY <1>1, <2>2, <2>3, <3>2, <3>3 DEF Trapped
  <2>5. CASE v # u
    <3>1. SameUnit(v)
      BY <2>2, <2>5
    <3>2. v > u => Ahead(op, v)
      BY <2>1, <2>3 DEF Unit
    <3>3. v < u => Behind(op, v)
      BY <2>1, <2>3 DEF Unit
    <3>4. v > u => Ahead(op, v)'
      BY <1>1, <3>1, <3>2, Undisturbed DEF Ahead
    <3>5. v < u => Behind(op, v)'
      BY <1>1, <3>1, <3>3, Undisturbed DEF Behind
    <3>6. Unit(v)'
      BY <1>1, <2>2, <2>3, <2>5, <3>4, <3>5 DEF Unit
    <3>7. Event(v)'
      BY <1>1, <2>1, <2>3, <2>5, <3>1, Undisturbed DEF Event, SameUnit
    <3> QED BY <1>1, <2>2, <2>3, <3>6, <3>7 DEF Trapped
  <2> QED BY <2>4, <2>5
<1> QED BY <1>2, <1>4, <1>5, <1>6 DEF IInv

\* The first statement for the next unit.
LEMMA NextUnit ==
  ASSUME IInv, NEW op \in Routines, NEW u \in UnitIds,
         pc.op = op, pc.unit = u, Touches(u), u + 1 < Units,
         pc' = [op |-> op, unit |-> u + 1, at |-> 1, polling |-> FALSE],
         ready' = ready, Behind(op, u)', Whole(reg'[u]),
         op = "shutdown" => Returned(u)'
  PROVE  IInv'
<1>1. /\ linux' = linux /\ ir' = ir
      /\ pc'.op = op /\ pc'.unit = u + 1 /\ pc'.at = 1 /\ pc'.polling = FALSE
  BY DEF Touches
<1>2. u \in Nat /\ u + 1 \in UnitIds /\ \A v \in UnitIds : v \in Nat
  BY HandoverAssumption DEF HandoverAssumption, UnitIds
<1>3. TypeOK' /\ (log \in [UnitIds -> Seq(0 .. MaxRequests)])'
  BY <1>1, <1>2, RoutineTypes
<1>4. PcOK'
  <2>1. Program(op)' = Program(op)
    BY <1>1 DEF Program, Shutdown
  <2>2. 1 \in 1 .. Len(Program(op))
    BY Programs
  <2>3. pc' \in [op : Routines \cup {"linux", "init", "run"}, unit : UnitIds,
                 at : Nat, polling : BOOLEAN]
    BY <1>2
  <2> QED BY <1>1, <2>1, <2>2, <2>3 DEF PcOK
<1>5. Flags'
  BY <1>1 DEF IInv, Flags
<1>6. ASSUME NEW v \in UnitIds
      PROVE  (Pending(v) /\ Unit(v) /\ Event(v) /\ Trapped(v))'
  <2>1. Unit(v) /\ Event(v)
    BY DEF IInv
  <2>2. Pending(v)' /\ Served(v)' /\ Recorded(v)' /\ trap'[v] = "none"
        /\ (v # u => SameUnit(v))
    BY RoutineKeeps
  <2>3. op # "linux" /\ op # "init" /\ op # "run"
    BY DEF Routines
  <2>4. linux'[v] # "other"
    BY <2>2 DEF Recorded
  <2>5. Whole(reg'[v])
    <3>1. CASE v = u
      BY <3>1
    <3>2. CASE v # u
      BY <2>1, <2>2, <3>2 DEF Event, SameUnit
    <3> QED BY <3>1, <3>2
  <2>6. v > u => Ahead(op, v)'
    <3>1. v > u => v # u /\ Ahead(op, v)
      BY <1>2, <2>1, <2>3 DEF Unit
    <3> QED BY <1>1, <2>2, <3>1, Undisturbed DEF Ahead
  <2>7. v < u => Behind(op, v)'
    <3>1. v < u => v # u /\ Behind(op, v)
      BY <1>2, <2>1, <2>3 DEF Unit
    <3> QED BY <1>1, <2>2, <3>1, Undisturbed DEF Behind
  <2>8. v = u + 1 => Place(op, v, 1, FALSE)'
    <3>1. v = u + 1 => v > u
      BY <1>2
    <3>2. Ahead(op, v)' => Place(op, v, 1, FALSE)'
      BY <2>4, FirstPlace
    <3> QED BY <2>6, <3>1, <3>2
  <2>9. v < u + 1 => Behind(op, v)'
    BY <1>2, <2>7
  <2>10. v > u + 1 => Ahead(op, v)'
    BY <1>2, <2>6
  <2>11. Unit(v)'
    <3>1. pc'.op = op => op \in Routines
      OBVIOUS
    <3> QED BY <1>1, <2>2, <2>3, <2>8, <2>9, <2>10 DEF Unit
  <2>12. op = "shutdown" /\ v < u + 1 => Returned(v)'
    <3>1. CASE v = u
      BY <3>1
    <3>2. CASE v # u
      <4>1. op = "shutdown" /\ v < u + 1 => Returned(v)
        BY <1>2, <2>1, <3>2 DEF Event
      <4> QED BY <1>1, <2>2, <3>2, <4>1, Undisturbed
    <3> QED BY <3>1, <3>2
  <2>13. Event(v)'
    BY <1>1, <2>3, <2>5, <2>12, FirstMessage DEF Event
  <2> QED BY <1>1, <2>2, <2>3, <2>11, <2>13 DEF Trapped
<1> QED BY <1>3, <1>4, <1>5, <1>6 DEF IInv

\* What follows the last statement for the last unit.
LEMMA NextRoutine ==
  ASSUME IInv, NEW op \in Routines, NEW u \in UnitIds,
         pc.op = op, pc.unit = u, Touches(u), u + 1 = Units,
         Goto(After(op)), ready' = (ready \/ op = "commit"),
         Behind(op, u)', Whole(reg'[u]), op = "shutdown" => Returned(u)'
  PROVE  IInv'
<1> DEFINE next == After(op)
<1>1. /\ linux' = linux /\ ir' = ir
      /\ pc' = [op |-> next, unit |-> 0, at |-> 1, polling |-> FALSE]
      /\ pc'.op = next /\ pc'.unit = 0 /\ pc'.at = 1 /\ pc'.polling = FALSE
  BY DEF Touches, Goto
<1>2. 0 \in UnitIds /\ u \in Nat /\ \A v \in UnitIds : v \in Nat /\ v <= u
  BY HandoverAssumption DEF HandoverAssumption, UnitIds
<1>3. \/ op = "faults" /\ next = "commit"
      \/ op = "commit" /\ next = "run"
      \/ op = "shutdown" /\ next = "linux"
  BY Programs DEF Routines
<1> HIDE DEF next
<1>4. next \in Routines \cup {"linux", "init", "run"}
  BY <1>3 DEF Routines
<1>5. TypeOK' /\ (log \in [UnitIds -> Seq(0 .. MaxRequests)])'
  BY <1>1, <1>2, <1>4, RoutineTypes
<1>6. PcOK'
  <2>1. next \in Routines => 1 \in 1 .. Len(Program(next)')
    <3>1. Program(next)' = Program(next)
      BY <1>1 DEF Program, Shutdown
    <3> QED BY <3>1, Programs
  <2>2. pc' \in [op : Routines \cup {"linux", "init", "run"}, unit : UnitIds,
                 at : Nat, polling : BOOLEAN]
    BY <1>1, <1>2, <1>4
  <2> QED BY <1>1, <2>1, <2>2 DEF PcOK
<1>7. Flags'
  BY <1>1, <1>3 DEF IInv, Flags
<1>8. ASSUME NEW v \in UnitIds
      PROVE  (Pending(v) /\ Unit(v) /\ Event(v) /\ Trapped(v))'
  <2>1. Unit(v) /\ Event(v)
    BY DEF IInv
  <2>2. Pending(v)' /\ Served(v)' /\ Recorded(v)' /\ trap'[v] = "none"
        /\ (v # u => SameUnit(v))
    BY RoutineKeeps
  <2>3. op # "linux" /\ op # "init" /\ op # "run"
    BY DEF Routines
  <2>4. Whole(reg'[v])
    <3>1. CASE v = u
      BY <3>1
    <3>2. CASE v # u
      BY <2>1, <2>2, <3>2 DEF Event, SameUnit
    <3> QED BY <3>1, <3>2
  <2>5. Behind(op, v)'
    <3>1. CASE v = u
      BY <3>1
    <3>2. CASE v # u
      <4>1. v < u /\ Behind(op, v)
        BY <1>2, <2>1, <2>3, <3>2 DEF Unit
      <4> QED BY <1>1, <2>2, <3>2, <4>1, Undisturbed DEF Behind
    <3> QED BY <3>1, <3>2
  <2>6. CASE op = "faults"
    <3>1. LinuxSide(v)' /\ Ahead("commit", v)'
      BY <2>5, <2>6 DEF Behind, Ahead
    <3>2. Place("commit", v, 1, FALSE)'
      BY <2>2, <3>1, FirstPlace DEF Routines, Recorded
    <3>3. next = "commit" /\ ~ (v < 0) /\ "commit" \in Routines
      BY <1>2, <1>3, <2>6 DEF Routines
    <3>4. Unit(v)'
      BY <1>1, <2>2, <3>1, <3>2, <3>3 DEF Unit
    <3>5. Event(v)'
      BY <1>1, <2>4, <3>3, FirstMessage DEF Event
    <3> QED BY <1>1, <2>2, <3>3, <3>4, <3>5 DEF Trapped
  <2>7. CASE op = "commit"
    <3>1. next = "run" /\ "run" \notin Routines
      BY <1>3, <2>7 DEF Routines
    <3>2. SpySide(v)'
      BY <2>5, <2>7 DEF Behind
    <3>3. Unit(v)'
      BY <1>1, <2>2, <3>1, <3>2 DEF Unit
    <3>4. Event(v)'
      BY <1>1, <2>4, <3>1 DEF Event
    <3> QED BY <1>1, <2>2, <3>1, <3>3, <3>4 DEF Trapped
  <2>8. CASE op = "shutdown"
    <3>1. next = "linux" /\ "linux" \notin Routines
      BY <1>3, <2>8 DEF Routines
    <3>2. LinuxSide(v)'
      BY <2>5, <2>8 DEF Behind
    <3>3. Unit(v)'
      BY <1>1, <3>1, <3>2 DEF Unit
    <3>4. Returned(v)'
      <4>1. CASE v = u
        BY <2>8, <4>1
      <4>2. CASE v # u
        <5>1. v < u
          BY <1>2, <4>2
        <5>2. Returned(v)
          BY <2>1, <2>8, <5>1 DEF Event
        <5> QED BY <1>1, <2>2, <4>2, <5>2, Undisturbed
      <4> QED BY <4>1, <4>2
    <3>5. Event(v)'
      BY <1>1, <2>4, <3>1, <3>4 DEF Event
    <3> QED BY <1>1, <2>2, <3>1, <3>3, <3>5 DEF Trapped
  <2> QED BY <2>6, <2>7, <2>8 DEF Routines
<1> QED BY <1>5, <1>6, <1>7, <1>8 DEF IInv

\* The statement is done.
LEMMA GoOn ==
  ASSUME IInv, NEW op \in Routines, NEW u \in UnitIds, NEW k \in Nat,
         pc.op = op, pc.unit = u, pc.at = k, Touches(u), Continue,
         k < Len(Program(op)) =>
           Place(op, u, k + 1, FALSE)' /\ Message(op, reg'[u], k + 1),
         k = Len(Program(op)) =>
           Behind(op, u)' /\ Whole(reg'[u]) /\ (op = "shutdown" => Returned(u)')
  PROVE  IInv'
<1>1. /\ pc = [op |-> op, unit |-> u, at |-> k, polling |-> pc.polling]
      /\ k \in 1 .. Len(Program(op)) /\ Len(Program(op)) \in Nat
  BY Programs DEF IInv, PcOK
<1>2. u \in Nat /\ Units \in Nat /\ u + 1 <= Units
  BY HandoverAssumption DEF HandoverAssumption, UnitIds
<1>3. ready' = (ready \/ (op = "commit" /\ u + 1 = Units /\ k = Len(Program(op))))
  BY DEF Touches, Finished
<1>4. ready \in BOOLEAN
  BY DEF IInv, TypeOK
<1>5. CASE k < Len(Program(op))
  <2>1. pc' = [op |-> op, unit |-> u, at |-> k + 1, polling |-> FALSE]
    BY <1>1, <1>5 DEF Continue
  <2>2. ready' = ready
    BY <1>1, <1>3, <1>4, <1>5
  <2>3. k + 1 \in 1 .. Len(Program(op)) /\ k + 1 \in Nat
    BY <1>1, <1>5
  <2> QED BY <1>5, <2>1, <2>2, <2>3, NextStatement
<1>6. CASE k = Len(Program(op)) /\ u + 1 < Units
  <2>1. pc' = [op |-> op, unit |-> u + 1, at |-> 1, polling |-> FALSE]
    <3>1. ~ (pc.at < Len(Program(pc.op))) /\ pc.unit + 1 < Units
      BY <1>1, <1>6
    <3>2. pc' = [pc EXCEPT !.unit = pc.unit + 1, !.at = 1, !.polling = FALSE]
      BY <3>1 DEF Continue
    <3> QED BY <1>1, <3>2
  <2>2. ready' = ready
    BY <1>2, <1>3, <1>4, <1>6
  <2> QED BY <1>6, <2>1, <2>2, NextUnit
<1>7. CASE k = Len(Program(op)) /\ u + 1 = Units
  <2>1. Goto(After(op))
    BY <1>1, <1>2, <1>7 DEF Continue
  <2>2. ready' = (ready \/ op = "commit")
    BY <1>3, <1>7
  <2> QED BY <1>7, <2>1, <2>2, NextRoutine
<1> QED BY <1>1, <1>2, <1>5, <1>6, <1>7

\* The CPU starts to poll, or leaves a turn of its loop.
LEMMA Stay ==
  ASSUME IInv, NEW op \in Routines, NEW u \in UnitIds, NEW k \in Nat,
         pc.op = op, pc.unit = u, pc.at = k, Touches(u),
         NEW p \in BOOLEAN, op # "faults", pc' = [pc EXCEPT !.polling = p],
         k < Len(Program(op)), Place(op, u, k, p)', reg'[u].fe = reg[u].fe,
         reg'[u].im = reg[u].im
  PROVE  IInv'
<1>1. /\ pc = [op |-> op, unit |-> u, at |-> k, polling |-> pc.polling]
      /\ k \in 1 .. Len(Program(op))
  BY Programs DEF IInv, PcOK
<1>2. pc' = [op |-> op, unit |-> u, at |-> k, polling |-> p]
  BY <1>1
<1>3. ready' = ready
  BY Programs DEF Touches, Finished, IInv, TypeOK
<1>4. Event(u)
  BY DEF IInv
<1>5. Message(op, reg[u], k)
  BY <1>4 DEF Event
<1>6. Message(op, reg'[u], k)
  BY <1>5 DEF Message, Whole
<1> QED BY <1>1, <1>2, <1>3, <1>6, NextStatement

-----------------------------------------------------------------------------
(***************************************************************************)
(* The statements.                                                         *)
(***************************************************************************)
\* The registers after a statement that writes them.
Result(s, r, e) ==
  LET owner(tag) == IF s[2] = "spy" THEN "spy" ELSE tag IN
  CASE s[1] = "clear" -> Command(r, s[2], FALSE)
    [] s[1] = "set" -> Command(r, s[2], TRUE)
    [] s[1] = "root" -> SetRoot(r, "spy")
    [] s[1] = "table" -> SetTable(r, owner(e.irta))
    [] s[1] = "queue" -> SetQueue(r, owner(e.iqa))
    [] s[1] = "event" -> SetEvent(r, s[2], s[3], Len(s) = 4 /\ s[4])
    [] s[1] = "restore" -> SetEvent(r, 0, "linux", e.im)

LEMMA Results ==
  ASSUME NEW r, NEW e
  PROVE  /\ \A bit \in Controls :
              /\ Result(<<"clear", bit>>, r, e) = Command(r, bit, FALSE)
              /\ Result(<<"set", bit>>, r, e) = Command(r, bit, TRUE)
         /\ Result(<<"root">>, r, e) = SetRoot(r, "spy")
         /\ Result(<<"table", "spy">>, r, e) = SetTable(r, "spy")
         /\ Result(<<"table", "linux">>, r, e) = SetTable(r, e.irta)
         /\ Result(<<"queue", "spy">>, r, e) = SetQueue(r, "spy")
         /\ Result(<<"queue", "linux">>, r, e) = SetQueue(r, e.iqa)
         /\ \A n \in 1 .. 3, o \in Owners :
              Result(<<"event", n, o>>, r, e) = SetEvent(r, n, o, FALSE)
         /\ \A o \in Owners, im \in BOOLEAN :
              Result(<<"event", 0, o, im>>, r, e) = SetEvent(r, 0, o, im)
         /\ Result(<<"restore", 0>>, r, e) = SetEvent(r, 0, "linux", e.im)
<1>1. ASSUME NEW bit \in Controls
      PROVE  /\ Result(<<"clear", bit>>, r, e) = Command(r, bit, FALSE)
             /\ Result(<<"set", bit>>, r, e) = Command(r, bit, TRUE)
  BY DEF Result
<1>2. /\ Result(<<"root">>, r, e) = SetRoot(r, "spy")
      /\ Result(<<"table", "spy">>, r, e) = SetTable(r, "spy")
      /\ Result(<<"table", "linux">>, r, e) = SetTable(r, e.irta)
  BY DEF Result
<1>3. /\ Result(<<"queue", "spy">>, r, e) = SetQueue(r, "spy")
      /\ Result(<<"queue", "linux">>, r, e) = SetQueue(r, e.iqa)
  BY DEF Result
<1>4. ASSUME NEW n \in 1 .. 3, NEW o \in Owners
      PROVE  Result(<<"event", n, o>>, r, e) = SetEvent(r, n, o, FALSE)
  <2>1. Len(<<"event", n, o>>) # 4
    OBVIOUS
  <2> QED BY <2>1 DEF Result
<1>5. ASSUME NEW o \in Owners, NEW im \in BOOLEAN
      PROVE  Result(<<"event", 0, o, im>>, r, e) = SetEvent(r, 0, o, im)
  <2>1. Len(<<"event", 0, o, im>>) = 4 /\ <<"event", 0, o, im>>[4] = im
    OBVIOUS
  <2> QED BY <2>1 DEF Result
<1>6. Result(<<"restore", 0>>, r, e) = SetEvent(r, 0, "linux", e.im)
  BY DEF Result
<1> QED BY <1>1, <1>2, <1>3, <1>4, <1>5, <1>6

\* What is known before a statement.
LEMMA Before ==
  ASSUME IInv, NEW op \in Routines, NEW u \in UnitIds, NEW k,
         pc.op = op, pc.unit = u, pc.at = k
  PROVE  /\ reg \in [UnitIds -> Registers] /\ reg[u] \in Registers
         /\ emu[u] \in [iqh : Index, iqa : Owners, irta : Owners, im : BOOLEAN]
         /\ pc.polling \in BOOLEAN /\ k \in 1 .. Len(Program(op))
         /\ Place(op, u, k, pc.polling) /\ Message(op, reg[u], k)
         /\ Recorded(u) /\ Served(u) /\ Pending(u)
<1>1. Unit(u) /\ Event(u) /\ Pending(u)
  BY DEF IInv
<1>2. Place(op, u, k, pc.polling) /\ Recorded(u) /\ Served(u)
  BY <1>1 DEF Unit
<1>3. Message(op, reg[u], k)
  BY <1>1 DEF Event
<1>4. reg \in [UnitIds -> Registers]
  BY DEF IInv, TypeOK, Registers
<1>5. /\ emu[u] \in [iqh : Index, iqa : Owners, irta : Owners, im : BOOLEAN]
      /\ pc.polling \in BOOLEAN /\ k \in 1 .. Len(Program(op))
  BY DEF IInv, TypeOK, PcOK
<1> QED BY <1>1, <1>2, <1>3, <1>4, <1>5

LEMMA RegisterTouches ==
  ASSUME IInv, Routine, NEW u \in UnitIds, pc.unit = u,
         NEW new \in Registers, reg' = [reg EXCEPT ![u] = new], ring' = ring,
         lost' = lost
  PROVE  Touches(u) /\ reg'[u] = new
<1>1. /\ reg \in [UnitIds -> Registers]
      /\ ring \in [UnitIds -> [Index -> 0 .. MaxRequests]]
  BY DEF IInv, TypeOK, Registers
<1>2. /\ ready' = (ready \/ (pc.op = "commit" /\ Finished))
      /\ UNCHANGED <<linux, sent, log, mask, emu, ir, trap>>
  BY DEF Routine
<1>3. lost' \subseteq UnitIds
  BY DEF IInv, TypeOK
<1> QED BY <1>1, <1>2, <1>3 DEF Touches

\* A statement that writes registers, when no other action is possible.
LEMMA WriteStep ==
  ASSUME IInv, Routine, NEW op \in Routines, NEW u \in UnitIds, NEW k \in Nat,
         pc.op = op, pc.unit = u, pc.at = k, ~ pc.polling,
         NEW s, Program(op)[k] = s, s[1] \notin {"inv", "sync"},
         NEW new \in Registers, Result(s, reg[u], emu[u]) = new
  PROVE  /\ Touches(u) /\ reg'[u] = new /\ ring' = ring /\ lost' = lost
         /\ Continue
<1>1. Write(s) \/ Submit(s) \/ Sync(s) \/ Completed(s)
  BY DEF Routine
<1>2. Write(s)
  BY <1>1 DEF Submit, Sync, Completed
<1>3. reg' = [reg EXCEPT ![u] = Result(s, reg[u], emu[u])]
  BY <1>2 DEF Write, Result
<1>4. ring' = ring /\ lost' = lost /\ Continue
  BY <1>2 DEF Write
<1> QED BY <1>3, <1>4, RegisterTouches

-----------------------------------------------------------------------------
\* vtd_init_fault_nmi.
LEMMA FaultsStatement ==
  ASSUME IInv, NEW u \in UnitIds, NEW k \in Nat, pc.op = "faults", pc.unit = u,
         pc.at = k, Routine, NEW n \in 0 .. 3, NEW im \in BOOLEAN, NEW s,
         Faults[k] = s, s[1] = "event",
         Result(s, reg[u], emu[u]) = SetEvent(reg[u], n, "spy", im)
  PROVE  /\ Touches(u) /\ Continue /\ LinuxSide(u)'
         /\ reg'[u] = SetEvent(reg[u], n, "spy", im)
         /\ reg[u] \in Registers /\ Message("faults", reg[u], k)
<1>1. "faults" \in Routines /\ "spy" \in Owners
  BY DEF Routines, Owners
<1>2. /\ reg[u] \in Registers /\ Place("faults", u, k, pc.polling)
      /\ Message("faults", reg[u], k)
  BY <1>1, Before
<1> DEFINE new == SetEvent(reg[u], n, "spy", im)
<1>3. new \in Registers
  BY <1>1, <1>2, RegistersOK
<1>4. ~ pc.polling /\ LinuxSide(u)
  BY <1>2 DEF Place
<1>5. Program("faults")[k] = s /\ s[1] \notin {"inv", "sync"}
  BY Programs
<1>6. Result(s, reg[u], emu[u]) = new
  OBVIOUS
<1> HIDE DEF new
<1>7. Touches(u) /\ reg'[u] = new /\ ring' = ring /\ lost' = lost /\ Continue
  BY <1>1, <1>3, <1>4, <1>5, <1>6, WriteStep
<1>8. LinuxSide(u)'
  <2>1. /\ new.te = reg[u].te /\ new.ire = reg[u].ire /\ new.qie = reg[u].qie
        /\ new.irta = reg[u].irta /\ new.irt = reg[u].irt /\ new.iqa = reg[u].iqa
        /\ new.head = reg[u].head /\ new.tail = reg[u].tail
        /\ new.fresh = reg[u].fresh
    BY <1>1, <1>2, EventFields DEF new
  <2>2. linux' = linux /\ sent' = sent /\ log' = log
    BY <1>7 DEF Touches
  <2>3. LateIR' <=> LateIR
    BY <2>2, SameLateIR
  <2> QED BY <1>4, <1>7, <2>1, <2>2, <2>3 DEF LinuxSide, InPlace, Position, LinuxTail
<1> QED BY <1>2, <1>7, <1>8 DEF new

LEMMA FaultsStep ==
  ASSUME IInv, Routine, NEW u \in UnitIds, NEW k \in Nat,
         pc.op = "faults", pc.unit = u, pc.at = k
  PROVE  IInv'
<1> DEFINE r == reg[u]
           n == IF k \in 2 .. 4 THEN k - 1 ELSE 0
<1>1. k \in 1 .. 5 /\ "faults" \in Routines /\ "spy" \in Owners
  BY FaultsText, Programs DEF IInv, PcOK, Routines, Owners
<1>2. Len(Program("faults")) = 5
  BY FaultsText, Programs
<1>3. n \in 0 .. 3
  BY <1>1
<1>4. PICK im \in BOOLEAN : im <=> k = 1
  OBVIOUS
<1>5. /\ Faults[k][1] = "event"
      /\ Result(Faults[k], r, emu[u]) = SetEvent(r, n, "spy", im)
  <2>1. CASE k \in 2 .. 4
    <3>1. n \in 1 .. 3 /\ Faults[k] = <<"event", n, "spy">>
      BY <2>1, FaultsText
    <3>2. Result(<<"event", n, "spy">>, r, emu[u]) = SetEvent(r, n, "spy", FALSE)
      <4> HIDE DEF r, n
      <4> QED BY <1>1, <3>1, Results
    <3>3. SetEvent(r, n, "spy", FALSE) = SetEvent(r, n, "spy", im)
      BY <3>1 DEF SetEvent
    <3>4. <<"event", n, "spy">>[1] = "event"
      OBVIOUS
    <3> QED BY <3>1, <3>2, <3>3, <3>4
  <2>2. CASE k \in {1, 5}
    <3>1. Faults[k] = <<"event", 0, "spy", im>>
      <4>1. CASE k = 1
        <5>1. im = TRUE
          BY <1>4, <4>1
        <5> QED BY <4>1, <5>1, FaultsText
      <4>2. CASE k = 5
        <5>1. im = FALSE
          BY <1>4, <4>2
        <5>2. Faults[5] = <<"event", 0, "spy", FALSE>>
          BY FaultsText
        <5> QED BY <4>2, <5>1, <5>2, Zenon
      <4> QED BY <2>2, <4>1, <4>2
    <3>2. Result(<<"event", 0, "spy", im>>, r, emu[u]) = SetEvent(r, 0, "spy", im)
      BY <1>1, Results
    <3>3. <<"event", 0, "spy", im>>[1] = "event"
      OBVIOUS
    <3>4. n = 0
      BY <2>2
    <3> QED BY <3>1, <3>2, <3>3, <3>4
  <2> QED BY <1>1, <2>1, <2>2
<1> HIDE DEF n
<1> DEFINE new == SetEvent(r, n, "spy", im)
<1>6. /\ Touches(u) /\ Continue /\ LinuxSide(u)' /\ reg'[u] = new
      /\ r \in Registers /\ Message("faults", r, k)
  BY <1>3, <1>5, FaultsStatement
<1>7. /\ n = 0 => new.im = im /\ new.fe = r.fe
      /\ n # 0 => /\ new.im = r.im
                  /\ \A j \in 1 .. 3 : new.fe[j] = IF j = n THEN "spy" ELSE r.fe[j]
  BY <1>1, <1>3, <1>6, EventFields
<1> HIDE DEF new, r
<1>8. k < 5 => Message("faults", new, k + 1)
  <2>1. CASE k = 1
    <3>1. n = 0 /\ k + 1 = 2
      BY <2>1 DEF n
    <3>2. new.im
      BY <1>4, <1>7, <2>1, <3>1
    <3>3. Message("faults", new, 2)
      BY <3>2 DEF Message
    <3> QED BY <3>1, <3>3
  <2>2. CASE k \in 2 .. 4
    <3>1. n = k - 1
      BY <2>2 DEF n
    <3> QED BY <1>6, <1>7, <2>2, <3>1 DEF Message
  <2> QED BY <1>1, <2>1, <2>2
<1>9. k = 5 => Whole(new)
  BY <1>6, <1>7 DEF Message, Whole, n
<1>10. Behind("faults", u)' /\ Place("faults", u, k + 1, FALSE)'
  BY <1>6 DEF Behind, Place
<1> QED BY <1>1, <1>2, <1>6, <1>8, <1>9, <1>10, GoOn

-----------------------------------------------------------------------------
\* What the register statements do, and that they write registers.
LEMMA Commands ==
  ASSUME NEW r \in Registers, NEW e
  PROVE  /\ Result(<<"clear", "te">>, r, e) = [r EXCEPT !.te = FALSE]
         /\ Result(<<"clear", "ire">>, r, e) = [r EXCEPT !.ire = FALSE]
         /\ Result(<<"clear", "qie">>, r, e) = [r EXCEPT !.qie = FALSE, !.head = 0]
         /\ Result(<<"set", "te">>, r, e) = [r EXCEPT !.te = TRUE]
         /\ Result(<<"set", "ire">>, r, e) = [r EXCEPT !.ire = TRUE]
         /\ Result(<<"set", "qie">>, r, e) = [r EXCEPT !.qie = TRUE]
         /\ \A bit \in {"te", "ire", "qie"} :
              /\ Result(<<"clear", bit>>, r, e) \in Registers
              /\ Result(<<"set", bit>>, r, e) \in Registers
<1>1. {"te", "ire", "qie"} = Controls
  BY DEF Controls
<1>2. \A bit \in {"te", "ire", "qie"} :
        /\ Result(<<"clear", bit>>, r, e) = Command(r, bit, FALSE)
        /\ Result(<<"set", bit>>, r, e) = Command(r, bit, TRUE)
  BY <1>1, Results
<1>3. \A bit \in {"te", "ire", "qie"} : /\ Command(r, bit, FALSE) \in Registers
                                        /\ Command(r, bit, TRUE) \in Registers
  BY <1>1, RegistersOK
<1>4. /\ Command(r, "te", FALSE) = [r EXCEPT !.te = FALSE]
      /\ Command(r, "te", TRUE) = [r EXCEPT !.te = TRUE]
  BY CommandFields
<1>5. /\ Command(r, "ire", FALSE) = [r EXCEPT !.ire = FALSE]
      /\ Command(r, "ire", TRUE) = [r EXCEPT !.ire = TRUE]
  BY CommandFields
<1>6. Command(r, "qie", FALSE) = [r EXCEPT !.qie = FALSE, !.head = 0]
  BY CommandFields
<1>7. Command(r, "qie", TRUE) = [r EXCEPT !.qie = TRUE]
  <2>1. Command(r, "qie", TRUE) = [r EXCEPT !.qie = TRUE, !.head = r.head]
    BY CommandFields
  <2>2. [r EXCEPT !.qie = TRUE, !.head = r.head] = [r EXCEPT !.qie = TRUE]
    BY DEF Registers
  <2> QED BY <2>1, <2>2
<1>8. \A bit \in {"te", "ire", "qie"} :
        /\ Result(<<"clear", bit>>, r, e) \in Registers
        /\ Result(<<"set", bit>>, r, e) \in Registers
  BY <1>2, <1>3
<1>9. /\ Result(<<"clear", "te">>, r, e) = [r EXCEPT !.te = FALSE]
      /\ Result(<<"clear", "ire">>, r, e) = [r EXCEPT !.ire = FALSE]
  BY <1>2, <1>4, <1>5, Zenon
<1>10. Result(<<"clear", "qie">>, r, e) = [r EXCEPT !.qie = FALSE, !.head = 0]
  BY <1>2, <1>6, Zenon
<1>11. /\ Result(<<"set", "te">>, r, e) = [r EXCEPT !.te = TRUE]
       /\ Result(<<"set", "ire">>, r, e) = [r EXCEPT !.ire = TRUE]
  BY <1>2, <1>4, <1>5, Zenon
<1>12. Result(<<"set", "qie">>, r, e) = [r EXCEPT !.qie = TRUE]
  BY <1>2, <1>7, Zenon
<1> QED BY <1>8, <1>9, <1>10, <1>11, <1>12, Zenon

\* A statement of vtd_init_unit that writes registers.
LEMMA CommitWrite ==
  ASSUME IInv, Routine, NEW u \in UnitIds, NEW k \in Nat,
         pc.op = "commit", pc.unit = u, pc.at = k, k \notin 7 .. 9,
         Commit[k][1] \notin {"inv", "sync"},
         Result(Commit[k], reg[u], emu[u]) \in Registers
  PROVE  /\ Touches(u) /\ reg'[u] = Result(Commit[k], reg[u], emu[u])
         /\ ring' = ring /\ Continue /\ Committing(u, k, FALSE)
<1>1. "commit" \in Routines /\ Program("commit") = Commit
      /\ Len(Program("commit")) = 11
  BY CommitText, Programs DEF Routines
<1>2. pc.polling \in BOOLEAN /\ Place("commit", u, k, pc.polling)
  BY <1>1, Before
<1>3. Committing(u, k, pc.polling)
  BY <1>2 DEF Place
<1>4. pc.polling = FALSE
  BY <1>2, <1>3 DEF Committing
<1>5. Committing(u, k, FALSE)
  BY <1>3, <1>4
<1> DEFINE s == Commit[k]
           new == Result(s, reg[u], emu[u])
<1>6. /\ Program("commit")[k] = s /\ s[1] \notin {"inv", "sync"}
      /\ new \in Registers /\ Result(s, reg[u], emu[u]) = new
  BY <1>1
<1> HIDE DEF s, new
<1>7. Touches(u) /\ reg'[u] = new /\ ring' = ring /\ Continue
  BY <1>1, <1>4, <1>6, WriteStep
<1> QED BY <1>5, <1>7 DEF s, new

LEMMA CommitGoOn ==
  ASSUME IInv, NEW u \in UnitIds, NEW k \in Nat,
         pc.op = "commit", pc.unit = u, pc.at = k, Touches(u), Continue,
         reg'[u].fe = reg[u].fe,
         k < 11 => Committing(u, k + 1, FALSE)', k = 11 => SpySide(u)'
  PROVE  IInv'
<1> DEFINE n == Len(Program("commit"))
<1>1. "commit" \in Routines /\ n = 11
  BY CommitText, Programs DEF Routines
<1>2. Message("commit", reg[u], k)
  BY <1>1, Before
<1>3. Whole(reg'[u])
  BY <1>2 DEF Message, Whole
<1>4. Message("commit", reg'[u], k + 1)
  BY <1>3 DEF Message
<1> HIDE DEF n
<1>5. k < n => Place("commit", u, k + 1, FALSE)'
  BY <1>1 DEF Place
<1>6. k = n => Behind("commit", u)'
  BY <1>1 DEF Behind
<1> QED BY <1>1, <1>3, <1>4, <1>5, <1>6, GoOn DEF n

LEMMA CommitStep1 ==
  ASSUME IInv, Routine, NEW u \in UnitIds, NEW k \in Nat,
         pc.op = "commit", pc.unit = u, pc.at = k, k \in {1, 2, 6, 10, 11}
  PROVE  IInv'
<1> DEFINE r == reg[u]
           e == emu[u]
<1>1. r \in Registers
  BY Before DEF Routines
<1>2. CASE k = 1
  <2> DEFINE s == <<"clear", "qie">>
             new == Result(s, r, e)
  <2>1. new = [r EXCEPT !.qie = FALSE, !.head = 0] /\ new \in Registers
    BY <1>1, Commands
  <2>2. Commit[k] = s /\ s[1] \notin {"inv", "sync"} /\ k \notin 7 .. 9
    BY <1>2, CommitText
  <2> HIDE DEF s, new
  <2>3. /\ new.te = r.te /\ new.ire = r.ire /\ new.qie = FALSE /\ new.head = 0
        /\ new.fresh = r.fresh /\ new.fe = r.fe
    BY <1>1, <2>1 DEF Registers
  <2>4. /\ new = Result(Commit[k], reg[u], emu[u])
        /\ Commit[k][1] \notin {"inv", "sync"}
    BY <2>2 DEF new
  <2>5. /\ Touches(u) /\ reg'[u] = new /\ ring' = ring /\ Continue
        /\ Committing(u, k, FALSE)
    BY <2>1, <2>2, <2>4, CommitWrite, Zenon
  <2>6. Committing(u, k + 1, FALSE)'
    BY <1>2, <2>3, <2>5 DEF Committing, LinuxSide
  <2>7. reg'[u].fe = reg[u].fe
    BY <2>3, <2>5
  <2>8. k < 11 => Committing(u, k + 1, FALSE)'
    BY <2>6
  <2>9. k # 11
    BY <1>2
  <2>10. k = 11 => SpySide(u)'
    BY <2>9
  <2> QED BY <2>5, <2>7, <2>8, <2>10, CommitGoOn
<1>3. CASE k = 2
  <2> DEFINE s == <<"clear", "ire">>
             new == Result(s, r, e)
  <2>1. new = [r EXCEPT !.ire = FALSE] /\ new \in Registers
    BY <1>1, Commands
  <2>2. Commit[k] = s /\ s[1] \notin {"inv", "sync"} /\ k \notin 7 .. 9
    BY <1>3, CommitText
  <2> HIDE DEF s, new
  <2>3. /\ new.te = r.te /\ new.ire = FALSE /\ new.qie = r.qie
        /\ new.head = r.head /\ new.fe = r.fe
    BY <1>1, <2>1 DEF Registers
  <2>4. /\ new = Result(Commit[k], reg[u], emu[u])
        /\ Commit[k][1] \notin {"inv", "sync"}
    BY <2>2 DEF new
  <2>5. /\ Touches(u) /\ reg'[u] = new /\ ring' = ring /\ Continue
        /\ Committing(u, k, FALSE)
    BY <2>1, <2>2, <2>4, CommitWrite, Zenon
  <2>6. Committing(u, k + 1, FALSE)'
    BY <1>3, <2>3, <2>5 DEF Committing
  <2>7. reg'[u].fe = reg[u].fe
    BY <2>3, <2>5
  <2>8. k < 11 => Committing(u, k + 1, FALSE)'
    BY <2>6
  <2>9. k # 11
    BY <1>3
  <2>10. k = 11 => SpySide(u)'
    BY <2>9
  <2> QED BY <2>5, <2>7, <2>8, <2>10, CommitGoOn
<1>4. CASE k = 6
  <2> DEFINE s == <<"set", "qie">>
             new == Result(s, r, e)
  <2>1. new = [r EXCEPT !.qie = TRUE] /\ new \in Registers
    BY <1>1, Commands
  <2>2. Commit[k] = s /\ s[1] \notin {"inv", "sync"} /\ k \notin 7 .. 9
    BY <1>4, CommitText
  <2> HIDE DEF s, new
  <2>3. /\ new.te = r.te /\ new.ire = r.ire /\ new.qie = TRUE
        /\ new.head = r.head /\ new.tail = r.tail /\ new.root = r.root
        /\ new.irta = r.irta /\ new.irt = r.irt /\ new.iqa = r.iqa
        /\ new.fe = r.fe
    BY <1>1, <2>1 DEF Registers
  <2>4. /\ new = Result(Commit[k], reg[u], emu[u])
        /\ Commit[k][1] \notin {"inv", "sync"}
    BY <2>2 DEF new
  <2>5. /\ Touches(u) /\ reg'[u] = new /\ ring' = ring /\ Continue
        /\ Committing(u, k, FALSE)
    BY <2>1, <2>2, <2>4, CommitWrite, Zenon
  <2>6. Committing(u, k + 1, FALSE)'
    BY <1>4, <2>3, <2>5 DEF Committing
  <2>7. reg'[u].fe = reg[u].fe
    BY <2>3, <2>5
  <2>8. k < 11 => Committing(u, k + 1, FALSE)'
    BY <2>6
  <2>9. k # 11
    BY <1>4
  <2>10. k = 11 => SpySide(u)'
    BY <2>9
  <2> QED BY <2>5, <2>7, <2>8, <2>10, CommitGoOn
<1>5. CASE k = 10
  <2> DEFINE s == <<"set", "te">>
             new == Result(s, r, e)
  <2>1. new = [r EXCEPT !.te = TRUE] /\ new \in Registers
    BY <1>1, Commands
  <2>2. Commit[k] = s /\ s[1] \notin {"inv", "sync"} /\ k \notin 7 .. 9
    BY <1>5, CommitText
  <2> HIDE DEF s, new
  <2>3. /\ new.te = TRUE /\ new.ire = r.ire /\ new.qie = r.qie
        /\ new.head = r.head /\ new.tail = r.tail /\ new.root = r.root
        /\ new.irta = r.irta /\ new.irt = r.irt /\ new.iqa = r.iqa
        /\ new.fresh = r.fresh /\ new.fe = r.fe
    BY <1>1, <2>1 DEF Registers
  <2>4. /\ new = Result(Commit[k], reg[u], emu[u])
        /\ Commit[k][1] \notin {"inv", "sync"}
    BY <2>2 DEF new
  <2>5. /\ Touches(u) /\ reg'[u] = new /\ ring' = ring /\ Continue
        /\ Committing(u, k, FALSE)
    BY <2>1, <2>2, <2>4, CommitWrite, Zenon
  <2>6. Committing(u, k + 1, FALSE)'
    BY <1>5, <2>3, <2>5 DEF Committing
  <2>7. reg'[u].fe = reg[u].fe
    BY <2>3, <2>5
  <2>8. k < 11 => Committing(u, k + 1, FALSE)'
    BY <2>6
  <2>9. k # 11
    BY <1>5
  <2>10. k = 11 => SpySide(u)'
    BY <2>9
  <2> QED BY <2>5, <2>7, <2>8, <2>10, CommitGoOn
<1>6. CASE k = 11
  <2> DEFINE s == <<"set", "ire">>
             new == Result(s, r, e)
  <2>1. new = [r EXCEPT !.ire = TRUE] /\ new \in Registers
    BY <1>1, Commands
  <2>2. Commit[k] = s /\ s[1] \notin {"inv", "sync"} /\ k \notin 7 .. 9
    BY <1>6, CommitText
  <2> HIDE DEF s, new
  <2>3. /\ new.te = r.te /\ new.ire = TRUE /\ new.qie = r.qie
        /\ new.head = r.head /\ new.tail = r.tail /\ new.root = r.root
        /\ new.irta = r.irta /\ new.irt = r.irt /\ new.iqa = r.iqa
        /\ new.fresh = r.fresh /\ new.fe = r.fe
    BY <1>1, <2>1 DEF Registers
  <2>4. /\ new = Result(Commit[k], reg[u], emu[u])
        /\ Commit[k][1] \notin {"inv", "sync"}
    BY <2>2 DEF new
  <2>5. /\ Touches(u) /\ reg'[u] = new /\ ring' = ring /\ Continue
        /\ Committing(u, k, FALSE)
    BY <2>1, <2>2, <2>4, CommitWrite, Zenon
  <2>6. SpySide(u)'
    BY <1>6, <2>3, <2>5 DEF Committing, SpySide, Caches
  <2>7. reg'[u].fe = reg[u].fe
    BY <2>3, <2>5
  <2>8. ~ (k < 11)
    BY <1>6
  <2>9. k < 11 => Committing(u, k + 1, FALSE)'
    BY <2>8
  <2>10. k = 11 => SpySide(u)'
    BY <2>6
  <2> QED BY <2>5, <2>7, <2>9, <2>10, CommitGoOn
<1> QED BY <1>2, <1>3, <1>4, <1>5, <1>6

LEMMA CommitStep2 ==
  ASSUME IInv, Routine, NEW u \in UnitIds, NEW k \in Nat,
         pc.op = "commit", pc.unit = u, pc.at = k, k \in 3 .. 5
  PROVE  IInv'
<1> DEFINE r == reg[u]
           e == emu[u]
<1>1. r \in Registers /\ "spy" \in Owners
  BY Before DEF Routines, Owners
<1>2. CASE k = 3
  <2> DEFINE s == <<"root">>
             new == Result(s, r, e)
  <2>1. new = SetRoot(r, "spy") /\ new \in Registers
    <3>1. new = SetRoot(r, "spy")
      BY Results, Zenon
    <3>2. SetRoot(r, "spy") \in Registers
      <4> HIDE DEF r
      <4> QED BY <1>1, RegistersOK, Zenon
    <3> QED BY <3>1, <3>2, Zenon
  <2>2. Commit[k] = s /\ s[1] \notin {"inv", "sync"} /\ k \notin 7 .. 9
    BY <1>2, CommitText
  <2> HIDE DEF s, new
  <2>3. /\ new.te = r.te /\ new.ire = r.ire /\ new.qie = r.qie
        /\ new.head = r.head /\ new.root = "spy" /\ new.fe = r.fe
    BY <1>1, <2>1 DEF Registers, SetRoot
  <2>4. /\ new = Result(Commit[k], reg[u], emu[u])
        /\ Commit[k][1] \notin {"inv", "sync"}
    BY <2>2 DEF new
  <2>5. /\ Touches(u) /\ reg'[u] = new /\ ring' = ring /\ Continue
        /\ Committing(u, k, FALSE)
    BY <2>1, <2>2, <2>4, CommitWrite, Zenon
  <2>6. Committing(u, k + 1, FALSE)'
    BY <1>2, <2>3, <2>5 DEF Committing
  <2>7. reg'[u].fe = reg[u].fe
    BY <2>3, <2>5
  <2>8. k < 11 => Committing(u, k + 1, FALSE)'
    BY <2>6
  <2>9. k # 11
    BY <1>2
  <2>10. k = 11 => SpySide(u)'
    BY <2>9
  <2> QED BY <2>5, <2>7, <2>8, <2>10, CommitGoOn
<1>3. CASE k = 4
  <2> DEFINE s == <<"table", "spy">>
             new == Result(s, r, e)
  <2>1. new = SetTable(r, "spy") /\ new \in Registers
    <3>1. new = SetTable(r, "spy")
      BY Results, Zenon
    <3>2. SetTable(r, "spy") \in Registers
      <4> HIDE DEF r
      <4> QED BY <1>1, RegistersOK, Zenon
    <3> QED BY <3>1, <3>2, Zenon
  <2>2. Commit[k] = s /\ s[1] \notin {"inv", "sync"} /\ k \notin 7 .. 9
    BY <1>3, CommitText
  <2> HIDE DEF s, new
  <2>3. /\ new.te = r.te /\ new.ire = r.ire /\ new.qie = r.qie
        /\ new.head = r.head /\ new.root = r.root /\ new.fe = r.fe
        /\ new.irta = "spy" /\ new.irt = "spy"
    BY <1>1, <2>1 DEF Registers, SetTable
  <2>4. /\ new = Result(Commit[k], reg[u], emu[u])
        /\ Commit[k][1] \notin {"inv", "sync"}
    BY <2>2 DEF new
  <2>5. /\ Touches(u) /\ reg'[u] = new /\ ring' = ring /\ Continue
        /\ Committing(u, k, FALSE)
    BY <2>1, <2>2, <2>4, CommitWrite, Zenon
  <2>6. Committing(u, k + 1, FALSE)'
    BY <1>3, <2>3, <2>5 DEF Committing
  <2>7. reg'[u].fe = reg[u].fe
    BY <2>3, <2>5
  <2>8. k < 11 => Committing(u, k + 1, FALSE)'
    BY <2>6
  <2>9. k # 11
    BY <1>3
  <2>10. k = 11 => SpySide(u)'
    BY <2>9
  <2> QED BY <2>5, <2>7, <2>8, <2>10, CommitGoOn
<1>4. CASE k = 5
  <2> DEFINE s == <<"queue", "spy">>
             new == Result(s, r, e)
  <2>1. new = SetQueue(r, "spy") /\ new \in Registers
    <3>1. new = SetQueue(r, "spy")
      BY Results, Zenon
    <3>2. SetQueue(r, "spy") \in Registers
      <4> HIDE DEF r
      <4> QED BY <1>1, RegistersOK, Zenon
    <3> QED BY <3>1, <3>2, Zenon
  <2>2. Commit[k] = s /\ s[1] \notin {"inv", "sync"} /\ k \notin 7 .. 9
    BY <1>4, CommitText
  <2> HIDE DEF s, new
  <2>3. /\ new.te = r.te /\ new.ire = r.ire /\ new.qie = r.qie
        /\ new.head = r.head /\ new.root = r.root /\ new.fe = r.fe
        /\ new.irta = r.irta /\ new.irt = r.irt /\ new.iqa = "spy"
        /\ new.tail = 0
    BY <1>1, <2>1 DEF Registers, SetQueue
  <2>4. /\ new = Result(Commit[k], reg[u], emu[u])
        /\ Commit[k][1] \notin {"inv", "sync"}
    BY <2>2 DEF new
  <2>5. /\ Touches(u) /\ reg'[u] = new /\ ring' = ring /\ Continue
        /\ Committing(u, k, FALSE)
    BY <2>1, <2>2, <2>4, CommitWrite, Zenon
  <2>6. Committing(u, k + 1, FALSE)'
    BY <1>4, <2>3, <2>5 DEF Committing
  <2>7. reg'[u].fe = reg[u].fe
    BY <2>3, <2>5
  <2>8. k < 11 => Committing(u, k + 1, FALSE)'
    BY <2>6
  <2>9. k # 11
    BY <1>4
  <2>10. k = 11 => SpySide(u)'
    BY <2>9
  <2> QED BY <2>5, <2>7, <2>8, <2>10, CommitGoOn
<1> QED BY <1>2, <1>3, <1>4

\* The requests of vtd_init_unit, and the wait for their completion.
LEMMA Requested ==
  ASSUME IInv, Routine, NEW op \in Routines, NEW u \in UnitIds, NEW k,
         pc.op = op, pc.unit = u, pc.at = k, Program(op)[k][1] = "inv"
  PROVE  \/ /\ ~ pc.polling /\ Touches(u) /\ ring' = ring
            /\ reg'[u] = Advance(reg[u], 2)
            /\ pc' = [pc EXCEPT !.polling = TRUE]
         \/ /\ pc.polling /\ reg[u].head = reg[u].tail /\ Continue
            /\ Touches(u) /\ reg' = reg /\ ring' = ring
<1> DEFINE s == Program(op)[k]
           r == reg[u]
           new == Advance(r, 2)
<1>1. s[1] = "inv" /\ (Write(s) \/ Submit(s) \/ Sync(s) \/ Completed(s))
  BY DEF Routine
<1>2. Submit(s) \/ Completed(s)
  <2>1. ~ Write(s) /\ ~ Sync(s)
    BY <1>1 DEF Write, Sync
  <2> QED BY <1>1, <2>1
<1>3. r \in Registers
  BY Before
<1>4. new \in Registers
  BY <1>3, RegistersOK
<1>5. CASE Submit(s)
  <2>1. /\ ~ pc.polling /\ pc' = [pc EXCEPT !.polling = TRUE] /\ ring' = ring
        /\ lost' = lost
        /\ reg' = [reg EXCEPT ![u] = new]
    BY <1>5 DEF Submit, Poll
  <2> HIDE DEF new
  <2>2. Touches(u) /\ reg'[u] = new
    BY <1>4, <2>1, RegisterTouches
  <2> QED BY <2>1, <2>2 DEF new
<1>6. CASE Completed(s)
  <2>1. /\ pc.polling /\ r.head = r.tail /\ Continue /\ reg' = reg /\ ring' = ring
        /\ lost' = lost
    BY <1>1, <1>6 DEF Completed
  <2>2. reg' = [reg EXCEPT ![u] = r]
    BY <2>1 DEF IInv, TypeOK
  <2> HIDE DEF r
  <2>3. Touches(u)
    BY <1>3, <2>1, <2>2, RegisterTouches
  <2> QED BY <2>1, <2>3 DEF r
<1> QED BY <1>2, <1>5, <1>6

LEMMA CommitStep3 ==
  ASSUME IInv, Routine, NEW u \in UnitIds, NEW k \in Nat,
         pc.op = "commit", pc.unit = u, pc.at = k, k \in 7 .. 9
  PROVE  IInv'
<1> DEFINE r == reg[u]
           cache == Commit[k][2]
           n == Len(Program("commit"))
<1>1. /\ "commit" \in Routines /\ n = 11
      /\ Program("commit")[k][1] = "inv"
      /\ cache = CASE k = 7 -> "context" [] k = 8 -> "iotlb" [] k = 9 -> "int"
  BY CommitText, Programs DEF Routines
<1>2. r \in Registers /\ Place("commit", u, k, pc.polling) /\ pc.polling \in BOOLEAN
  BY <1>1, Before
<1>3. Committing(u, k, pc.polling)
  BY <1>2 DEF Place
<1> HIDE DEF n, cache, r
<1>4. CASE /\ ~ pc.polling /\ Touches(u) /\ ring' = ring
           /\ reg'[u] = Advance(reg[u], 2)
           /\ pc' = [pc EXCEPT !.polling = TRUE]
  <2> DEFINE t == (r.tail + 2) % QSize
             new == [r EXCEPT !.tail = t]
  <2>1. reg'[u] = new
    BY <1>4 DEF Advance, r
  <2> HIDE DEF t
  <2>2. /\ new.te = r.te /\ new.ire = r.ire /\ new.qie = r.qie
        /\ new.head = r.head /\ new.tail = t /\ new.root = r.root
        /\ new.irta = r.irta /\ new.irt = r.irt /\ new.iqa = r.iqa
        /\ new.fresh = r.fresh /\ new.fe = r.fe /\ new.im = r.im
    BY <1>2 DEF Registers
  <2> HIDE DEF new
  <2>3. r.head = r.tail
    BY <1>3, <1>4 DEF Committing, r
  <2>4. (t - r.head) % QSize = 2
    <3>1. r.tail \in Index
      BY <1>2 DEF Registers
    <3>2. 2 \in 1 .. 2
      OBVIOUS
    <3>3. (t - r.tail) % QSize = 2
      BY <3>1, <3>2, Distance DEF t
    <3> QED BY <2>3, <3>3
  <2>5. Answering(u, cache)'
    <3>1. (reg'[u].tail - reg'[u].head) % QSize = 2
      BY <2>1, <2>2, <2>4
    <3> QED BY <3>1 DEF Answering
  <2>6. Committing(u, k, TRUE)'
    <3>1. Committing(u, k, FALSE)
      BY <1>2, <1>3, <1>4
    <3> QED BY <2>1, <2>2, <2>5, <3>1 DEF Committing, cache, r
  <2>7. k < n
    BY <1>1
  <2>8. Place("commit", u, k, TRUE)'
    BY <2>6 DEF Place
  <2>9. reg'[u].fe = reg[u].fe /\ reg'[u].im = reg[u].im
    BY <2>1, <2>2 DEF r
  <2>10. Touches(u) /\ pc' = [pc EXCEPT !.polling = TRUE] /\ TRUE \in BOOLEAN
         /\ "commit" # "faults"
    BY <1>4
  <2> QED BY <1>1, <2>7, <2>8, <2>9, <2>10, Stay, Zenon DEF n
<1>5. CASE /\ pc.polling /\ reg[u].head = reg[u].tail /\ Continue
           /\ Touches(u) /\ reg' = reg /\ ring' = ring
  <2>1. Committing(u, k, TRUE)
    BY <1>2, <1>3, <1>5
  <2>2. cache \in reg[u].fresh
    <3>1. Answering(u, cache)
      BY <2>1 DEF Committing, cache
    <3>2. reg[u].tail \in Index /\ reg[u].head \in Index
      BY <1>2 DEF Registers, r
    <3>3. (reg[u].tail - reg[u].head) % QSize = 0
      BY <1>5, <3>2, Distance
    <3> QED BY <3>1, <3>3 DEF Answering
  <2>3. Committing(u, k + 1, FALSE)'
    <3>1. reg'[u] = reg[u]
      BY <1>5
    <3>2. CASE k = 7
      BY <1>1, <1>5, <2>1, <2>2, <3>1, <3>2 DEF Committing
    <3>3. CASE k = 8
      BY <1>1, <1>5, <2>1, <2>2, <3>1, <3>3 DEF Committing
    <3>4. CASE k = 9
      BY <1>1, <1>5, <2>1, <2>2, <3>1, <3>4 DEF Committing
    <3>5. k = 7 \/ k = 8 \/ k = 9
      OBVIOUS
    <3> QED BY <3>2, <3>3, <3>4, <3>5
  <2>4. k < 11 => Committing(u, k + 1, FALSE)'
    BY <2>3
  <2>5. k # 11
    OBVIOUS
  <2>6. k = 11 => SpySide(u)'
    BY <2>5
  <2>7. Touches(u) /\ Continue /\ reg'[u].fe = reg[u].fe
    BY <1>5
  <2> QED BY <2>4, <2>6, <2>7, CommitGoOn
<1> QED BY <1>1, <1>4, <1>5, Requested

LEMMA CommitStep ==
  ASSUME IInv, Routine, NEW u \in UnitIds, NEW k \in Nat,
         pc.op = "commit", pc.unit = u, pc.at = k
  PROVE  IInv'
<1>1. k \in 1 .. 11
  BY CommitText, Programs DEF IInv, PcOK, Routines
<1>2. \/ k \in {1, 2, 6, 10, 11} \/ k \in 3 .. 5 \/ k \in 7 .. 9
  BY <1>1
<1> QED BY <1>2, CommitStep1, CommitStep2, CommitStep3

-----------------------------------------------------------------------------
\* A statement of iommu_prepare_shutdown or vtd_restore_ir that writes registers.
LEMMA ShutdownWrite ==
  ASSUME IInv, Routine, NEW u \in UnitIds, NEW k \in Nat,
         pc.op = "shutdown", pc.unit = u, pc.at = k, k \notin {4, 8},
         Shutdown[k][1] \notin {"inv", "sync"},
         Result(Shutdown[k], reg[u], emu[u]) \in Registers
  PROVE  /\ Touches(u) /\ reg'[u] = Result(Shutdown[k], reg[u], emu[u])
         /\ ring' = ring /\ lost' = lost /\ Continue /\ Stopping(u, k, FALSE)
<1>1. "shutdown" \in Routines /\ Program("shutdown") = Shutdown
  BY Programs DEF Routines
<1>2. pc.polling \in BOOLEAN /\ Place("shutdown", u, k, pc.polling)
  BY <1>1, Before
<1>3. Stopping(u, k, pc.polling)
  BY <1>2 DEF Place
<1>4. pc.polling = FALSE
  BY <1>2, <1>3 DEF Stopping
<1>5. Stopping(u, k, FALSE)
  BY <1>3, <1>4
<1> DEFINE s == Shutdown[k]
           new == Result(s, reg[u], emu[u])
<1>6. /\ Program("shutdown")[k] = s /\ s[1] \notin {"inv", "sync"}
      /\ new \in Registers /\ Result(s, reg[u], emu[u]) = new
  BY <1>1
<1> HIDE DEF s, new
<1>7. /\ Touches(u) /\ reg'[u] = new /\ ring' = ring /\ lost' = lost
      /\ Continue
  BY <1>1, <1>4, <1>6, WriteStep
<1> QED BY <1>5, <1>7 DEF s, new

LEMMA ShutdownGoOn ==
  ASSUME IInv, NEW u \in UnitIds, NEW k \in Nat,
         pc.op = "shutdown", pc.unit = u, pc.at = k, Touches(u), Continue,
         k < Len(Shutdown) => /\ Stopping(u, k + 1, FALSE)'
                              /\ Message("shutdown", reg'[u], k + 1),
         k = Len(Shutdown) => LinuxSide(u)' /\ Whole(reg'[u]) /\ Returned(u)'
  PROVE  IInv'
<1> DEFINE n == Len(Program("shutdown"))
<1>1. "shutdown" \in Routines /\ n = Len(Shutdown)
  BY Programs DEF Routines
<1> HIDE DEF n
<1>2. k < n => Place("shutdown", u, k + 1, FALSE)'
               /\ Message("shutdown", reg'[u], k + 1)
  BY <1>1 DEF Place
<1>3. k = n => Behind("shutdown", u)' /\ Whole(reg'[u]) /\ Returned(u)'
  BY <1>1 DEF Behind
<1> QED BY <1>1, <1>2, <1>3, GoOn DEF n

\* Up to statement 9 the fault event is Linux's.
LEMMA ShutdownNext ==
  ASSUME IInv, NEW u \in UnitIds, NEW k \in Nat,
         pc.op = "shutdown", pc.unit = u, pc.at = k, Touches(u), Continue,
         k <= 9, k < Len(Shutdown), reg'[u].fe = reg[u].fe,
         Stopping(u, k + 1, FALSE)'
  PROVE  IInv'
<1>1. Message("shutdown", reg[u], k)
  BY Before DEF Routines
<1>2. Message("shutdown", reg'[u], k + 1)
  BY <1>1 DEF Message, Whole
<1> DEFINE n == Len(Shutdown)
<1>3. k # n /\ k < n
  BY ShutdownText
<1> HIDE DEF n
<1>4. k = n => LinuxSide(u)' /\ Whole(reg'[u]) /\ Returned(u)'
  BY <1>3
<1>5. k < n => /\ Stopping(u, k + 1, FALSE)'
               /\ Message("shutdown", reg'[u], k + 1)
  BY <1>2
<1> QED BY <1>4, <1>5, ShutdownGoOn DEF n

\* Translation, and the remapping of interrupts, are switched off.
LEMMA ShutdownStep1 ==
  ASSUME IInv, Routine, NEW u \in UnitIds, NEW k \in Nat,
         pc.op = "shutdown", pc.unit = u, pc.at = k, k \in 1 .. 2
  PROVE  IInv'
<1> DEFINE r == reg[u]
           n == Len(Shutdown)
<1>1. r \in Registers
  BY Before DEF Routines
<1>2. k < n
  <2>1. n = 3 \/ n = 14
    BY ShutdownText
  <2> HIDE DEF n
  <2> QED BY <2>1
<1> HIDE DEF n
<1>3. CASE k = 1
  <2> DEFINE s == <<"clear", "te">>
             new == Result(s, r, emu[u])
  <2>1. new = [r EXCEPT !.te = FALSE] /\ new \in Registers
    BY <1>1, Commands
  <2>2. Shutdown[k] = s /\ s[1] \notin {"inv", "sync"} /\ k \notin {4, 8}
    BY <1>3, ShutdownText
  <2> HIDE DEF s, new
  <2>3. /\ new.te = FALSE /\ new.ire = r.ire /\ new.qie = r.qie
        /\ new.head = r.head /\ new.tail = r.tail /\ new.iqa = r.iqa
        /\ new.fresh = r.fresh /\ new.fe = r.fe
    BY <1>1, <2>1 DEF Registers
  <2>4. /\ new = Result(Shutdown[k], reg[u], emu[u])
        /\ Shutdown[k][1] \notin {"inv", "sync"}
    BY <2>2 DEF new
  <2>5. /\ Touches(u) /\ reg'[u] = new /\ ring' = ring /\ Continue
        /\ Stopping(u, k, FALSE)
    BY <2>1, <2>2, <2>4, ShutdownWrite, Zenon
  <2>6. Stopping(u, k + 1, FALSE)'
    BY <1>3, <2>3, <2>5 DEF Stopping, SpySide, Caches
  <2>7. reg'[u].fe = reg[u].fe /\ k <= 9
    BY <2>3, <2>5
  <2> QED BY <1>2, <2>5, <2>6, <2>7, ShutdownNext DEF n
<1>4. CASE k = 2
  <2> DEFINE s == <<"clear", "ire">>
             new == Result(s, r, emu[u])
  <2>1. new = [r EXCEPT !.ire = FALSE] /\ new \in Registers
    BY <1>1, Commands
  <2>2. Shutdown[k] = s /\ s[1] \notin {"inv", "sync"} /\ k \notin {4, 8}
    BY <1>4, ShutdownText
  <2> HIDE DEF s, new
  <2>3. /\ new.te = r.te /\ new.ire = FALSE /\ new.qie = r.qie
        /\ new.head = r.head /\ new.tail = r.tail /\ new.iqa = r.iqa
        /\ new.fe = r.fe
    BY <1>1, <2>1 DEF Registers
  <2>4. /\ new = Result(Shutdown[k], reg[u], emu[u])
        /\ Shutdown[k][1] \notin {"inv", "sync"}
    BY <2>2 DEF new
  <2>5. /\ Touches(u) /\ reg'[u] = new /\ ring' = ring /\ Continue
        /\ Stopping(u, k, FALSE)
    BY <2>1, <2>2, <2>4, ShutdownWrite, Zenon
  <2>6. Stopping(u, k + 1, FALSE)'
    BY <1>4, <2>3, <2>5 DEF Stopping
  <2>7. reg'[u].fe = reg[u].fe /\ k <= 9
    BY <2>3, <2>5
  <2> QED BY <1>2, <2>5, <2>6, <2>7, ShutdownNext DEF n
<1>5. k = 1 \/ k = 2
  OBVIOUS
<1> QED BY <1>3, <1>4, <1>5

\* Without units to restore, the queue is switched off last.
LEMMA ShutdownEnd ==
  ASSUME IInv, Routine, NEW u \in UnitIds, NEW k \in Nat,
         pc.op = "shutdown", pc.unit = u, pc.at = k, k = 3, ~ ir
  PROVE  IInv'
<1> DEFINE r == reg[u]
           s == <<"clear", "qie">>
           new == Result(s, r, emu[u])
<1>1. r \in Registers /\ Recorded(u) /\ Message("shutdown", r, k)
  BY Before DEF Routines
<1>2. new = [r EXCEPT !.qie = FALSE, !.head = 0] /\ new \in Registers
  BY <1>1, Commands
<1>3. Shutdown[k] = s /\ s[1] \notin {"inv", "sync"} /\ k \notin {4, 8}
  BY ShutdownText
<1> HIDE DEF s, new
<1>4. /\ new.te = r.te /\ new.ire = r.ire /\ new.qie = FALSE /\ new.fe = r.fe
  BY <1>1, <1>2 DEF Registers
<1>5. /\ new = Result(Shutdown[k], reg[u], emu[u])
      /\ Shutdown[k][1] \notin {"inv", "sync"}
  BY <1>3 DEF new
<1>6. /\ Touches(u) /\ reg'[u] = new /\ ring' = ring /\ Continue
      /\ Stopping(u, k, FALSE)
  BY <1>2, <1>3, <1>5, ShutdownWrite, Zenon
<1>7. linux' = linux /\ ir' = ir
  BY <1>6 DEF Touches
<1>8. ~ new.te /\ ~ new.ire /\ ~ new.qie
  BY <1>4, <1>6 DEF Stopping
<1>9. linux[u] # "other" /\ linux[u] # "on"
  BY <1>1 DEF Recorded
<1>10. LinuxSide(u)'
  BY <1>6, <1>7, <1>8, <1>9 DEF LinuxSide
<1>11. Whole(reg'[u])
  BY <1>1, <1>4, <1>6 DEF Message, Whole
<1> DEFINE n == Len(Shutdown)
<1>12. n = 3
  BY ShutdownText
<1> HIDE DEF n
<1>13. ~ (k < n)
  BY <1>12
<1>14. k < n => /\ Stopping(u, k + 1, FALSE)'
                /\ Message("shutdown", reg'[u], k + 1)
  BY <1>13
<1>15. k = n => LinuxSide(u)' /\ Whole(reg'[u]) /\ Returned(u)'
  BY <1>7, <1>9, <1>10, <1>11 DEF Returned
<1> QED BY <1>6, <1>14, <1>15, ShutdownGoOn DEF n

\* Linux's table and queue are put back, its queue running.
LEMMA RestoreStep1 ==
  ASSUME IInv, Routine, NEW u \in UnitIds, NEW k \in Nat,
         pc.op = "shutdown", pc.unit = u, pc.at = k, ir, k \in {3, 5, 6, 7, 9}
  PROVE  IInv'
<1> DEFINE r == reg[u]
           e == emu[u]
           n == Len(Shutdown)
<1>1. r \in Registers /\ Recorded(u) /\ e.irta \in Owners /\ e.iqa \in Owners
  <2>1. e \in [iqh : Index, iqa : Owners, irta : Owners, im : BOOLEAN]
    BY Before DEF Routines
  <2>2. r \in Registers /\ Recorded(u)
    BY Before DEF Routines
  <2> QED BY <2>1, <2>2
<1>2. k < n
  <2>1. n = 14
    BY ShutdownText
  <2> HIDE DEF n
  <2> QED BY <2>1
<1> HIDE DEF n
<1>3. ASSUME Touches(u), Continue, reg'[u].fe = r.fe, Stopping(u, k + 1, FALSE)'
      PROVE  IInv'
  <2>1. k <= 9
    OBVIOUS
  <2> QED BY <1>2, <1>3, <2>1, ShutdownNext DEF n
<1>4. CASE k = 3
  <2> DEFINE s == <<"table", "linux">>
             new == Result(s, r, e)
  <2>1. new = SetTable(r, e.irta) /\ new \in Registers
    <3>1. SetTable(r, e.irta) \in Registers
      BY <1>1, RegistersOK
    <3>2. new = SetTable(r, e.irta)
      BY Results
    <3> QED BY <3>1, <3>2
  <2>2. Shutdown[k] = s /\ s[1] \notin {"inv", "sync"} /\ k \notin {4, 8}
    BY <1>4, ShutdownText
  <2> HIDE DEF s, new
  <2>3. /\ new.te = r.te /\ new.ire = r.ire /\ new.qie = r.qie
        /\ new.head = r.head /\ new.tail = r.tail /\ new.iqa = r.iqa
        /\ new.irta = e.irta /\ new.irt = e.irta /\ new.fe = r.fe
    BY <1>1, <2>1 DEF Registers, SetTable
  <2>4. /\ new = Result(Shutdown[k], reg[u], emu[u])
        /\ Shutdown[k][1] \notin {"inv", "sync"}
    BY <2>2 DEF new
  <2>5. /\ Touches(u) /\ reg'[u] = new /\ ring' = ring /\ Continue
        /\ Stopping(u, k, FALSE)
    BY <2>1, <2>2, <2>4, ShutdownWrite, Zenon
  <2>6. linux' = linux
    BY <2>5 DEF Touches
  <2>7. Stopping(u, k + 1, FALSE)'
    BY <1>1, <1>4, <2>3, <2>5, <2>6 DEF Stopping, Recorded
  <2> QED BY <1>3, <2>3, <2>5, <2>7
<1>5. CASE k = 5
  <2> DEFINE s == <<"clear", "qie">>
             new == Result(s, r, e)
  <2>1. new = [r EXCEPT !.qie = FALSE, !.head = 0] /\ new \in Registers
    BY <1>1, Commands
  <2>2. Shutdown[k] = s /\ s[1] \notin {"inv", "sync"} /\ k \notin {4, 8}
    BY <1>5, ShutdownText
  <2> HIDE DEF s, new
  <2>3. /\ new.te = r.te /\ new.ire = r.ire /\ new.qie = FALSE
        /\ new.head = 0 /\ new.tail = r.tail /\ new.iqa = r.iqa
        /\ new.irta = r.irta /\ new.irt = r.irt /\ new.fresh = r.fresh
        /\ new.fe = r.fe
    BY <1>1, <2>1 DEF Registers
  <2>4. /\ new = Result(Shutdown[k], reg[u], emu[u])
        /\ Shutdown[k][1] \notin {"inv", "sync"}
    BY <2>2 DEF new
  <2>5. /\ Touches(u) /\ reg'[u] = new /\ ring' = ring /\ Continue
        /\ Stopping(u, k, FALSE)
    BY <2>1, <2>2, <2>4, ShutdownWrite, Zenon
  <2>6. linux' = linux
    BY <2>5 DEF Touches
  <2>7. Stopping(u, k + 1, FALSE)'
    BY <1>5, <2>3, <2>5, <2>6 DEF Stopping
  <2> QED BY <1>3, <2>3, <2>5, <2>7
<1>6. CASE k = 6
  <2> DEFINE s == <<"queue", "linux">>
             new == Result(s, r, e)
  <2>1. new = SetQueue(r, e.iqa) /\ new \in Registers
    <3>1. SetQueue(r, e.iqa) \in Registers
      BY <1>1, RegistersOK
    <3>2. new = SetQueue(r, e.iqa)
      BY Results
    <3> QED BY <3>1, <3>2
  <2>2. Shutdown[k] = s /\ s[1] \notin {"inv", "sync"} /\ k \notin {4, 8}
    BY <1>6, ShutdownText
  <2> HIDE DEF s, new
  <2>3. /\ new.te = r.te /\ new.ire = r.ire /\ new.qie = r.qie
        /\ new.head = r.head /\ new.tail = 0 /\ new.iqa = e.iqa
        /\ new.irta = r.irta /\ new.irt = r.irt /\ new.fresh = r.fresh
        /\ new.fe = r.fe
    BY <1>1, <2>1 DEF Registers, SetQueue
  <2>4. /\ new = Result(Shutdown[k], reg[u], emu[u])
        /\ Shutdown[k][1] \notin {"inv", "sync"}
    BY <2>2 DEF new
  <2>5. /\ Touches(u) /\ reg'[u] = new /\ ring' = ring /\ Continue
        /\ Stopping(u, k, FALSE)
    BY <2>1, <2>2, <2>4, ShutdownWrite, Zenon
  <2>6. linux' = linux /\ emu' = emu
    BY <2>5 DEF Touches
  <2>7. Stopping(u, k + 1, FALSE)'
    BY <1>6, <2>3, <2>5, <2>6 DEF Stopping
  <2> QED BY <1>3, <2>3, <2>5, <2>7
<1>7. CASE k = 7
  <2> DEFINE s == <<"set", "qie">>
             new == Result(s, r, e)
  <2>1. new = [r EXCEPT !.qie = TRUE] /\ new \in Registers
    BY <1>1, Commands
  <2>2. Shutdown[k] = s /\ s[1] \notin {"inv", "sync"} /\ k \notin {4, 8}
    BY <1>7, ShutdownText
  <2> HIDE DEF s, new
  <2>3. /\ new.te = r.te /\ new.ire = r.ire /\ new.qie = TRUE
        /\ new.head = r.head /\ new.tail = r.tail /\ new.iqa = r.iqa
        /\ new.irta = r.irta /\ new.irt = r.irt /\ new.fresh = r.fresh
        /\ new.fe = r.fe
    BY <1>1, <2>1 DEF Registers
  <2>4. /\ new = Result(Shutdown[k], reg[u], emu[u])
        /\ Shutdown[k][1] \notin {"inv", "sync"}
    BY <2>2 DEF new
  <2>5. /\ Touches(u) /\ reg'[u] = new /\ ring' = ring /\ Continue
        /\ Stopping(u, k, FALSE)
    BY <2>1, <2>2, <2>4, ShutdownWrite, Zenon
  <2>6. linux' = linux /\ emu' = emu
    BY <2>5 DEF Touches
  <2>7. Stopping(u, k + 1, FALSE)'
    BY <1>7, <2>3, <2>5, <2>6 DEF Stopping
  <2> QED BY <1>3, <2>3, <2>5, <2>7
<1>8. CASE k = 9
  <2> DEFINE s == <<"set", "ire">>
             new == Result(s, r, e)
  <2>1. new = [r EXCEPT !.ire = TRUE] /\ new \in Registers
    BY <1>1, Commands
  <2>2. Shutdown[k] = s /\ s[1] \notin {"inv", "sync"} /\ k \notin {4, 8}
    BY <1>8, ShutdownText
  <2> HIDE DEF s, new
  <2>3. /\ new.te = r.te /\ new.ire = TRUE /\ new.qie = r.qie
        /\ new.head = r.head /\ new.tail = r.tail /\ new.iqa = r.iqa
        /\ new.irta = r.irta /\ new.irt = r.irt /\ new.fresh = r.fresh
        /\ new.fe = r.fe
    BY <1>1, <2>1 DEF Registers
  <2>4. /\ new = Result(Shutdown[k], reg[u], emu[u])
        /\ Shutdown[k][1] \notin {"inv", "sync"}
    BY <2>2 DEF new
  <2>5. /\ Touches(u) /\ reg'[u] = new /\ lost' = lost /\ Continue
        /\ Stopping(u, k, FALSE)
    BY <2>1, <2>2, <2>4, ShutdownWrite, Zenon
  <2>6. linux' = linux /\ emu' = emu /\ log' = log /\ sent' = sent
    BY <2>5 DEF Touches
  <2>7. Stopping(u, k + 1, FALSE)'
    BY <1>8, <2>3, <2>5, <2>6 DEF Stopping, InPlace, Position, LinuxTail
  <2> QED BY <1>3, <2>3, <2>5, <2>7
<1>9. k = 3 \/ k = 5 \/ k = 6 \/ k = 7 \/ k = 9
  OBVIOUS
<1> QED BY <1>4, <1>5, <1>6, <1>7, <1>8, <1>9

\* The flush of the interrupt cache.
LEMMA RestoreStep2 ==
  ASSUME IInv, Routine, NEW u \in UnitIds, NEW k \in Nat,
         pc.op = "shutdown", pc.unit = u, pc.at = k, ir, k = 4
  PROVE  IInv'
<1> DEFINE r == reg[u]
           n == Len(Shutdown)
<1>1. /\ "shutdown" \in Routines /\ Program("shutdown") = Shutdown
      /\ Shutdown[4] = <<"inv", "int">> /\ n = 14
  BY Programs, ShutdownText DEF Routines
<1>2. Program("shutdown")[k] = <<"inv", "int">>
  BY <1>1
<1>3. Program("shutdown")[k][1] = "inv"
  BY <1>2
<1>4. r \in Registers /\ Place("shutdown", u, k, pc.polling)
      /\ pc.polling \in BOOLEAN
  BY <1>1, Before
<1>5. Stopping(u, k, pc.polling)
  BY <1>4 DEF Place
<1> HIDE DEF n, r
<1>6. k < n
  BY <1>1
<1>7. CASE /\ ~ pc.polling /\ Touches(u) /\ ring' = ring
           /\ reg'[u] = Advance(reg[u], 2)
           /\ pc' = [pc EXCEPT !.polling = TRUE]
  <2> DEFINE t == (r.tail + 2) % QSize
             new == [r EXCEPT !.tail = t]
  <2>1. reg'[u] = new
    BY <1>7 DEF Advance, r
  <2> HIDE DEF t
  <2>2. /\ new.te = r.te /\ new.ire = r.ire /\ new.qie = r.qie
        /\ new.head = r.head /\ new.tail = t
        /\ new.irta = r.irta /\ new.irt = r.irt /\ new.iqa = r.iqa
        /\ new.fresh = r.fresh /\ new.fe = r.fe /\ new.im = r.im
    BY <1>4 DEF Registers
  <2> HIDE DEF new
  <2>3. Stopping(u, k, FALSE)
    BY <1>4, <1>5, <1>7
  <2>4. r.head = r.tail
    BY <2>3 DEF Stopping, r
  <2>5. (t - r.head) % QSize = 2
    <3>1. r.tail \in Index
      BY <1>4 DEF Registers
    <3>2. 2 \in 1 .. 2
      OBVIOUS
    <3>3. (t - r.tail) % QSize = 2
      <4> DEFINE a == r.tail
      <4>1. a \in Index
        BY <3>1
      <4> HIDE DEF a
      <4>2. \A i \in 1 .. 2 : /\ (a + i) % QSize \in Index
                             /\ (a + i) % QSize # a
                             /\ (((a + i) % QSize) - a) % QSize = i
        BY <4>1, Distance, Zenon
      <4>3. (((a + 2) % QSize) - a) % QSize = 2
        BY <3>2, <4>2, Zenon
      <4> QED BY <4>3, Zenon DEF a, t
    <3> QED BY <2>4, <3>3
  <2>6. Answering(u, "int")'
    <3>1. (reg'[u].tail - reg'[u].head) % QSize = 2
      BY <2>1, <2>2, <2>5
    <3> QED BY <3>1 DEF Answering
  <2>7. linux' = linux
    BY <1>7 DEF Touches
  <2>8. Stopping(u, k, TRUE)'
    BY <2>1, <2>2, <2>3, <2>6, <2>7 DEF Stopping, r
  <2>9. Place("shutdown", u, k, TRUE)'
    BY <2>8 DEF Place
  <2>10. reg'[u].fe = reg[u].fe /\ reg'[u].im = reg[u].im
    BY <2>1, <2>2 DEF r
  <2>11. k < Len(Program("shutdown"))
    BY <1>1, <1>6 DEF n
  <2>12. Touches(u) /\ pc' = [pc EXCEPT !.polling = TRUE] /\ TRUE \in BOOLEAN
         /\ "shutdown" # "faults"
    BY <1>7
  <2> QED BY <1>1, <2>9, <2>10, <2>11, <2>12, Stay, Zenon
<1>8. CASE /\ pc.polling /\ reg[u].head = reg[u].tail /\ Continue
           /\ Touches(u) /\ reg' = reg /\ ring' = ring
  <2>1. Stopping(u, k, TRUE)
    BY <1>4, <1>5, <1>8
  <2>2. "int" \in reg[u].fresh
    <3>1. Answering(u, "int")
      BY <2>1 DEF Stopping
    <3>2. reg[u].tail \in Index /\ reg[u].head \in Index
      BY <1>4 DEF Registers, r
    <3>3. (reg[u].tail - reg[u].head) % QSize = 0
      BY <1>8, <3>2, Distance
    <3> QED BY <3>1, <3>3 DEF Answering
  <2>3. linux' = linux /\ reg'[u] = reg[u]
    BY <1>8 DEF Touches
  <2>4. Stopping(u, k + 1, FALSE)'
    BY <1>8, <2>1, <2>2, <2>3 DEF Stopping
  <2>5. /\ Touches(u) /\ Continue /\ reg'[u].fe = reg[u].fe /\ k <= 9
        /\ k < Len(Shutdown)
    BY <1>6, <1>8 DEF n
  <2> QED BY <2>4, <2>5, ShutdownNext
<1> QED BY <1>1, <1>3, <1>7, <1>8, Requested

\* The queue is stepped on to where the emulation has stopped.
LEMMA RestoreStep3 ==
  ASSUME IInv, Routine, NEW u \in UnitIds, NEW k \in Nat,
         pc.op = "shutdown", pc.unit = u, pc.at = k, ir, k = 8
  PROVE  IInv'
<1> DEFINE r == reg[u]
           n == Len(Shutdown)
           s == Program("shutdown")[k]
<1>1. /\ "shutdown" \in Routines /\ Program("shutdown") = Shutdown
      /\ Shutdown[8] = <<"sync">> /\ n = 14
  BY Programs, ShutdownText DEF Routines
<1>2. s[1] = "sync"
  BY <1>1
<1>3. /\ r \in Registers /\ Place("shutdown", u, k, pc.polling)
      /\ pc.polling \in BOOLEAN /\ Recorded(u) /\ Served(u) /\ Pending(u)
      /\ reg \in [UnitIds -> Registers]
  BY <1>1, Before
<1>4. Stopping(u, k, pc.polling)
  BY <1>3 DEF Place
<1>5. (~ pc.polling /\ (Dummy(u) \/ Unmapped(u))) \/ Completed(s)
  <2>1. Write(s) \/ Submit(s) \/ Sync(s) \/ Completed(s)
    BY DEF Routine
  <2>2. ~ Write(s) /\ ~ Submit(s)
    BY <1>2 DEF Write, Submit
  <2> QED BY <2>1, <2>2 DEF Sync
<1> HIDE DEF n, s
<1>6. k < n
  BY <1>1
<1>7. r.head \in Index /\ r.tail \in Index
  BY <1>3 DEF Registers
<1>8. ASSUME Touches(u), NEW p \in BOOLEAN, Stopping(u, k, p)',
             pc' = [pc EXCEPT !.polling = p],
             reg'[u].fe = reg[u].fe, reg'[u].im = reg[u].im
      PROVE  IInv'
  <2>1. Place("shutdown", u, k, p)' /\ "shutdown" # "faults"
    BY <1>8 DEF Place
  <2>2. k < Len(Program("shutdown"))
    BY <1>1, <1>6 DEF n
  <2> QED BY <1>1, <1>8, <2>1, <2>2, Stay
<1>9. CASE ~ pc.polling /\ (Dummy(u) \/ Unmapped(u)) /\ r.head = emu[u].iqh
  <2>1. /\ ~ pc.polling /\ Continue /\ ring' = ring /\ reg' = reg
        /\ lost' = lost
    BY <1>9 DEF Dummy, Unmapped, InSync
  <2>2. reg' = [reg EXCEPT ![u] = r]
    BY <1>3, <2>1
  <2>3. Touches(u)
    BY <1>3, <2>1, <2>2, RegisterTouches
  <2>4. Stopping(u, k, FALSE)
    BY <1>3, <1>4, <2>1
  <2>5. /\ r.head = r.tail
        /\ u \notin lost => r.head = Position(u) /\ Position(u) = LinuxTail(u)
    BY <1>3, <1>9, <2>4 DEF Stopping, Recorded, Served, Position, LinuxTail
  <2>6. linux' = linux /\ emu' = emu /\ log' = log /\ sent' = sent
    BY <2>3 DEF Touches
  <2>7. Position(u)' = Position(u) /\ LinuxTail(u)' = LinuxTail(u)
    BY <2>6 DEF Position, LinuxTail
  <2>8. Stopping(u, k + 1, FALSE)'
    BY <2>1, <2>4, <2>5, <2>6, <2>7 DEF Stopping, InPlace
  <2>9. reg'[u].fe = reg[u].fe /\ k <= 9 /\ k < Len(Shutdown)
    BY <1>6, <2>1 DEF n
  <2> QED BY <2>1, <2>3, <2>8, <2>9, ShutdownNext
<1>10. CASE ~ pc.polling /\ Dummy(u) /\ r.head # emu[u].iqh
  <2> DEFINE t == (r.tail + 1) % QSize
             new == Advance(r, 1)
  <2>1. /\ ~ pc.polling /\ pc' = [pc EXCEPT !.polling = TRUE]
        /\ ring' = [ring EXCEPT ![u][r.tail] = 0]
        /\ reg' = [reg EXCEPT ![u] = new] /\ lost' = lost
    BY <1>10 DEF Dummy, InSync, Poll
  <2>2. new = [r EXCEPT !.tail = t]
    BY DEF Advance
  <2>3. new \in Registers
    BY <1>3, RegistersOK
  <2> HIDE DEF new, t
  <2>4. /\ new.te = r.te /\ new.ire = r.ire /\ new.qie = r.qie
        /\ new.head = r.head /\ new.tail = t
        /\ new.irta = r.irta /\ new.irt = r.irt /\ new.iqa = r.iqa
        /\ new.fresh = r.fresh /\ new.fe = r.fe /\ new.im = r.im
    BY <1>3, <2>2 DEF Registers
  <2>5. ring \in [UnitIds -> [Index -> 0 .. MaxRequests]]
        /\ 0 \in 0 .. MaxRequests
    BY HandoverAssumption DEF HandoverAssumption, IInv, TypeOK
  <2> DEFINE slots == [ring[u] EXCEPT ![r.tail] = 0]
  <2>6. slots \in [Index -> 0 .. MaxRequests] /\ slots[r.tail] = 0
        /\ ring' = [ring EXCEPT ![u] = slots]
    BY <1>7, <2>1, <2>5
  <2> HIDE DEF slots
  <2>7. /\ UNCHANGED <<linux, sent, log, mask, emu, ir, trap>>
        /\ ready' = (ready \/ (pc.op = "commit" /\ Finished))
    BY DEF Routine
  <2>8. Touches(u) /\ reg'[u] = new /\ ring'[u] = slots
    <3>1. /\ reg' \in [UnitIds -> Registers] /\ reg'[u] = new
          /\ \A v \in UnitIds \ {u} : reg'[v] = reg[v]
      BY <1>3, <2>1, <2>3
    <3>2. /\ ring' \in [UnitIds -> [Index -> 0 .. MaxRequests]]
          /\ ring'[u] = slots
          /\ \A v \in UnitIds \ {u} : ring'[v] = ring[v]
      BY <2>5, <2>6
    <3>3. lost' \subseteq UnitIds
      BY <2>1 DEF IInv, TypeOK
    <3> QED BY <2>1, <2>7, <3>1, <3>2, <3>3 DEF Touches
  <2>9. Stopping(u, k, FALSE)
    BY <1>3, <1>4, <2>1
  <2>10. r.head = r.tail
    BY <2>9 DEF Stopping
  <2>11. new.tail = (new.head + 1) % QSize /\ ring'[u][new.head] = 0
    BY <2>4, <2>6, <2>8, <2>10 DEF t
  <2>12. Stopping(u, k, TRUE)'
    BY <2>4, <2>7, <2>8, <2>9, <2>11 DEF Stopping
  <2>13. reg'[u].fe = reg[u].fe /\ reg'[u].im = reg[u].im
    BY <2>4, <2>8
  <2> QED BY <1>8, <2>1, <2>8, <2>12, <2>13, Zenon
<1>11. CASE Completed(s)
  <2>1. /\ pc.polling /\ r.head = r.tail /\ reg' = reg /\ ring' = ring
        /\ lost' = lost /\ pc' = [pc EXCEPT !.polling = FALSE]
    BY <1>2, <1>11 DEF Completed
  <2>2. reg' = [reg EXCEPT ![u] = r]
    BY <1>3, <2>1
  <2>3. Touches(u)
    BY <1>3, <2>1, <2>2, RegisterTouches
  <2>4. linux' = linux /\ emu' = emu /\ log' = log /\ sent' = sent
    BY <2>3 DEF Touches
  <2>5. Stopping(u, k, FALSE)'
    BY <1>4, <2>1, <2>4 DEF Stopping
  <2>6. reg'[u].fe = reg[u].fe /\ reg'[u].im = reg[u].im
    BY <2>1
  <2> QED BY <1>8, <2>1, <2>3, <2>5, <2>6, Zenon
<1>12. CASE ~ pc.polling /\ Unmapped(u) /\ r.head # emu[u].iqh
  <2>1. /\ ~ pc.polling /\ Continue /\ ring' = ring /\ reg' = reg
        /\ r.tail = 0 /\ lost' = lost \cup {u}
    BY <1>12 DEF Unmapped, InSync
  <2>2. Stopping(u, k, FALSE)
    BY <1>3, <1>4, <2>1
  <2>3. r.head = 0 /\ "int" \in r.fresh
    BY <2>1, <2>2 DEF Stopping
  <2>4. u \in lost \/ linux[u] = "on"
    <3> SUFFICES ASSUME u \notin lost, linux[u] # "on"
                 PROVE  FALSE
      OBVIOUS
    <3>1. sent[u] = 0 /\ Len(log[u]) = 0
      BY <1>3 DEF Pending, Served
    <3>2. 0 % QSize = 0
      <4>1. 0 \in Index /\ 0 \in 0 .. 2
        BY Slots DEF Index
      <4>2. (0 + 0) % QSize = 0
        BY <4>1, Slots
      <4> QED BY <4>2
    <3>3. emu[u].iqh = 0
      BY <1>3, <3>1, <3>2 DEF Recorded, Position
    <3> QED BY <1>12, <2>3, <3>3
  <2>5. linux[u] = "on"
    BY <1>3, <2>4 DEF Pending
  <2>6. /\ ring \in [UnitIds -> [Index -> 0 .. MaxRequests]]
        /\ lost' \subseteq UnitIds
    BY <2>1 DEF IInv, TypeOK
  <2>7. /\ UNCHANGED <<linux, sent, log, mask, emu, ir, trap>>
        /\ ready' = (ready \/ (pc.op = "commit" /\ Finished))
    BY DEF Routine
  <2>8. Touches(u)
    BY <1>3, <2>1, <2>5, <2>6, <2>7 DEF Touches
  <2>9. InPlace(u)'
    BY <2>1 DEF InPlace
  <2>10. Stopping(u, k + 1, FALSE)'
    BY <2>1, <2>2, <2>3, <2>7, <2>9 DEF Stopping
  <2>11. reg'[u].fe = reg[u].fe /\ k <= 9 /\ k < Len(Shutdown)
    BY <1>6, <2>1 DEF n
  <2> QED BY <2>1, <2>8, <2>10, <2>11, ShutdownNext
<1> QED BY <1>5, <1>9, <1>10, <1>11, <1>12

\* The fault event is masked while Linux's message is put back.
LEMMA RestoreStep4 ==
  ASSUME IInv, Routine, NEW u \in UnitIds, NEW k \in Nat,
         pc.op = "shutdown", pc.unit = u, pc.at = k, ir, k \in 10 .. 14
  PROVE  IInv'
<1> DEFINE r == reg[u]
           e == emu[u]
           n == CASE k \in 11 .. 13 -> 14 - k [] k \in {10, 14} -> 0
           last == Len(Shutdown)
<1>1. /\ r \in Registers /\ Recorded(u) /\ e.im \in BOOLEAN /\ "linux" \in Owners
      /\ Message("shutdown", r, k)
  <2>1. e \in [iqh : Index, iqa : Owners, irta : Owners, im : BOOLEAN]
    BY Before DEF Routines
  <2>2. r \in Registers /\ Recorded(u) /\ Message("shutdown", r, k)
    BY Before DEF Routines
  <2> QED BY <2>1, <2>2 DEF Owners
<1>2. n \in 0 .. 3 /\ (k \in 11 .. 13 => n = 14 - k) /\ (k \in {10, 14} => n = 0)
  OBVIOUS
<1>3. PICK im \in BOOLEAN : im <=> IF k = 14 THEN e.im ELSE k = 10
  OBVIOUS
<1> HIDE DEF n, last
<1> DEFINE new == SetEvent(r, n, "linux", im)
<1>4. Result(Shutdown[k], r, e) = new /\ Shutdown[k][1] \notin {"inv", "sync"}
  <2>1. CASE k = 10
    <3>1. Shutdown[10] = <<"event", 0, "linux", TRUE>>
      BY <2>1, ShutdownText
    <3>2. im = TRUE
      BY <1>3, <2>1
    <3>3. Result(<<"event", 0, "linux", im>>, r, e) = SetEvent(r, 0, "linux", im)
      BY <1>1, Results
    <3>4. <<"event", 0, "linux", im>>[1] = "event"
      OBVIOUS
    <3>5. Shutdown[k] = <<"event", 0, "linux", im>>
      BY <2>1, <3>1, <3>2, Zenon
    <3>6. n = 0
      BY <1>2, <2>1
    <3> QED BY <3>3, <3>4, <3>5, <3>6
  <2>2. CASE k \in 11 .. 13
    <3>1. n = 14 - k /\ n \in 1 .. 3
      BY <1>2, <2>2
    <3>2. Shutdown[k] = <<"event", n, "linux">>
      <4>1. CASE k = 11
        <5>1. n = 3
          BY <3>1, <4>1
        <5> QED BY <4>1, <5>1, ShutdownText
      <4>2. CASE k = 12
        <5>1. n = 2
          BY <3>1, <4>2
        <5> QED BY <4>2, <5>1, ShutdownText
      <4>3. CASE k = 13
        <5>1. n = 1
          BY <3>1, <4>3
        <5> QED BY <4>3, <5>1, ShutdownText
      <4>4. k = 11 \/ k = 12 \/ k = 13
        BY <2>2
      <4> QED BY <4>1, <4>2, <4>3, <4>4
    <3>3. Result(<<"event", n, "linux">>, r, e) = SetEvent(r, n, "linux", FALSE)
      <4>1. "linux" \in Owners /\ n \in 1 .. 3
        BY <1>1, <3>1
      <4> HIDE DEF r, e
      <4> QED BY <4>1, Results
    <3>4. <<"event", n, "linux">>[1] = "event"
      OBVIOUS
    <3>5. SetEvent(r, n, "linux", FALSE) = SetEvent(r, n, "linux", im)
      BY <3>1 DEF SetEvent
    <3> QED BY <3>2, <3>3, <3>4, <3>5
  <2>3. CASE k = 14
    <3>1. Shutdown[14] = <<"restore", 0>>
      BY <2>3, ShutdownText
    <3>2. im = e.im
      <4>1. im <=> e.im
        BY <1>3, <2>3
      <4> QED BY <1>1, <4>1
    <3>3. Result(<<"restore", 0>>, r, e) = SetEvent(r, 0, "linux", e.im)
      BY Results
    <3>4. <<"restore", 0>>[1] = "restore"
      OBVIOUS
    <3>5. n = 0
      BY <1>2, <2>3
    <3>6. Shutdown[k] = <<"restore", 0>>
      BY <2>3, <3>1
    <3>7. new = SetEvent(r, 0, "linux", e.im)
      BY <3>5, <3>2, Zenon
    <3> QED BY <3>3, <3>4, <3>6, <3>7
  <2>4. k = 10 \/ k \in 11 .. 13 \/ k = 14
    OBVIOUS
  <2> QED BY <2>1, <2>2, <2>3, <2>4
<1>5. new \in Registers
  BY <1>1, <1>2, RegistersOK
<1>6. /\ new.te = r.te /\ new.ire = r.ire /\ new.qie = r.qie
      /\ new.irta = r.irta /\ new.irt = r.irt /\ new.iqa = r.iqa
      /\ new.head = r.head /\ new.tail = r.tail /\ new.fresh = r.fresh
  BY <1>1, <1>2, EventFields
<1>7. /\ n = 0 => new.im = im /\ new.fe = r.fe
      /\ n # 0 => /\ new.im = r.im
                  /\ \A j \in 1 .. 3 : new.fe[j] = IF j = n THEN "linux" ELSE r.fe[j]
  BY <1>1, <1>2, EventFields
<1> HIDE DEF new
<1>8. /\ Touches(u) /\ reg'[u] = new /\ ring' = ring /\ Continue
      /\ lost' = lost /\ Stopping(u, k, FALSE)
  <2>1. Result(Shutdown[k], reg[u], emu[u]) = new /\ k \notin {4, 8}
    BY <1>4
  <2> QED BY <1>4, <1>5, <2>1, ShutdownWrite, Zenon
<1>9. /\ linux' = linux /\ emu' = emu /\ log' = log /\ sent' = sent /\ ir' = ir
      /\ mask' = mask
  BY <1>8 DEF Touches
<1>10. Position(u)' = Position(u) /\ LinuxTail(u)' = LinuxTail(u)
  BY <1>9 DEF Position, LinuxTail
<1>100. InPlace(u) => InPlace(u)'
  BY <1>6, <1>8, <1>10 DEF InPlace
<1>11. k < last => /\ Stopping(u, k + 1, FALSE)'
                   /\ Message("shutdown", reg'[u], k + 1)
  <2> SUFFICES ASSUME k < last
               PROVE  /\ Stopping(u, k + 1, FALSE)'
                      /\ Message("shutdown", reg'[u], k + 1)
    OBVIOUS
  <2>1. k \in 10 .. 13
    <3>1. last = 14
      BY ShutdownText DEF last
    <3> QED BY <3>1
  <2>2. Stopping(u, k + 1, FALSE)'
    BY <1>6, <1>8, <1>9, <1>100, <2>1 DEF Stopping
  <2>3. Message("shutdown", new, k + 1)
    <3>1. CASE k = 10
      <4>1. new.im
        <5>1. n = 0
          BY <1>2, <3>1
        <5>2. im
          BY <1>3, <3>1
        <5>3. new.im = im
          BY <1>7, <5>1, Zenon
        <5> QED BY <5>2, <5>3, Zenon
      <4>2. Message("shutdown", new, 11)
        BY <4>1 DEF Message
      <4>3. k + 1 = 11
        BY <3>1
      <4> QED BY <4>2, <4>3
    <3>2. CASE k \in 11 .. 13
      <4>1. n = 14 - k
        BY <1>2, <3>2
      <4> QED BY <1>1, <1>7, <3>2, <4>1 DEF Message
    <3> QED BY <2>1, <3>1, <3>2
  <2> QED BY <1>8, <2>2, <2>3
<1>12. k = last => LinuxSide(u)' /\ Whole(reg'[u]) /\ Returned(u)'
  <2> SUFFICES ASSUME k = last
               PROVE  LinuxSide(u)' /\ Whole(reg'[u]) /\ Returned(u)'
    OBVIOUS
  <2>1. k = 14
    BY ShutdownText DEF last
  <2>2. new.fe = r.fe
    BY <1>2, <1>7, <2>1
  <2>3. r.fe[1] = "linux" /\ r.fe[2] = "linux" /\ r.fe[3] = "linux"
    BY <1>1, <2>1 DEF Message
  <2>4. Whole(reg'[u])
    BY <1>8, <2>2, <2>3 DEF Whole
  <2>5. /\ ~ r.te /\ "int" \in r.fresh /\ r.iqa = e.iqa /\ r.qie /\ r.ire
        /\ InPlace(u)
        /\ linux[u] = "on" => r.irta = "linux" /\ r.irt = "linux"
    BY <1>8, <2>1 DEF Stopping
  <2>6. LateIR' <=> LateIR
    BY <1>9, SameLateIR
  <2>7. /\ linux[u] # "other" /\ r.iqa # "spy"
        /\ linux[u] = "on" => r.iqa = "linux" /\ e.im = mask[u]
        /\ ~ (linux[u] = "off" /\ ~ LateIR)
    BY <1>1, <2>5 DEF Recorded
  <2>8. LinuxSide(u)'
    BY <1>6, <1>8, <1>9, <1>100, <2>5, <2>6, <2>7 DEF LinuxSide
  <2>9. new.im = e.im
    <3>1. n = 0 /\ (im <=> e.im)
      BY <1>2, <1>3, <2>1
    <3>2. im = e.im
      BY <1>1, <3>1
    <3> QED BY <1>7, <3>1, <3>2, Zenon
  <2>10. Returned(u)'
    <3> SUFFICES ASSUME linux[u] = "on"
                 PROVE  reg'[u].im = mask'[u] /\ \A i \in 1 .. 3 : reg'[u].fe[i] = "linux"
      BY <1>9 DEF Returned
    <3>1. new.im = mask[u]
      BY <2>7, <2>9, Zenon
    <3>2. \A i \in 1 .. 3 : i = 1 \/ i = 2 \/ i = 3
      OBVIOUS
    <3>3. \A i \in 1 .. 3 : r.fe[i] = "linux"
      BY <2>3, <3>2
    <3> QED BY <1>8, <1>9, <2>2, <3>1, <3>3, Zenon
  <2> QED BY <2>4, <2>8, <2>10
<1> QED BY <1>8, <1>11, <1>12, ShutdownGoOn DEF last

LEMMA ShutdownStep ==
  ASSUME IInv, Routine, NEW u \in UnitIds, NEW k \in Nat,
         pc.op = "shutdown", pc.unit = u, pc.at = k
  PROVE  IInv'
<1>1. k \in 1 .. Len(Shutdown)
  BY Programs DEF IInv, PcOK, Routines
<1> DEFINE n == Len(Shutdown)
<1>2. (~ ir => n = 3) /\ (ir => n = 14) /\ k \in 1 .. n
  BY <1>1, ShutdownText
<1> HIDE DEF n
<1>3. CASE ~ ir
  <2>1. k \in 1 .. 2 \/ k = 3
    BY <1>2, <1>3
  <2> QED BY <1>3, <2>1, ShutdownStep1, ShutdownEnd
<1>4. CASE ir
  <2>1. \/ k \in 1 .. 2 \/ k \in {3, 5, 6, 7, 9} \/ k = 4 \/ k = 8
        \/ k \in 10 .. 14
    BY <1>2, <1>4
  <2> QED BY <1>4, <2>1, ShutdownStep1, RestoreStep1, RestoreStep2,
             RestoreStep3, RestoreStep4
<1> QED BY <1>3, <1>4

LEMMA RoutineStep ==
  ASSUME IInv, Routine
  PROVE  IInv'
<1>1. pc.unit \in UnitIds /\ pc.at \in Nat /\ pc.op \in Routines
  BY DEF IInv, PcOK, Routine
<1>2. PICK u \in UnitIds : pc.unit = u
  BY <1>1
<1>3. PICK k \in Nat : pc.at = k
  BY <1>1
<1>4. CASE pc.op = "faults"
  BY <1>2, <1>3, <1>4, FaultsStep
<1>5. CASE pc.op = "commit"
  BY <1>2, <1>3, <1>5, CommitStep
<1>6. CASE pc.op = "shutdown"
  BY <1>2, <1>3, <1>6, ShutdownStep
<1> QED BY <1>1, <1>4, <1>5, <1>6 DEF Routines

-----------------------------------------------------------------------------
(***************************************************************************)
(* Linux starts the hypervisor, and vtd_init.                              *)
(***************************************************************************)
LEMMA SameMachine ==
  ASSUME UNCHANGED <<linuxVars, reg, lost, trap>>, NEW u
  PROVE  /\ Pending(u) => Pending(u)'
         /\ Served(u) => Served(u)'
         /\ LinuxSide(u) => LinuxSide(u)'
         /\ SpySide(u) => SpySide(u)'
         /\ LateIR' <=> LateIR
         /\ Position(u)' = Position(u) /\ reg'[u] = reg[u]
         /\ linux' = linux /\ trap' = trap /\ mask' = mask /\ lost' = lost
         /\ Returned(u) => Returned(u)'
<1>1. /\ linux' = linux /\ ring' = ring /\ sent' = sent /\ log' = log
      /\ reg' = reg /\ trap' = trap /\ mask' = mask /\ lost' = lost
  BY DEF linuxVars
<1>2. LateIR' <=> LateIR
  BY <1>1, SameLateIR
<1>3. Position(u)' = Position(u) /\ LinuxTail(u)' = LinuxTail(u)
  BY <1>1 DEF Position, LinuxTail
<1>4. Pending(u) => Pending(u)'
  BY <1>1 DEF Pending, InOrder
<1>5. LinuxSide(u) => LinuxSide(u)'
  BY <1>1, <1>2, <1>3 DEF LinuxSide, InPlace
<1>6. Served(u) => Served(u)'
  BY <1>1 DEF Served
<1>7. SpySide(u) => SpySide(u)'
  BY <1>1 DEF SpySide
<1>8. Returned(u) => Returned(u)'
  BY <1>1 DEF Returned
<1> QED BY <1>1, <1>2, <1>3, <1>4, <1>5, <1>6, <1>7, <1>8

\* The program goes on with the first unit, and finds each as it has to be.
LEMMA Goes ==
  ASSUME IInv, UNCHANGED <<linuxVars, reg, lost, trap>>,
         NEW op \in {"linux", "init", "faults", "shutdown"}, Goto(op), Flags',
         emu' \in [UnitIds -> [iqh : Index, iqa : Owners, irta : Owners,
                               im : BOOLEAN]],
         ir' \in BOOLEAN, ready' \in BOOLEAN, op = "shutdown" => ir' = ir,
         \A v \in UnitIds :
           /\ trap[v] = "none" /\ Whole(reg[v])
           /\ op \in {"linux", "init"} => LinuxSide(v) /\ Returned(v)
           /\ op = "init" => emu'[v] = NoEmulation
           /\ op \in Routines => Recorded(v)' /\ Served(v)' /\ Ahead(op, v)'
  PROVE  IInv'
<1>1. /\ pc' = [op |-> op, unit |-> 0, at |-> 1, polling |-> FALSE]
      /\ pc'.op = op /\ pc'.unit = 0 /\ pc'.at = 1 /\ pc'.polling = FALSE
  BY DEF Goto
<1>2. 0 \in UnitIds /\ \A v \in UnitIds : v \in Nat
  BY HandoverAssumption DEF HandoverAssumption, UnitIds
<1>3. op \in Routines \cup {"linux", "init", "run"}
  BY DEF Routines
<1>4. TypeOK' /\ (log \in [UnitIds -> Seq(0 .. MaxRequests)])'
  <2>1. /\ linux' = linux /\ ring' = ring /\ sent' = sent /\ log' = log
        /\ reg' = reg /\ trap' = trap /\ mask' = mask /\ lost' = lost
    BY DEF linuxVars
  <2> QED BY <1>1, <1>2, <1>3, <2>1 DEF IInv, TypeOK
<1>5. PcOK'
  <2>1. op \in Routines => 1 \in 1 .. Len(Program(op)')
    <3>1. CASE op = "faults"
      <4>1. Program(op)' = Faults
        BY <3>1 DEF Program
      <4> QED BY <4>1, FaultsText
    <3>2. CASE op = "shutdown"
      <4>1. Program(op)' = Program(op) /\ op \in Routines
        BY <3>2 DEF Program, Shutdown, Routines
      <4> QED BY <4>1, Programs
    <3> QED BY <3>1, <3>2 DEF Routines
  <2>2. pc' \in [op : Routines \cup {"linux", "init", "run"}, unit : UnitIds,
                 at : Nat, polling : BOOLEAN]
    BY <1>1, <1>2, <1>3
  <2> QED BY <1>1, <2>1, <2>2 DEF PcOK
<1>6. ASSUME NEW v \in UnitIds
      PROVE  (Pending(v) /\ Unit(v) /\ Event(v) /\ Trapped(v))'
  <2>1. Pending(v)' /\ (LinuxSide(v) => LinuxSide(v)')
        /\ trap'[v] = "none" /\ linux' = linux /\ Whole(reg'[v])
    <3>1. Pending(v) /\ trap[v] = "none" /\ Whole(reg[v])
      BY DEF IInv
    <3> QED BY <3>1, SameMachine
  <2>2. Event(v)'
    <3>1. op \in {"linux", "init"} => Returned(v)'
      BY SameMachine
    <3>2. ~ (v < 0)
      BY <1>2
    <3> QED BY <1>1, <2>1, <3>1, <3>2, FirstMessage DEF Event
  <2>3. Trapped(v)'
    BY <1>1, <2>1 DEF Trapped
  <2>4. Unit(v)'
    <3>1. op \in {"linux", "init"} => LinuxSide(v)' /\ op \notin Routines
      BY <2>1 DEF Routines
    <3>2. op \in Routines =>
            Recorded(v)' /\ Served(v)' /\ Ahead(op, v)' /\ Place(op, v, 1, FALSE)'
      <4>1. op \in Routines => Recorded(v)' /\ Served(v)' /\ Ahead(op, v)'
        OBVIOUS
      <4>2. Recorded(v)' => linux'[v] # "other"
        BY DEF Recorded
      <4> QED BY <4>1, <4>2, FirstPlace
    <3>3. op # "run" /\ ~ (v < 0)
      BY <1>2
    <3>4. op = "init" => emu'[v] = NoEmulation /\ op \notin Routines
      BY DEF Routines
    <3>5. NoEmulation' = NoEmulation
      BY DEF NoEmulation
    <3>6. op \in Routines => op # "linux" /\ op # "init"
      BY DEF Routines
    <3> QED BY <1>1, <3>1, <3>2, <3>3, <3>4, <3>5, <3>6 DEF Unit
  <2> QED BY <2>1, <2>2, <2>3, <2>4
<1> QED BY <1>4, <1>5, <1>6 DEF IInv

\* While Linux has the units, and while the hypervisor runs on them, no
\* message is replaced.
LEMMA AllWhole ==
  ASSUME IInv, pc.op \in {"linux", "init", "run"}, NEW u \in UnitIds
  PROVE  /\ Whole(reg[u])
         /\ pc.op \in {"linux", "init"} =>
              LinuxSide(u) /\ trap[u] = "none" /\ Returned(u)
         /\ pc.op = "run" => /\ Recorded(u) /\ SpySide(u)
                             /\ trap[u] = "none" => Served(u)
<1>1. Unit(u) /\ Event(u) /\ Trapped(u)
  BY DEF IInv
<1>2. pc.op \notin Routines
  BY DEF Routines
<1> QED BY <1>1, <1>2 DEF Unit, Event, Trapped

LEMMA EnableStep ==
  ASSUME IInv, Enable
  PROVE  IInv'
<1>1. /\ pc.op = "linux" /\ ir' = FALSE /\ ready' = FALSE /\ Goto("init")
      /\ emu' = [v \in UnitIds |-> NoEmulation]
      /\ UNCHANGED <<linuxVars, reg, lost, trap>>
  BY DEF Enable
<1>2. Flags'
  BY <1>1 DEF Flags, Goto
<1>3. 0 \in Index
  BY Slots DEF Index
<1>4. emu' \in [UnitIds -> [iqh : Index, iqa : Owners, irta : Owners, im : BOOLEAN]]
  BY <1>1, <1>3 DEF NoEmulation, Owners
<1>5. ASSUME NEW v \in UnitIds
      PROVE  /\ trap[v] = "none" /\ Whole(reg[v]) /\ LinuxSide(v) /\ Returned(v)
             /\ emu'[v] = NoEmulation
  BY <1>1, AllWhole
<1>6. "init" \notin Routines /\ "init" # "shutdown"
  BY DEF Routines
<1> QED BY <1>1, <1>2, <1>4, <1>5, <1>6, Goes

LEMMA InitFailsStep ==
  ASSUME IInv, InitFails
  PROVE  IInv'
<1>1. /\ pc.op = "init" /\ ~ ready /\ Goto("linux")
      /\ UNCHANGED <<linuxVars, reg, emu, flagVars, lost, trap>>
  BY DEF InitFails, IInv, Flags
<1>2. /\ UNCHANGED <<linuxVars, reg, lost, trap>> /\ ir' = ir /\ ready' = ready
      /\ emu' = emu
  BY <1>1 DEF flagVars
<1>3. Flags'
  BY <1>1 DEF Flags, Goto
<1>4. /\ emu' \in [UnitIds -> [iqh : Index, iqa : Owners, irta : Owners, im : BOOLEAN]]
      /\ ir' \in BOOLEAN /\ ready' \in BOOLEAN
  BY <1>2 DEF IInv, TypeOK
<1>5. ASSUME NEW v \in UnitIds
      PROVE  trap[v] = "none" /\ Whole(reg[v]) /\ LinuxSide(v) /\ Returned(v)
  BY <1>1, AllWhole
<1>6. "linux" \notin Routines /\ "linux" # "shutdown" /\ "linux" # "init"
  BY DEF Routines
<1> QED BY <1>1, <1>2, <1>3, <1>4, <1>5, <1>6, Goes

LEMMA DisableStep ==
  ASSUME IInv, Disable
  PROVE  IInv'
<1>1. /\ pc.op = "run" /\ ready
      /\ UNCHANGED <<linuxVars, reg, emu, flagVars, lost, trap>>
      /\ Goto("shutdown") /\ \A v \in UnitIds : trap[v] = "none"
  BY DEF Disable, IInv, Flags
<1>2. /\ UNCHANGED <<linuxVars, reg, lost, trap>> /\ ir' = ir /\ ready' = ready
      /\ emu' = emu
  BY <1>1 DEF flagVars
<1>3. Flags'
  BY <1>1, <1>2 DEF Flags, Goto
<1>4. /\ emu' \in [UnitIds -> [iqh : Index, iqa : Owners, irta : Owners, im : BOOLEAN]]
      /\ ir' \in BOOLEAN /\ ready' \in BOOLEAN
  BY <1>2 DEF IInv, TypeOK
<1>5. ASSUME NEW v \in UnitIds
      PROVE  /\ trap[v] = "none" /\ Whole(reg[v])
             /\ Recorded(v)' /\ Served(v)' /\ Ahead("shutdown", v)'
  <2>1. /\ trap[v] = "none" /\ Whole(reg[v]) /\ Recorded(v) /\ Served(v)
        /\ SpySide(v)
    BY <1>1, AllWhole
  <2>2. Served(v)' /\ SpySide(v)' /\ (LateIR' <=> LateIR)
        /\ Position(v)' = Position(v) /\ linux' = linux /\ mask' = mask
        /\ lost' = lost
    BY <1>2, <2>1, SameMachine
  <2>3. Recorded(v)'
    BY <1>2, <2>1, <2>2 DEF Recorded
  <2> QED BY <2>1, <2>2, <2>3 DEF Ahead
<1>6. "linux" # "shutdown" /\ "shutdown" # "init"
  OBVIOUS
<1> QED BY <1>1, <1>2, <1>3, <1>4, <1>5, <1>6, Goes

\* The numbers of a unit's descriptors.
LEMMA Numbers ==
  ASSUME IInv, NEW u \in UnitIds
  PROVE  /\ QSize \in Nat \ {0} /\ sent[u] \in Nat /\ MaxRequests \in Nat
         /\ log[u] \in Seq(0 .. MaxRequests) /\ Len(log[u]) \in Nat
         /\ u \notin lost =>
              Len(log[u]) <= sent[u] /\ sent[u] < Len(log[u]) + QSize
         /\ linux[u] \in {"off", "on", "other"} /\ u \in Nat
         /\ Position(u) \in Index /\ LinuxTail(u) \in Index
         /\ Served(u) <=> u \in lost \/ Position(u) = LinuxTail(u)
         /\ linux[u] # "on" => u \notin lost
<1>1. QSize \in Nat \ {0} /\ MaxRequests \in Nat /\ u \in Nat
  BY HandoverAssumption DEF HandoverAssumption, UnitIds
<1>2. sent[u] \in Nat /\ log[u] \in Seq(0 .. MaxRequests)
  BY <1>1 DEF IInv, TypeOK
<1>3. Len(log[u]) \in Nat
  BY <1>2, LenProperties
<1>4. u \notin lost => Len(log[u]) <= sent[u] /\ sent[u] < Len(log[u]) + QSize
  <2>1. Pending(u)
    BY DEF IInv
  <2>2. u \notin lost => Len(log[u]) <= sent[u] /\ sent[u] - Len(log[u]) < QSize
    BY <2>1 DEF Pending, InOrder
  <2> QED BY <1>1, <1>2, <1>3, <2>2
<1>5. linux[u] \in {"off", "on", "other"}
  BY HandoverAssumption DEF HandoverAssumption, IInv, TypeOK, UnitIds
<1>6. Position(u) \in Index /\ LinuxTail(u) \in Index
  <2>1. Len(log[u]) % QSize \in 0 .. QSize - 1 /\ sent[u] % QSize \in 0 .. QSize - 1
    <3> DEFINE a == Len(log[u])
               b == sent[u]
    <3>1. a \in Int /\ b \in Int
      BY <1>2, <1>3
    <3> HIDE DEF a, b
    <3>2. a % QSize \in 0 .. QSize - 1
      BY <1>1, <3>1, Quotient
    <3>3. b % QSize \in 0 .. QSize - 1
      BY <1>1, <3>1, Quotient
    <3> QED BY <3>2, <3>3 DEF a, b
  <2> QED BY <2>1 DEF Position, LinuxTail, Index
<1>7. u \notin lost /\ Position(u) = LinuxTail(u) => Len(log[u]) = sent[u]
  BY <1>1, <1>2, <1>3, <1>4, SameSlot DEF Position, LinuxTail
<1>8. Served(u) <=> u \in lost \/ Position(u) = LinuxTail(u)
  BY <1>7 DEF Served, Position, LinuxTail
<1>9. linux[u] # "on" => u \notin lost
  BY DEF IInv, Pending
<1> QED BY <1>1, <1>2, <1>3, <1>4, <1>5, <1>6, <1>8, <1>9

\* vtd_init has looked at another unit.
LEMMA InitRecords ==
  ASSUME IInv, InitUnit, NEW u \in UnitIds, pc.unit = u
  PROVE  /\ pc.op = "init" /\ ~ ready /\ ~ ready' /\ InitNext
         /\ UNCHANGED <<linuxVars, reg, lost, trap>> /\ ir' \in BOOLEAN
         /\ emu' \in [UnitIds -> [iqh : Index, iqa : Owners, irta : Owners,
                                  im : BOOLEAN]]
         /\ \A v \in UnitIds : v > u => emu'[v] = NoEmulation
         /\ \A v \in UnitIds : v <= u => Recorded(v)' /\ Served(v)'
<1> DEFINE r == reg[u]
<1>1. /\ pc.op = "init" /\ ~ ready /\ ready' = ready
      /\ ~ r.te /\ (r.ire <=> r.qie) /\ InitNext
      /\ UNCHANGED <<linuxVars, reg, lost, trap>>
      /\ IF r.qie THEN InitEmulation(u) ELSE ~ ir /\ UNCHANGED <<emu, ir>>
  BY DEF InitUnit, IInv, Flags
<1>2. /\ reg \in [UnitIds -> Registers] /\ r \in Registers /\ ir \in BOOLEAN
      /\ emu \in [UnitIds -> [iqh : Index, iqa : Owners, irta : Owners,
                              im : BOOLEAN]]
  BY DEF IInv, TypeOK, Registers
<1>3. \A v \in UnitIds : Unit(v) /\ Pending(v)
  BY DEF IInv
<1>4. \A v \in UnitIds :
        /\ LinuxSide(v)
        /\ v < u => Recorded(v) /\ Served(v)
        /\ v >= u => emu[v] = NoEmulation
        /\ Returned(v)
  BY <1>1, <1>3, AllWhole DEF Unit
<1>5. linux[u] \in {"off", "on"}
  BY <1>1, <1>4, Numbers DEF LinuxSide
<1>6. \A v \in UnitIds : v \in Nat
  BY Numbers
<1>7. LateIR' <=> LateIR
  BY <1>1, SameMachine
<1>8. /\ linux' = linux /\ Position(u)' = Position(u) /\ mask' = mask
      /\ lost' = lost
      /\ Served(u) => Served(u)'
  BY <1>1, SameMachine
<1>9. CASE r.qie
  <2> DEFINE e == [iqh |-> r.tail, iqa |-> r.iqa, irta |-> r.irta, im |-> r.im]
  <2>1. r.head = r.tail /\ emu' = [emu EXCEPT ![u] = e] /\ ir'
    BY <1>1, <1>9 DEF InitEmulation
  <2>2. e \in [iqh : Index, iqa : Owners, irta : Owners, im : BOOLEAN]
    BY <1>2 DEF Registers
  <2>3. /\ u \notin lost => r.head = Position(u) /\ r.tail = LinuxTail(u)
        /\ r.iqa # "spy"
    BY <1>4, <1>9 DEF LinuxSide, InPlace
  <2>4. /\ u \notin lost => e.iqh = Position(u)
        /\ e.iqa = r.iqa /\ e.irta = r.irta /\ e.im = r.im
    BY <2>1, <2>3
  <2>5. Served(u)
    BY <2>1, <2>3, Numbers
  <2> HIDE DEF e
  <2>6. /\ emu' \in [UnitIds -> [iqh : Index, iqa : Owners, irta : Owners,
                                 im : BOOLEAN]]
        /\ emu'[u] = e /\ \A v \in UnitIds : v # u => emu'[v] = emu[v]
    BY <1>2, <2>1, <2>2
  <2>7. linux[u] = "off" => LateIR
    BY <1>4, <1>9 DEF LinuxSide
  <2>8. linux[u] = "on" => /\ r.iqa = "linux" /\ r.irta = "linux"
                            /\ r.im = mask[u]
    BY <1>4 DEF LinuxSide, Returned
  <2>9. Recorded(u)'
    BY <1>5, <1>7, <1>8, <2>1, <2>3, <2>4, <2>6, <2>7, <2>8 DEF Recorded
  <2>10. ASSUME NEW v \in UnitIds, v < u
         PROVE  Recorded(v)' /\ Served(v)'
    <3>1. Recorded(v) /\ Served(v) /\ v # u /\ emu'[v] = emu[v]
      BY <1>4, <1>6, <2>6, <2>10
    <3>2. Position(v)' = Position(v) /\ Served(v)'
      BY <1>1, <3>1, SameMachine
    <3>3. linux[v] = "off" => LateIR
      <4>1. linux[u] = "off" \/ linux[u] = "on"
        BY <1>5
      <4>2. \A w \in UnitIds : w < u => linux[w] # "other"
        BY <1>4 DEF Recorded
      <4> QED BY <2>7, <2>10, <4>1, <4>2 DEF LateIR
    <3>4. Recorded(v)'
      BY <1>7, <1>8, <2>1, <3>1, <3>2, <3>3 DEF Recorded
    <3> QED BY <3>2, <3>4
  <2>11. ASSUME NEW v \in UnitIds, v > u
         PROVE  emu'[v] = NoEmulation
    BY <1>4, <1>6, <2>6, <2>11
  <2>12. \A v \in UnitIds : v <= u => v = u \/ v < u
    BY <1>6
  <2> QED BY <1>1, <1>8, <2>1, <2>5, <2>6, <2>9, <2>10, <2>11, <2>12
<1>10. CASE ~ r.qie
  <2>1. ~ ir /\ emu' = emu /\ ir' = ir
    BY <1>1, <1>10
  <2>2. linux[u] = "off"
    BY <1>4, <1>5, <1>10 DEF LinuxSide
  <2>3. sent[u] = 0
    BY <1>3, <2>2 DEF Pending
  <2>4. u \notin lost /\ Len(log[u]) = 0
    BY <2>2, <2>3, Numbers
  <2>5. Served(u)
    BY <2>3, <2>4 DEF Served
  <2>6. Position(u) = 0
    <3>1. 0 \in Index /\ 0 \in 0 .. 2
      BY Slots DEF Index
    <3>2. (0 + 0) % QSize = 0
      BY <3>1, Slots
    <3> QED BY <2>4, <3>2 DEF Position
  <2>7. emu[u] = NoEmulation
    BY <1>4, <1>6
  <2>8. Recorded(u)'
    BY <1>8, <2>1, <2>2, <2>6, <2>7 DEF Recorded, NoEmulation
  <2>9. ASSUME NEW v \in UnitIds, v < u
        PROVE  Recorded(v)' /\ Served(v)'
    <3>1. Recorded(v) /\ Served(v)
      BY <1>4, <2>9
    <3>2. Position(v)' = Position(v) /\ Served(v)'
      BY <1>1, <3>1, SameMachine
    <3>3. Recorded(v)'
      BY <1>7, <1>8, <2>1, <3>1, <3>2 DEF Recorded
    <3> QED BY <3>2, <3>3
  <2>10. \A v \in UnitIds : /\ v <= u => v = u \/ v < u
                            /\ v > u => v >= u
    BY <1>6
  <2> QED BY <1>1, <1>2, <1>4, <1>8, <2>1, <2>5, <2>8, <2>9, <2>10
<1> QED BY <1>9, <1>10

LEMMA InitUnitStep ==
  ASSUME IInv, InitUnit
  PROVE  IInv'
<1>1. PICK u \in UnitIds : pc.unit = u
  BY DEF IInv, PcOK
<1>2. /\ pc.op = "init" /\ ~ ready /\ ~ ready' /\ InitNext
      /\ UNCHANGED <<linuxVars, reg, lost, trap>> /\ ir' \in BOOLEAN
      /\ emu' \in [UnitIds -> [iqh : Index, iqa : Owners, irta : Owners,
                               im : BOOLEAN]]
      /\ \A v \in UnitIds : v > u => emu'[v] = NoEmulation
      /\ \A v \in UnitIds : v <= u => Recorded(v)' /\ Served(v)'
  BY <1>1, InitRecords
<1>3. ready' = FALSE
  BY <1>2 DEF InitUnit
<1>4. \A v \in UnitIds : v \in Nat /\ v < Units
  BY HandoverAssumption DEF HandoverAssumption, UnitIds
<1>5. Units \in Nat
  BY HandoverAssumption DEF HandoverAssumption
<1>6. ASSUME NEW v \in UnitIds
      PROVE  /\ trap[v] = "none" /\ Whole(reg[v]) /\ LinuxSide(v)
             /\ LinuxSide(v)' /\ Pending(v)' /\ trap'[v] = "none"
             /\ Whole(reg'[v]) /\ Returned(v)'
  <2>1. /\ trap[v] = "none" /\ Whole(reg[v]) /\ LinuxSide(v) /\ Pending(v)
        /\ Returned(v)
    BY <1>2, AllWhole DEF IInv
  <2> QED BY <1>2, <2>1, SameMachine
<1>7. CASE u + 1 < Units
  <2>1. pc' = [pc EXCEPT !.unit = u + 1]
    BY <1>1, <1>2, <1>7 DEF InitNext
  <2>2. /\ pc'.op = "init" /\ pc'.unit = u + 1 /\ pc'.at = 1
        /\ pc'.polling = FALSE
        /\ pc' \in [op : Routines \cup {"linux", "init", "run"}, unit : UnitIds,
                    at : Nat, polling : BOOLEAN]
    <3>1. u + 1 \in UnitIds
      BY <1>4, <1>5, <1>7 DEF UnitIds
    <3>2. /\ pc \in [op : Routines \cup {"linux", "init", "run"}, unit : UnitIds,
                     at : Nat, polling : BOOLEAN]
          /\ pc.at = 1 /\ ~ pc.polling
      BY <1>2 DEF IInv, PcOK, Routines
    <3> QED BY <1>2, <2>1, <3>1, <3>2
  <2>3. PcOK' /\ Flags'
    BY <1>3, <2>2 DEF PcOK, Flags, Routines
  <2>4. TypeOK' /\ (log \in [UnitIds -> Seq(0 .. MaxRequests)])'
    <3>1. /\ linux' = linux /\ ring' = ring /\ sent' = sent /\ log' = log
          /\ reg' = reg /\ trap' = trap /\ mask' = mask /\ lost' = lost
      BY <1>2 DEF linuxVars
    <3>2. pc'.op \in Routines \cup {"linux", "init", "run"} /\ pc'.unit \in UnitIds
      BY <2>2
    <3> QED BY <1>2, <1>3, <3>1, <3>2 DEF IInv, TypeOK
  <2>5. ASSUME NEW v \in UnitIds
        PROVE  (Pending(v) /\ Unit(v) /\ Event(v) /\ Trapped(v))'
    <3>1. NoEmulation' = NoEmulation
      BY DEF NoEmulation
    <3>2. /\ v < u + 1 => v <= u
          /\ v >= u + 1 => v > u
      BY <1>4
    <3>3. Unit(v)'
      BY <1>2, <1>6, <2>2, <3>1, <3>2 DEF Unit, Routines
    <3>4. Event(v)'
      BY <1>6, <2>2 DEF Event, Routines
    <3>5. Trapped(v)'
      BY <1>6, <2>2 DEF Trapped
    <3> QED BY <1>6, <3>3, <3>4, <3>5
  <2> QED BY <2>3, <2>4, <2>5 DEF IInv
<1>8. CASE ~ (u + 1 < Units)
  <2>1. Goto("faults")
    BY <1>1, <1>2, <1>8 DEF InitNext
  <2>2. Flags'
    BY <1>3, <2>1 DEF Flags, Goto
  <2>3. ASSUME NEW v \in UnitIds
        PROVE  /\ trap[v] = "none" /\ Whole(reg[v])
               /\ Recorded(v)' /\ Served(v)' /\ Ahead("faults", v)'
    <3>1. v <= u
      BY <1>4, <1>5, <1>8
    <3> QED BY <1>2, <1>6, <3>1 DEF Ahead
  <2>4. "faults" # "linux" /\ "faults" # "init" /\ "faults" # "shutdown"
    OBVIOUS
  <2> QED BY <1>2, <1>3, <2>1, <2>2, <2>3, <2>4, Goes
<1> QED BY <1>7, <1>8

LEMMA InitOK ==
  ASSUME Init
  PROVE  IInv
<1>1. /\ linux \in Configs /\ reg = [u \in UnitIds |-> LinuxUnit(linux[u])]
      /\ ring = [u \in UnitIds |-> [i \in Index |-> 0]]
      /\ sent = [u \in UnitIds |-> 0] /\ log = [u \in UnitIds |-> <<>>]
      /\ mask = [u \in UnitIds |-> reg[u].im] /\ lost = {}
      /\ emu = [u \in UnitIds |-> NoEmulation] /\ ir = FALSE /\ ready = FALSE
      /\ trap = [u \in UnitIds |-> "none"]
      /\ pc = [op |-> "linux", unit |-> 0, at |-> 1, polling |-> FALSE]
  BY DEF Init
<1>2. 0 \in Index /\ 0 \in UnitIds /\ QSize \in Nat \ {0} /\ MaxRequests \in Nat
  BY HandoverAssumption, Slots DEF HandoverAssumption, Index, UnitIds
<1>3. linux \in [UnitIds -> {"off", "on", "other"}]
  BY <1>1, HandoverAssumption DEF HandoverAssumption, UnitIds
<1>4. 0 % QSize = 0
  <2>1. 0 \in 0 .. 2
    OBVIOUS
  <2>2. (0 + 0) % QSize = 0
    BY <1>2, <2>1, Slots
  <2> QED BY <2>2
<1>5. <<>> \in Seq(0 .. MaxRequests) /\ Len(<<>>) = 0
  BY EmptySeq
<1>6. TypeOK /\ log \in [UnitIds -> Seq(0 .. MaxRequests)]
  <2>1. reg \in [UnitIds -> Registers]
    BY <1>1, <1>2, <1>3 DEF LinuxUnit, Registers, Owners, Caches
  <2>2. emu \in [UnitIds -> [iqh : Index, iqa : Owners, irta : Owners,
                             im : BOOLEAN]]
    BY <1>1, <1>2 DEF NoEmulation, Owners
  <2>3. /\ ring \in [UnitIds -> [Index -> 0 .. MaxRequests]]
        /\ sent \in [UnitIds -> 0 .. MaxRequests]
        /\ log \in [UnitIds -> Seq(0 .. MaxRequests)]
        /\ trap \in [UnitIds -> {"none", "busy", "panic"}]
    BY <1>1, <1>2, <1>5
  <2>4. mask \in [UnitIds -> BOOLEAN]
    <3>1. \A u \in UnitIds : reg[u].im \in BOOLEAN
      BY <2>1 DEF Registers
    <3> QED BY <1>1, <3>1
  <2> QED BY <1>1, <1>2, <2>1, <2>2, <2>3, <2>4 DEF TypeOK, Registers
<1>7. PcOK /\ Flags
  BY <1>1, <1>2 DEF PcOK, Flags, Routines
<1>8. ASSUME NEW u \in UnitIds
      PROVE  Pending(u) /\ Unit(u) /\ Event(u) /\ Trapped(u)
  <2>1. reg[u] = LinuxUnit(linux[u]) /\ linux[u] \in {"off", "on", "other"}
    BY <1>1, <1>3
  <2>2. sent[u] = 0 /\ Len(log[u]) = 0 /\ trap[u] = "none"
    BY <1>1, <1>5
  <2>3. Position(u) = 0 /\ LinuxTail(u) = 0
    BY <1>4, <2>2 DEF Position, LinuxTail
  <2>4. Pending(u)
    <3>1. 0 <= 0 /\ 0 - 0 < QSize /\ 1 .. 0 = {} /\ 0 + 1 .. 0 = {}
      BY <1>2
    <3> QED BY <1>1, <2>2, <3>1 DEF Pending, InOrder
  <2>5. LinuxSide(u)
    <3> DEFINE r == reg[u]
               use == linux[u]
    <3> DEFINE fe == [n \in 1 .. 3 |-> "linux"]
               te == use = "other"
               on == use = "on"
               im == use # "on"
    <3>1. /\ r.te <=> use = "other"
          /\ r.ire <=> use = "on"
          /\ r.qie <=> use = "on"
      <4>1. r = [te |-> te, ire |-> on, qie |-> on,
                 root |-> "linux", irta |-> "linux", irt |-> "linux",
                 iqa |-> "linux", head |-> 0, tail |-> 0, fresh |-> Caches,
                 im |-> im, fe |-> fe]
        BY <2>1, Zenon DEF LinuxUnit
      <4> HIDE DEF te, on, im, fe, r
      <4>2. r.te = te /\ r.ire = on /\ r.qie = on
        BY <4>1
      <4> QED BY <4>2 DEF te, on
    <3>2. /\ r.irta = "linux" /\ r.irt = "linux" /\ r.iqa = "linux"
          /\ r.head = 0 /\ r.tail = 0 /\ r.fresh = Caches
      BY <2>1 DEF LinuxUnit
    <3> HIDE DEF r, use
    <3>3. LinuxSide(u)
      BY <2>3, <3>1, <3>2 DEF LinuxSide, InPlace, Caches, r, use
    <3> QED BY <3>3
  <2>6. Whole(reg[u])
    BY <2>1 DEF Whole, LinuxUnit
  <2>7. Returned(u)
    <3>1. reg[u].fe = [n \in 1 .. 3 |-> "linux"]
      BY <2>1 DEF LinuxUnit
    <3>2. reg[u].im = mask[u]
      BY <1>1
    <3> QED BY <3>1, <3>2 DEF Returned
  <2> QED BY <1>1, <2>2, <2>4, <2>5, <2>6, <2>7 DEF Unit, Event, Trapped, Routines
<1> QED BY <1>6, <1>7, <1>8 DEF IInv

-----------------------------------------------------------------------------
(***************************************************************************)
(* Linux, and the emulation of its tail register.                          *)
(***************************************************************************)
\* Descriptors in the slots of the ring that Linux finds free.
Waiting(f, q, l, s) == \A i \in l + 1 .. s : f[(i - 1) % q] = i

Filled(f, g, q, s, n) ==
  \A i \in 0 .. q - 1 :
    g[i] = IF (i - s) % q < n THEN s + 1 + ((i - s) % q) ELSE f[i]

LEMMA RingFilled ==
  ASSUME NEW q \in Nat \ {0}, NEW s \in Nat, NEW l \in Nat, NEW n \in Nat, NEW f,
         l <= s, s + n - l < q, Waiting(f, q, l, s),
         NEW g, Filled(f, g, q, s, n)
  PROVE  Waiting(g, q, l, s + n)
<1> SUFFICES ASSUME NEW i \in l + 1 .. s + n
             PROVE  g[(i - 1) % q] = i
  BY DEF Waiting
<1> DEFINE b == i - 1
           d == ((b % q) - s) % q
<1>1. b \in Nat /\ l <= b /\ b < s + n /\ b + 1 = i
  OBVIOUS
<1> HIDE DEF b
<1>2. b % q \in 0 .. q - 1
  <2>1. b \in Int
    BY <1>1
  <2> QED BY <2>1, Quotient
<1>3. g[b % q] = IF d < n THEN s + 1 + d ELSE f[b % q]
  BY <1>2 DEF Filled
<1>4. CASE s <= b
  <2>1. b < s + q
    BY <1>1
  <2>2. d = b - s
    BY <1>1, <1>4, <2>1, SlotAhead
  <2> HIDE DEF d
  <2>3. g[b % q] = i
    BY <1>1, <1>3, <1>4, <2>2
  <2> QED BY <2>3 DEF b
<1>5. CASE b < s
  <2>1. s < b + q
    BY <1>1
  <2>2. d = q - (s - b)
    BY <1>1, <1>5, <2>1, SlotBehind
  <2> HIDE DEF d
  <2>3. ~ (d < n)
    BY <1>1, <1>5, <2>2
  <2>4. f[(i - 1) % q] = i
    BY <1>1, <1>5 DEF Waiting
  <2>5. g[b % q] = f[b % q]
    BY <1>3, <2>3
  <2> QED BY <2>4, <2>5 DEF b
<1> QED BY <1>1, <1>4, <1>5

LEMMA SubmitStep ==
  ASSUME IInv, NEW u \in UnitIds, NEW n \in {1, 2}, LinuxSubmit(u, n)
  PROVE  IInv'
<1> DEFINE s == sent[u]
           l == Len(log[u])
           slots == [i \in Index |-> IF (i - s) % QSize < n
                                     THEN s + 1 + ((i - s) % QSize) ELSE ring[u][i]]
           r == reg[u]
<1>1. /\ pc.op \in {"linux", "run"} /\ linux[u] = "on" /\ trap[u] = "none"
      /\ s + n <= MaxRequests /\ (u \in lost \/ s + n - l < QSize)
      /\ ring' = [ring EXCEPT ![u] = slots]
      /\ sent' = [sent EXCEPT ![u] = s + n]
      /\ IF pc.op = "run"
         THEN trap' = [trap EXCEPT ![u] = "busy"] /\ reg' = reg
         ELSE reg' = [reg EXCEPT ![u].tail = (s + n) % QSize] /\ trap' = trap
      /\ linux' = linux /\ log' = log /\ emu' = emu /\ ir' = ir /\ ready' = ready
      /\ pc' = pc /\ mask' = mask /\ lost' = lost
  BY DEF LinuxSubmit, flagVars
<1>2. /\ QSize \in Nat \ {0} /\ s \in Nat /\ l \in Nat /\ MaxRequests \in Nat
      /\ (u \notin lost => l <= s) /\ Index = 0 .. QSize - 1 /\ n \in Nat
  BY Numbers DEF Index
<1>3. /\ ring \in [UnitIds -> [Index -> 0 .. MaxRequests]]
      /\ sent \in [UnitIds -> 0 .. MaxRequests]
      /\ reg \in [UnitIds -> Registers] /\ r \in Registers
      /\ trap \in [UnitIds -> {"none", "busy", "panic"}]
  BY DEF IInv, TypeOK, Registers
<1>4. Pending(u) /\ Unit(u) /\ Event(u)
  BY DEF IInv
<1>5. slots \in [Index -> 0 .. MaxRequests]
  <2> SUFFICES ASSUME NEW i \in Index
               PROVE  (IF (i - s) % QSize < n
                       THEN s + 1 + ((i - s) % QSize) ELSE ring[u][i])
                        \in 0 .. MaxRequests
    BY Zenon
  <2> DEFINE d == (i - s) % QSize
  <2>1. d \in 0 .. QSize - 1
    <3>1. i - s \in Int
      BY <1>2
    <3> QED BY <1>2, <3>1, Quotient
  <2>2. ring[u][i] \in 0 .. MaxRequests
    BY <1>3
  <2> HIDE DEF d
  <2>3. d < n => s + 1 + d \in 0 .. MaxRequests
    <3> HIDE DEF s
    <3>1. s + n <= MaxRequests /\ s \in Nat /\ MaxRequests \in Nat /\ d \in Nat
      BY <1>1, <1>2, <2>1
    <3> QED BY <3>1
  <2> QED BY <2>2, <2>3, Zenon DEF d
<1>6. Filled(ring[u], slots, QSize, s, n)
  BY <1>2 DEF Filled
<1>7. u \notin lost => Waiting(ring[u], QSize, l, s)
  BY <1>4 DEF Pending, InOrder, Waiting
<1> HIDE DEF slots
<1>8. ASSUME u \notin lost
      PROVE  Waiting(slots, QSize, l, s + n)
  <2> DEFINE f == ring[u]
  <2>1. Waiting(f, QSize, l, s) /\ Filled(f, slots, QSize, s, n)
    BY <1>6, <1>7, <1>8
  <2>2. /\ QSize \in Nat \ {0} /\ s \in Nat /\ l \in Nat /\ n \in Nat
        /\ l <= s /\ s + n - l < QSize
    BY <1>1, <1>2, <1>8
  <2> HIDE DEF f, s, l
  <2> QED BY <2>1, <2>2, RingFilled, Zenon
<1>9. /\ ring' \in [UnitIds -> [Index -> 0 .. MaxRequests]] /\ ring'[u] = slots
      /\ sent' \in [UnitIds -> 0 .. MaxRequests] /\ sent'[u] = s + n
      /\ \A v \in UnitIds \ {u} : ring'[v] = ring[v] /\ sent'[v] = sent[v]
  <2>1. s + n \in 0 .. MaxRequests
    BY <1>1, <1>2
  <2>2. ring' \in [UnitIds -> [Index -> 0 .. MaxRequests]] /\ ring'[u] = slots
    BY <1>1, <1>3, <1>5
  <2>3. sent' \in [UnitIds -> 0 .. MaxRequests] /\ sent'[u] = s + n
    BY <1>1, <1>3, <2>1
  <2>4. \A v \in UnitIds \ {u} : ring'[v] = ring[v] /\ sent'[v] = sent[v]
    BY <1>1, <1>3
  <2> QED BY <2>2, <2>3, <2>4
<1>10. ASSUME u \notin lost
       PROVE  InOrder(u)'
  <2>1. l <= s + n /\ s + n - l < QSize
    BY <1>1, <1>2, <1>10
  <2>2. \A i \in 1 .. l : log[u][i] = i
    BY <1>4, <1>10 DEF Pending, InOrder
  <2>3. Len(log'[u]) = l /\ sent'[u] = s + n
    BY <1>1, <1>9
  <2>4. Len(log'[u]) <= sent'[u] /\ sent'[u] - Len(log'[u]) < QSize
    <3> DEFINE a == Len(log'[u])
               b == sent'[u]
    <3>1. a = l /\ b = s + n
      BY <2>3
    <3> HIDE DEF s, l, a, b
    <3>2. a <= b /\ b - a < QSize
      BY <1>2, <2>1, <3>1
    <3> QED BY <3>2 DEF a, b
  <2>5. \A i \in 1 .. Len(log'[u]) : log'[u][i] = i
    BY <1>1, <2>2
  <2>6. \A i \in Len(log'[u]) + 1 .. sent'[u] : ring'[u][(i - 1) % QSize] = i
    BY <1>8, <1>9, <1>10, <2>3, Zenon DEF Waiting
  <2> QED BY <2>4, <2>5, <2>6, Zenon DEF InOrder
<1>13. /\ Pending(u)' /\ Position(u)' = Position(u) /\ LinuxTail(u)' = (s + n) % QSize
       /\ LateIR' <=> LateIR
  <2>1. Pending(u)'
    BY <1>1, <1>10, Zenon DEF Pending
  <2>2. Position(u)' = Position(u) /\ LinuxTail(u)' = (s + n) % QSize
    BY <1>1, <1>9 DEF Position, LinuxTail
  <2> QED BY <1>1, <2>1, <2>2, SameLateIR
<1>11. CASE pc.op = "run"
  <2>1. /\ trap' \in [UnitIds -> {"none", "busy", "panic"}] /\ trap'[u] = "busy"
        /\ reg' = reg /\ \A v \in UnitIds \ {u} : trap'[v] = trap[v]
    BY <1>1, <1>3, <1>11
  <2>2. TypeOK' /\ (log \in [UnitIds -> Seq(0 .. MaxRequests)])'
    BY <1>1, <1>9, <2>1 DEF IInv, TypeOK
  <2>3. \A v \in UnitIds \ {u} : SameUnit(v)
    BY <1>1, <1>9, <2>1 DEF SameUnit
  <2>4. Recorded(u) /\ SpySide(u) /\ Whole(reg[u])
    BY <1>11, AllWhole
  <2>5. Recorded(u)'
    BY <1>1, <1>13, <2>4 DEF Recorded
  <2>6. SpySide(u)'
    BY <2>1, <2>4 DEF SpySide
  <2>7. Unit(u)'
    BY <1>1, <1>11, <2>5, <2>6 DEF Unit, Routines
  <2>8. Event(u)'
    BY <1>1, <1>11, <2>1, <2>4 DEF Event, Routines
  <2>9. Trapped(u)'
    BY <1>1, <1>11, <2>1 DEF Trapped
  <2>10. Still
    BY <1>1 DEF Still
  <2> QED BY <1>13, <2>2, <2>3, <2>7, <2>8, <2>9, <2>10, OneUnit
<1>12. CASE pc.op = "linux"
  <2> DEFINE t == (s + n) % QSize
             new == [r EXCEPT !.tail = t]
  <2>1. t \in Index
    <3>1. s + n \in Int
      BY <1>2
    <3> QED BY <1>2, <3>1, Quotient
  <2>2. reg' = [reg EXCEPT ![u] = new] /\ trap' = trap
    BY <1>1, <1>12
  <2> HIDE DEF t
  <2>3. new \in Registers
    BY <1>3, <2>1 DEF Registers
  <2>4. /\ new.te = r.te /\ new.ire = r.ire /\ new.qie = r.qie
        /\ new.irta = r.irta /\ new.irt = r.irt /\ new.iqa = r.iqa
        /\ new.head = r.head /\ new.tail = t
        /\ new.fresh = r.fresh /\ new.im = r.im /\ new.fe = r.fe
    BY <1>3 DEF Registers
  <2> HIDE DEF new
  <2>5. /\ reg' \in [UnitIds -> Registers] /\ reg'[u] = new
        /\ \A v \in UnitIds \ {u} : reg'[v] = reg[v]
    BY <1>3, <2>2, <2>3
  <2>6. TypeOK' /\ (log \in [UnitIds -> Seq(0 .. MaxRequests)])'
    BY <1>1, <1>9, <2>2, <2>5 DEF IInv, TypeOK, Registers
  <2>7. \A v \in UnitIds \ {u} : SameUnit(v)
    BY <1>1, <1>9, <2>2, <2>5 DEF SameUnit
  <2>8. LinuxSide(u) /\ Whole(reg[u]) /\ Returned(u)
    BY <1>12, AllWhole
  <2>9. LinuxSide(u)'
    <3>1. LinuxTail(u)' = t
      BY <1>13 DEF t
    <3> QED BY <1>1, <1>13, <2>4, <2>5, <2>8, <3>1 DEF LinuxSide, InPlace
  <2>10. Unit(u)'
    BY <1>1, <1>12, <2>9 DEF Unit, Routines
  <2>11. Whole(reg'[u])
    BY <2>4, <2>5, <2>8 DEF Whole
  <2>12. Event(u)'
    <3>1. Returned(u)'
      BY <1>1, <2>4, <2>5, <2>8 DEF Returned
    <3> QED BY <1>1, <1>12, <2>11, <3>1 DEF Event, Routines
  <2>13. Trapped(u)'
    BY <1>1, <1>12, <2>2 DEF Trapped
  <2>14. Still
    BY <1>1 DEF Still
  <2> QED BY <1>13, <2>6, <2>7, <2>10, <2>12, <2>13, <2>14, OneUnit
<1> QED BY <1>1, <1>11, <1>12

LEMMA MaskStep ==
  ASSUME IInv, NEW u \in UnitIds, LinuxMask(u)
  PROVE  IInv'
<1> DEFINE r == reg[u]
           e == emu[u]
           im == ~ mask[u]
<1>1. /\ pc.op \in {"linux", "run"} /\ linux[u] = "on" /\ trap[u] = "none"
      /\ IF pc.op = "run"
         THEN emu' = [emu EXCEPT ![u].im = ~ mask[u]] /\ reg' = reg
         ELSE reg' = [reg EXCEPT ![u].im = ~ mask[u]] /\ emu' = emu
      /\ mask' = [mask EXCEPT ![u] = ~ mask[u]] /\ lost' = lost
      /\ linux' = linux /\ ring' = ring /\ sent' = sent /\ log' = log
      /\ ir' = ir /\ ready' = ready /\ trap' = trap /\ pc' = pc
  BY DEF LinuxMask, flagVars, linuxVars
<1>2. /\ reg \in [UnitIds -> Registers] /\ r \in Registers
      /\ emu \in [UnitIds -> [iqh : Index, iqa : Owners, irta : Owners,
                              im : BOOLEAN]]
      /\ e \in [iqh : Index, iqa : Owners, irta : Owners, im : BOOLEAN]
  BY DEF IInv, TypeOK, Registers
<1>3. Pending(u) /\ (LateIR' <=> LateIR) /\ Position(u)' = Position(u)
      /\ LinuxTail(u)' = LinuxTail(u) /\ Whole(reg[u])
  <2>1. LateIR' <=> LateIR
    BY <1>1, SameLateIR
  <2>2. Position(u)' = Position(u) /\ LinuxTail(u)' = LinuxTail(u)
    BY <1>1 DEF Position, LinuxTail
  <2>3. Pending(u) /\ Whole(reg[u])
    BY <1>1, AllWhole DEF IInv
  <2> QED BY <2>1, <2>2, <2>3
<1>4. Pending(u)'
  BY <1>1, <1>3 DEF Pending, InOrder
<1>5. Still
  BY <1>1 DEF Still
<1>8. im \in BOOLEAN
  OBVIOUS
<1> HIDE DEF im
<1>9. mask' \in [UnitIds -> BOOLEAN] /\ mask'[u] = im
      /\ \A v \in UnitIds \ {u} : mask'[v] = mask[v]
  <2>1. mask \in [UnitIds -> BOOLEAN] /\ mask' = [mask EXCEPT ![u] = im]
    BY <1>1, Zenon DEF IInv, TypeOK, im
  <2> QED BY <1>8, <2>1
<1>6. CASE pc.op = "run"
  <2> DEFINE new == [e EXCEPT !.im = im]
  <2>3. emu' = [emu EXCEPT ![u] = new] /\ reg' = reg
    BY <1>1, <1>6, Zenon DEF im
  <2>4. new \in [iqh : Index, iqa : Owners, irta : Owners, im : BOOLEAN]
    BY <1>2, <1>8
  <2>5. new.iqh = e.iqh /\ new.iqa = e.iqa /\ new.irta = e.irta /\ new.im = im
    BY <1>2
  <2> HIDE DEF new
  <2>6. /\ emu' \in [UnitIds -> [iqh : Index, iqa : Owners, irta : Owners,
                                 im : BOOLEAN]]
        /\ emu'[u] = new /\ \A v \in UnitIds \ {u} : emu'[v] = emu[v]
    BY <1>2, <2>3, <2>4
  <2>7. TypeOK' /\ (log \in [UnitIds -> Seq(0 .. MaxRequests)])'
    BY <1>1, <1>9, <2>3, <2>6 DEF IInv, TypeOK
  <2>8. \A v \in UnitIds \ {u} : SameUnit(v)
    BY <1>1, <1>9, <2>3, <2>6 DEF SameUnit
  <2>9. Recorded(u) /\ SpySide(u) /\ Served(u)
    BY <1>1, <1>6, AllWhole
  <2>10. Recorded(u)'
    BY <1>1, <1>3, <1>9, <2>5, <2>6, <2>9 DEF Recorded
  <2>11. SpySide(u)' /\ Served(u)'
    BY <1>1, <2>3, <2>9 DEF SpySide, Served
  <2>12. Unit(u)'
    BY <1>1, <1>6, <2>10, <2>11 DEF Unit, Routines
  <2>13. Event(u)'
    BY <1>1, <1>3, <1>6, <2>3 DEF Event, Routines
  <2>14. Trapped(u)'
    BY <1>1, <1>6, <2>11 DEF Trapped
  <2> QED BY <1>4, <1>5, <2>7, <2>8, <2>12, <2>13, <2>14, OneUnit
<1>7. CASE pc.op = "linux"
  <2> DEFINE new == [r EXCEPT !.im = im]
  <2>3. reg' = [reg EXCEPT ![u] = new] /\ emu' = emu
    <3>1. pc.op # "run"
      BY <1>7
    <3> QED BY <1>1, <3>1, Zenon DEF im
  <2>4. new \in Registers
    BY <1>2, <1>8 DEF Registers
  <2>5. /\ new.te = r.te /\ new.ire = r.ire /\ new.qie = r.qie
        /\ new.irta = r.irta /\ new.irt = r.irt /\ new.iqa = r.iqa
        /\ new.head = r.head /\ new.tail = r.tail
        /\ new.fresh = r.fresh /\ new.im = im /\ new.fe = r.fe
    BY <1>2 DEF Registers
  <2> HIDE DEF new
  <2>6. /\ reg' \in [UnitIds -> Registers] /\ reg'[u] = new
        /\ \A v \in UnitIds \ {u} : reg'[v] = reg[v]
    BY <1>2, <2>3, <2>4
  <2>7. TypeOK' /\ (log \in [UnitIds -> Seq(0 .. MaxRequests)])'
    BY <1>1, <1>9, <2>3, <2>6 DEF IInv, TypeOK, Registers
  <2>8. \A v \in UnitIds \ {u} : SameUnit(v)
    BY <1>1, <1>9, <2>3, <2>6 DEF SameUnit
  <2>9. LinuxSide(u) /\ Returned(u)
    BY <1>7, AllWhole
  <2>10. LinuxSide(u)'
    BY <1>1, <1>3, <2>5, <2>6, <2>9 DEF LinuxSide, InPlace
  <2>11. Unit(u)'
    BY <1>1, <1>7, <2>10 DEF Unit, Routines
  <2>12. Whole(reg'[u])
    BY <1>3, <2>5, <2>6 DEF Whole
  <2>13. Event(u)'
    <3>1. Returned(u)'
      BY <1>1, <1>9, <2>5, <2>6, <2>9 DEF Returned
    <3> QED BY <1>1, <1>7, <2>12, <3>1 DEF Event, Routines
  <2>14. Trapped(u)'
    BY <1>1, <1>7 DEF Trapped
  <2> QED BY <1>4, <1>5, <2>7, <2>8, <2>11, <2>13, <2>14, OneUnit
<1> QED BY <1>1, <1>6, <1>7

\* The descriptor that is to be carried out next is in its slot.
LEMMA NextItem ==
  ASSUME IInv, NEW u \in UnitIds, ~ Served(u)
  PROVE  ring[u][Position(u)] = Len(log[u]) + 1 /\ linux[u] = "on"
<1> DEFINE s == sent[u]
           l == Len(log[u])
<1>1. s \in Nat /\ l \in Nat /\ l <= s /\ l # s /\ u \notin lost
  BY Numbers DEF Served
<1>2. Pending(u) /\ InOrder(u)
  BY <1>1 DEF IInv, Pending
<1>3. l + 1 \in l + 1 .. s /\ (l + 1) - 1 = l
  BY <1>1
<1>4. ring[u][((l + 1) - 1) % QSize] = l + 1
  BY <1>2, <1>3, Zenon DEF InOrder
<1>5. linux[u] = "on"
  BY <1>1, <1>2 DEF Pending
<1> QED BY <1>3, <1>4, <1>5 DEF Position

\* The next descriptor is carried out.
LEMMA NextServed ==
  ASSUME IInv, NEW u \in UnitIds, ~ Served(u),
         log' = [log EXCEPT ![u] = Append(log[u], ring[u][Position(u)])],
         linux' = linux, sent' = sent, ring' = ring, lost' = lost
  PROVE  /\ Pending(u)' /\ Position(u)' = (Position(u) + 1) % QSize
         /\ LinuxTail(u)' = LinuxTail(u)
         /\ log' \in [UnitIds -> Seq(0 .. MaxRequests)]
         /\ \A v \in UnitIds \ {u} : log'[v] = log[v]
<1> DEFINE s == sent[u]
           l == Len(log[u])
           item == ring[u][Position(u)]
           new == Append(log[u], item)
<1>1. /\ QSize \in Nat \ {0} /\ s \in Nat /\ l \in Nat /\ MaxRequests \in Nat
      /\ l <= s /\ s < l + QSize /\ l # s /\ u \notin lost
      /\ log[u] \in Seq(0 .. MaxRequests) /\ Position(u) \in Index
  BY Numbers DEF Served
<1>2. Pending(u) /\ InOrder(u)
  BY <1>1 DEF IInv, Pending
<1>3. item = l + 1
  BY NextItem
<1>4. item \in 0 .. MaxRequests
  BY <1>1 DEF IInv, TypeOK
<1> HIDE DEF item
<1>5. /\ new \in Seq(0 .. MaxRequests) /\ Len(new) = l + 1
      /\ \A i \in 1 .. l : new[i] = log[u][i]
      /\ new[l + 1] = item
  BY <1>1, <1>4, AppendProperties
<1>6. log' = [log EXCEPT ![u] = new]
  BY DEF item
<1> HIDE DEF new
<1>7. /\ log' \in [UnitIds -> Seq(0 .. MaxRequests)] /\ log'[u] = new
      /\ \A v \in UnitIds \ {u} : log'[v] = log[v]
  BY <1>5, <1>6 DEF IInv
<1>8. Pending(u)'
  <2>1. Len(log'[u]) = l + 1 /\ sent'[u] = s
    BY <1>5, <1>7
  <2>2. Len(log'[u]) <= sent'[u] /\ sent'[u] - Len(log'[u]) < QSize
    <3> DEFINE a == Len(log'[u])
               b == sent'[u]
    <3>1. a = l + 1 /\ b = s
      BY <2>1
    <3> HIDE DEF a, b
    <3>2. a <= b /\ b - a < QSize
      BY <1>1, <3>1
    <3> QED BY <3>2 DEF a, b
  <2>3. \A i \in 1 .. Len(log'[u]) : log'[u][i] = i
    <3> SUFFICES ASSUME NEW i \in 1 .. l + 1
                 PROVE  new[i] = i
      BY <1>7, <2>1
    <3>1. i \in 1 .. l => new[i] = log[u][i] /\ log[u][i] = i
      BY <1>2, <1>5 DEF InOrder
    <3>2. i \in 1 .. l \/ i = l + 1
      BY <1>1
    <3> QED BY <1>3, <1>5, <3>1, <3>2
  <2>4. \A i \in Len(log'[u]) + 1 .. sent'[u] : ring'[u][(i - 1) % QSize] = i
    <3>1. \A i \in l + 1 .. s : ring[u][(i - 1) % QSize] = i
      BY <1>2 DEF InOrder
    <3>2. \A i \in (l + 1) + 1 .. s : i \in l + 1 .. s
      BY <1>1
    <3> QED BY <2>1, <3>1, <3>2, Zenon
  <2>5. linux'[u] # "on" => sent'[u] = 0 /\ u \notin lost'
    BY <1>2 DEF Pending
  <2>6. InOrder(u)'
    BY <2>2, <2>3, <2>4, Zenon DEF InOrder
  <2> QED BY <2>5, <2>6, Zenon DEF Pending
<1>9. Position(u)' = (Position(u) + 1) % QSize
  <2>1. (l + 1) % QSize = ((l % QSize) + 1) % QSize
    BY <1>1, NextIndex
  <2>2. Position(u)' = (l + 1) % QSize
    BY <1>5, <1>7 DEF Position
  <2> QED BY <2>1, <2>2 DEF Position
<1>10. LinuxTail(u)' = LinuxTail(u)
  BY DEF LinuxTail
<1> QED BY <1>7, <1>8, <1>9, <1>10

LEMMA HandleTailStep ==
  ASSUME IInv, NEW u \in UnitIds, HandleTail(u)
  PROVE  IInv'
<1> DEFINE e == emu[u]
<1>1. /\ trap[u] = "busy"
      /\ IF e.iqh = LinuxTail(u)
         THEN trap' = [trap EXCEPT ![u] = "none"] /\ log' = log /\ emu' = emu
         ELSE /\ log' = [log EXCEPT ![u] = Append(log[u], ring[u][e.iqh])]
              /\ emu' = [emu EXCEPT ![u].iqh = (e.iqh + 1) % QSize]
              /\ trap' = trap
      /\ linux' = linux /\ ring' = ring /\ sent' = sent /\ reg' = reg
      /\ ir' = ir /\ ready' = ready /\ pc' = pc /\ mask' = mask /\ lost' = lost
  BY DEF HandleTail, flagVars
<1>2. pc.op = "run"
  <2>1. Trapped(u)
    BY DEF IInv
  <2> QED BY <1>1, <2>1 DEF Trapped
<1>3. Recorded(u) /\ SpySide(u) /\ Whole(reg[u]) /\ Pending(u)
  BY <1>2, AllWhole DEF IInv
<1>4. /\ trap \in [UnitIds -> {"none", "busy", "panic"}]
      /\ emu \in [UnitIds -> [iqh : Index, iqa : Owners, irta : Owners,
                              im : BOOLEAN]]
      /\ e \in [iqh : Index, iqa : Owners, irta : Owners, im : BOOLEAN]
  BY DEF IInv, TypeOK
<1>5. LateIR' <=> LateIR
  BY <1>1, SameLateIR
<1>6. SpySide(u)' /\ Event(u)'
  BY <1>1, <1>2, <1>3 DEF SpySide, Event, Routines
<1>7. Still
  BY <1>1 DEF Still
<1>8. u \notin lost => e.iqh = Position(u)
  BY <1>3 DEF Recorded
<1>9. CASE e.iqh = LinuxTail(u)
  <2>1. trap' = [trap EXCEPT ![u] = "none"] /\ log' = log /\ emu' = emu
    BY <1>1, <1>9
  <2>2. Served(u)
    BY <1>8, <1>9, Numbers
  <2>3. /\ trap' \in [UnitIds -> {"none", "busy", "panic"}] /\ trap'[u] = "none"
        /\ \A v \in UnitIds \ {u} : trap'[v] = trap[v]
    BY <1>4, <2>1
  <2>4. TypeOK' /\ (log \in [UnitIds -> Seq(0 .. MaxRequests)])'
    BY <1>1, <2>1, <2>3 DEF IInv, TypeOK
  <2>5. \A v \in UnitIds \ {u} : SameUnit(v)
    BY <1>1, <2>1, <2>3 DEF SameUnit
  <2>6. Pending(u)' /\ Served(u)' /\ Recorded(u)'
    <3>1. Pending(u)' /\ Served(u)'
      BY <1>1, <1>3, <2>1, <2>2 DEF Pending, InOrder, Served
    <3>2. Position(u)' = Position(u)
      BY <2>1 DEF Position
    <3>3. Recorded(u)'
      BY <1>1, <1>3, <1>5, <2>1, <3>2 DEF Recorded
    <3> QED BY <3>1, <3>3
  <2>7. Unit(u)'
    BY <1>1, <1>2, <1>6, <2>6 DEF Unit, Routines
  <2>8. Trapped(u)'
    BY <1>1, <1>2, <2>6 DEF Trapped
  <2> QED BY <1>6, <1>7, <2>4, <2>5, <2>6, <2>7, <2>8, OneUnit
<1>10. CASE e.iqh # LinuxTail(u) /\ u \notin lost
  <2> DEFINE h == (e.iqh + 1) % QSize
             new == [e EXCEPT !.iqh = h]
  <2>1. /\ log' = [log EXCEPT ![u] = Append(log[u], ring[u][Position(u)])]
        /\ trap' = trap
    BY <1>1, <1>8, <1>10
  <2>2. emu' = [emu EXCEPT ![u].iqh = h]
    BY <1>1, <1>10
  <2>3. h \in Index
    BY <1>4, Distance
  <2> HIDE DEF h
  <2>4. emu' = [emu EXCEPT ![u] = new]
    BY <2>2
  <2>5. new \in [iqh : Index, iqa : Owners, irta : Owners, im : BOOLEAN]
    BY <1>4, <2>3
  <2>6. new.iqh = h /\ new.iqa = e.iqa /\ new.irta = e.irta /\ new.im = e.im
    BY <1>4
  <2> HIDE DEF new
  <2>7. /\ emu' \in [UnitIds -> [iqh : Index, iqa : Owners, irta : Owners,
                                 im : BOOLEAN]]
        /\ emu'[u] = new /\ \A v \in UnitIds \ {u} : emu'[v] = emu[v]
    BY <1>4, <2>4, <2>5
  <2>8. ~ Served(u)
    BY <1>8, <1>10, Numbers
  <2>9. /\ Pending(u)' /\ Position(u)' = (Position(u) + 1) % QSize
        /\ log' \in [UnitIds -> Seq(0 .. MaxRequests)]
        /\ \A v \in UnitIds \ {u} : log'[v] = log[v]
    BY <1>1, <2>1, <2>8, NextServed
  <2>10. TypeOK' /\ (log \in [UnitIds -> Seq(0 .. MaxRequests)])'
    BY <1>1, <2>1, <2>7, <2>9 DEF IInv, TypeOK
  <2>11. \A v \in UnitIds \ {u} : SameUnit(v)
    BY <1>1, <2>1, <2>7, <2>9 DEF SameUnit
  <2>12. Recorded(u)'
    <3>1. Position(u)' = h
      BY <1>8, <1>10, <2>9 DEF h
    <3> QED BY <1>1, <1>3, <1>5, <2>6, <2>7, <3>1 DEF Recorded
  <2>13. Unit(u)'
    BY <1>1, <1>2, <1>6, <2>12 DEF Unit, Routines
  <2>14. Trapped(u)'
    BY <1>1, <1>2, <2>1 DEF Trapped
  <2> QED BY <1>6, <1>7, <2>9, <2>10, <2>11, <2>13, <2>14, OneUnit
<1>11. CASE e.iqh # LinuxTail(u) /\ u \in lost
  <2> DEFINE h == (e.iqh + 1) % QSize
             new == [e EXCEPT !.iqh = h]
             item == ring[u][e.iqh]
             more == Append(log[u], item)
  <2>1. /\ log' = [log EXCEPT ![u] = more]
        /\ emu' = [emu EXCEPT ![u].iqh = h] /\ trap' = trap
    BY <1>1, <1>11
  <2>2. h \in Index
    BY <1>4, Distance
  <2>3. item \in 0 .. MaxRequests
    BY <1>4 DEF IInv, TypeOK
  <2> HIDE DEF h, item
  <2>4. more \in Seq(0 .. MaxRequests)
    BY <2>3, Numbers, AppendProperties
  <2>5. /\ emu' = [emu EXCEPT ![u] = new]
        /\ new \in [iqh : Index, iqa : Owners, irta : Owners, im : BOOLEAN]
        /\ new.iqa = e.iqa /\ new.irta = e.irta /\ new.im = e.im
    BY <1>4, <2>1, <2>2
  <2> HIDE DEF new, more
  <2>6. /\ emu' \in [UnitIds -> [iqh : Index, iqa : Owners, irta : Owners,
                                 im : BOOLEAN]]
        /\ emu'[u] = new /\ \A v \in UnitIds \ {u} : emu'[v] = emu[v]
    BY <1>4, <2>5
  <2>7. /\ log' \in [UnitIds -> Seq(0 .. MaxRequests)]
        /\ \A v \in UnitIds \ {u} : log'[v] = log[v]
    BY <2>1, <2>4 DEF IInv
  <2>8. TypeOK' /\ (log \in [UnitIds -> Seq(0 .. MaxRequests)])'
    BY <1>1, <2>1, <2>6, <2>7 DEF IInv, TypeOK
  <2>9. \A v \in UnitIds \ {u} : SameUnit(v)
    BY <1>1, <2>1, <2>6, <2>7 DEF SameUnit
  <2>10. Pending(u)'
    BY <1>1, <1>3, <1>11 DEF Pending
  <2>11. Recorded(u)'
    BY <1>1, <1>3, <1>5, <1>11, <2>5, <2>6 DEF Recorded
  <2>12. Unit(u)'
    BY <1>1, <1>2, <1>6, <2>11 DEF Unit, Routines
  <2>13. Trapped(u)'
    BY <1>1, <1>2, <2>1 DEF Trapped
  <2> QED BY <1>6, <1>7, <2>8, <2>9, <2>10, <2>12, <2>13, OneUnit
<1> QED BY <1>9, <1>10, <1>11

LEMMA HandlePanicStep ==
  ASSUME IInv, NEW u \in UnitIds, HandlePanic(u)
  PROVE  IInv'
<1>1. /\ trap[u] = "busy" /\ trap' = [trap EXCEPT ![u] = "panic"]
      /\ linux' = linux /\ ring' = ring /\ sent' = sent /\ log' = log
      /\ reg' = reg /\ emu' = emu /\ ir' = ir /\ ready' = ready /\ pc' = pc
      /\ mask' = mask /\ lost' = lost
  BY DEF HandlePanic, linuxVars, flagVars
<1>2. pc.op = "run"
  <2>1. Trapped(u)
    BY DEF IInv
  <2> QED BY <1>1, <2>1 DEF Trapped
<1>3. Recorded(u) /\ SpySide(u) /\ Whole(reg[u]) /\ Pending(u)
  BY <1>2, AllWhole DEF IInv
<1>4. /\ trap' \in [UnitIds -> {"none", "busy", "panic"}] /\ trap'[u] = "panic"
      /\ \A v \in UnitIds \ {u} : trap'[v] = trap[v]
  BY <1>1 DEF IInv, TypeOK
<1>5. TypeOK' /\ (log \in [UnitIds -> Seq(0 .. MaxRequests)])'
  BY <1>1, <1>4 DEF IInv, TypeOK
<1>6. \A v \in UnitIds \ {u} : SameUnit(v)
  BY <1>1, <1>4 DEF SameUnit
<1>7. Pending(u)' /\ SpySide(u)' /\ Recorded(u)'
  <2>1. LateIR' <=> LateIR
    BY <1>1, SameLateIR
  <2>2. Position(u)' = Position(u)
    BY <1>1 DEF Position
  <2>3. Recorded(u)'
    BY <1>1, <1>3, <2>1, <2>2 DEF Recorded
  <2> QED BY <1>1, <1>3, <2>3 DEF Pending, InOrder, SpySide
<1>8. Unit(u)'
  BY <1>1, <1>2, <1>7 DEF Unit, Routines
<1>9. Event(u)'
  BY <1>1, <1>2, <1>3 DEF Event, Routines
<1>10. Trapped(u)'
  BY <1>1, <1>2, <1>4 DEF Trapped
<1>11. Still
  BY <1>1 DEF Still
<1> QED BY <1>5, <1>6, <1>7, <1>8, <1>9, <1>10, <1>11, OneUnit

-----------------------------------------------------------------------------
(***************************************************************************)
(* The units fetch descriptors.                                            *)
(***************************************************************************)
\* Where the program is when a unit has descriptors to fetch: Linux has
\* submitted them, or the CPU polls for the unit's answer, or the unit does not
\* know where it has come to.
LEMMA FetchWhere ==
  ASSUME IInv, NEW u \in UnitIds, reg[u].qie, reg[u].head # reg[u].tail
  PROVE  \/ /\ u \in lost /\ reg[u].iqa # "spy"
            /\ ~ (pc.op = "shutdown" /\ u = pc.unit /\ pc.at = 8)
         \/ pc.op \in {"linux", "init"} /\ LinuxSide(u) /\ ~ Served(u)
         \/ /\ pc.op = "commit" /\ u = pc.unit /\ pc.polling
            /\ pc.at \in 7 .. 9 /\ Committing(u, pc.at, pc.polling)
         \/ /\ pc.op = "shutdown" /\ u = pc.unit /\ pc.polling
            /\ pc.at \in {4, 8} /\ Stopping(u, pc.at, pc.polling)
<1>1. Unit(u)
  BY DEF IInv
<1>2. LinuxSide(u) => IF u \in lost THEN reg[u].iqa # "spy" ELSE ~ Served(u)
  BY Numbers DEF LinuxSide, InPlace
<1>3. ~ SpySide(u)
  BY DEF SpySide
<1>4. CASE pc.op \in {"linux", "init"}
  BY <1>1, <1>2, <1>4 DEF Unit
<1>5. CASE pc.op = "run"
  BY <1>1, <1>3, <1>5 DEF Unit
<1>6. CASE pc.op \in Routines
  <2> DEFINE stray == u \in lost /\ reg[u].iqa # "spy"
  <2>1. Served(u) /\ Recorded(u)
    BY <1>1, <1>6 DEF Unit
  <2>2. LinuxSide(u) => stray
    BY <1>2, <2>1
  <2>3. Ahead(pc.op, u) \/ Behind(pc.op, u) => stray
    BY <1>3, <2>2 DEF Ahead, Behind
  <2>4. CASE u # pc.unit
    <3>1. u > pc.unit \/ u < pc.unit
      BY <2>4, Numbers DEF IInv, PcOK
    <3>2. stray
      BY <1>1, <1>6, <2>3, <3>1 DEF Unit
    <3> QED BY <2>4, <3>2
  <2>5. CASE u = pc.unit
    <3>1. Place(pc.op, u, pc.at, pc.polling)
      BY <1>1, <1>6, <2>5 DEF Unit
    <3>2. PICK k \in Nat : pc.at = k
      BY DEF IInv, PcOK
    <3>3. PICK p \in BOOLEAN : pc.polling = p
      BY DEF IInv, PcOK
    <3>4. k >= 1
      BY <1>6, <3>2, Programs DEF IInv, PcOK
    <3>5. CASE pc.op = "faults"
      BY <2>2, <3>1, <3>5 DEF Place
    <3>6. CASE pc.op = "commit"
      <4>1. Committing(u, k, p)
        BY <3>1, <3>2, <3>3, <3>6 DEF Place
      <4>2. /\ k = 1 => stray
            /\ k \notin 2 .. 6 /\ (k >= 6 => p) /\ (p => k \in 7 .. 9)
        BY <2>2, <4>1 DEF Committing
      <4>3. stray \/ (p /\ k \in 7 .. 9)
        BY <3>4, <4>2
      <4> QED BY <2>5, <3>2, <3>3, <3>6, <4>1, <4>3
    <3>7. CASE pc.op = "shutdown"
      <4>1. Stopping(u, k, p)
        BY <3>1, <3>2, <3>3, <3>7 DEF Place
      <4>2. u \in lost \/ Position(u) = LinuxTail(u)
        BY <2>1, Numbers
      <4>3. k >= 9 => stray
        BY <2>1, <4>1, <4>2 DEF Stopping, InPlace, Recorded
      <4>4. /\ k <= 5 => p
            /\ k \notin 6 .. 7
            /\ p => k \in {4, 8}
            /\ k = 8 => p
        BY <4>1 DEF Stopping
      <4>5. (stray /\ k # 8) \/ (p /\ k \in {4, 8})
        BY <3>4, <4>3, <4>4
      <4> QED BY <2>5, <3>2, <3>3, <3>7, <4>1, <4>5
    <3> QED BY <1>6, <3>5, <3>6, <3>7 DEF Routines
  <2> QED BY <2>4, <2>5
<1>7. pc.op \in Routines \cup {"linux", "init", "run"}
  BY DEF IInv, PcOK
<1> QED BY <1>4, <1>5, <1>6, <1>7

\* What a fetch does to the registers.
LEMMA Fetches ==
  ASSUME IInv, NEW u \in UnitIds, Fetch(u), NEW fresh \in SUBSET Caches,
         fresh = IF reg[u].iqa = "spy"
                      /\ (reg[u].tail - reg[u].head) % QSize = 2
                 THEN reg[u].fresh \cup {Program(pc.op)[pc.at][2]}
                 ELSE reg[u].fresh
  PROVE  /\ reg[u] \in Registers /\ reg' \in [UnitIds -> Registers]
         /\ reg'[u] = [reg[u] EXCEPT !.head = (reg[u].head + 1) % QSize,
                                     !.fresh = fresh]
         /\ \A v \in UnitIds \ {u} : reg'[v] = reg[v]
         /\ log' = IF reg[u].iqa = "linux" /\ ring[u][reg[u].head] # 0
                   THEN [log EXCEPT ![u] = Append(log[u], ring[u][reg[u].head])]
                   ELSE log
         /\ linux' = linux /\ ring' = ring /\ sent' = sent /\ emu' = emu
         /\ trap' = trap /\ ir' = ir /\ pc' = pc /\ ready' = ready /\ Still
         /\ mask' = mask /\ lost' = lost
<1> DEFINE r == reg[u]
           h == (r.head + 1) % QSize
           new == [r EXCEPT !.head = h, !.fresh = fresh]
<1>1. reg \in [UnitIds -> Registers] /\ r \in Registers
  BY DEF IInv, TypeOK, Registers
<1>2. h \in Index
  <2>1. r.head \in Index /\ r.tail \in Index
    BY <1>1 DEF Registers
  <2> QED BY <2>1, Distance
<1>3. reg' = [reg EXCEPT ![u] = new]
  <2> DEFINE request == r.iqa = "spy" /\ (r.tail - r.head) % QSize = 2
             add == Program(pc.op)[pc.at][2]
  <2>1. reg' = [reg EXCEPT ![u].head = (@ + 1) % QSize,
                           ![u].fresh = IF request THEN @ \cup {add} ELSE @]
    BY DEF Fetch
  <2>2. fresh = IF request THEN r.fresh \cup {add} ELSE r.fresh
    OBVIOUS
  <2> HIDE DEF request, add
  <2>3. reg' = [reg EXCEPT ![u] =
                 [r EXCEPT !.head = h,
                           !.fresh = IF request THEN r.fresh \cup {add} ELSE r.fresh]]
    BY <1>1, <2>1 DEF Registers
  <2> QED BY <2>2, <2>3, Zenon
<1> HIDE DEF h
<1>4. new \in Registers
  BY <1>1, <1>2 DEF Registers
<1>5. reg' \in [UnitIds -> Registers] /\ reg'[u] = new
      /\ \A v \in UnitIds \ {u} : reg'[v] = reg[v]
  BY <1>1, <1>3, <1>4
<1>6. /\ log' = IF r.iqa = "linux" /\ ring[u][r.head] # 0
                THEN [log EXCEPT ![u] = Append(log[u], ring[u][r.head])] ELSE log
      /\ linux' = linux /\ ring' = ring /\ sent' = sent /\ emu' = emu
      /\ trap' = trap /\ ir' = ir /\ pc' = pc /\ ready' = ready
      /\ mask' = mask /\ lost' = lost
  BY DEF Fetch, flagVars
<1> QED BY <1>1, <1>5, <1>6 DEF h, Still

LEMMA FetchLinux ==
  ASSUME IInv, NEW u \in UnitIds, Fetch(u), pc.op \in {"linux", "init"},
         LinuxSide(u), ~ Served(u)
  PROVE  IInv'
<1> DEFINE r == reg[u]
           h == (r.head + 1) % QSize
<1>1. r.qie /\ r.head = Position(u) /\ r.tail = LinuxTail(u) /\ r.iqa # "spy"
  BY DEF LinuxSide, InPlace, Served, Fetch
<1>2. linux[u] = "on" /\ ring[u][r.head] # 0 /\ r.iqa = "linux"
  <2>1. ring[u][Position(u)] = Len(log[u]) + 1 /\ linux[u] = "on"
    BY NextItem
  <2>2. Len(log[u]) + 1 # 0
    BY Numbers
  <2> QED BY <1>1, <2>1, <2>2 DEF LinuxSide
<1>3. r.fresh \in SUBSET Caches
  BY DEF IInv, TypeOK
<1>4. /\ r \in Registers /\ reg' \in [UnitIds -> Registers]
      /\ reg'[u] = [r EXCEPT !.head = h, !.fresh = r.fresh]
      /\ \A v \in UnitIds \ {u} : reg'[v] = reg[v]
      /\ log' = [log EXCEPT ![u] = Append(log[u], ring[u][Position(u)])]
      /\ linux' = linux /\ ring' = ring /\ sent' = sent /\ emu' = emu
      /\ trap' = trap /\ ir' = ir /\ pc' = pc /\ ready' = ready /\ Still
      /\ mask' = mask /\ lost' = lost
  BY <1>1, <1>2, <1>3, Fetches
<1> HIDE DEF h
<1>5. /\ reg'[u].te = r.te /\ reg'[u].ire = r.ire /\ reg'[u].qie = r.qie
      /\ reg'[u].irta = r.irta /\ reg'[u].irt = r.irt /\ reg'[u].iqa = r.iqa
      /\ reg'[u].head = h /\ reg'[u].tail = r.tail
      /\ reg'[u].fresh = r.fresh /\ reg'[u].im = r.im /\ reg'[u].fe = r.fe
  BY <1>4 DEF Registers
<1>6. /\ Pending(u)' /\ Position(u)' = (Position(u) + 1) % QSize
      /\ LinuxTail(u)' = LinuxTail(u)
      /\ log' \in [UnitIds -> Seq(0 .. MaxRequests)]
      /\ \A v \in UnitIds \ {u} : log'[v] = log[v]
  BY <1>4, NextServed
<1>7. TypeOK' /\ (log \in [UnitIds -> Seq(0 .. MaxRequests)])'
  BY <1>4, <1>6 DEF IInv, TypeOK, Registers
<1>8. \A v \in UnitIds \ {u} : SameUnit(v)
  BY <1>4, <1>6 DEF SameUnit
<1>9. LateIR' <=> LateIR
  BY <1>4, SameLateIR
<1>10. LinuxSide(u)'
  <2>1. Position(u)' = h
    BY <1>1, <1>6 DEF h
  <2> QED BY <1>1, <1>4, <1>5, <1>6, <1>9, <2>1 DEF LinuxSide, InPlace
<1>11. Unit(u)'
  <2>1. Unit(u)
    BY DEF IInv
  <2>2. pc.op = "init" => ~ (u < pc.unit) /\ (u >= pc.unit => emu[u] = NoEmulation)
    BY <2>1 DEF Unit
  <2>3. NoEmulation' = NoEmulation
    BY DEF NoEmulation
  <2> QED BY <1>4, <1>10, <2>2, <2>3 DEF Unit, Routines
<1>12. Event(u)'
  <2>1. Whole(reg[u]) /\ Returned(u)
    BY AllWhole
  <2>2. Whole(reg'[u]) /\ Returned(u)'
    BY <1>4, <1>5, <2>1 DEF Whole, Returned
  <2> QED BY <1>4, <2>2 DEF Event, Routines
<1>13. Trapped(u)'
  <2>1. trap[u] = "none"
    BY AllWhole
  <2> QED BY <1>4, <2>1 DEF Trapped
<1> QED BY <1>4, <1>6, <1>7, <1>8, <1>11, <1>12, <1>13, OneUnit

\* A fetch of the unit that the routine is at, which polls for it.
LEMMA FetchPolled ==
  ASSUME IInv, NEW u \in UnitIds, pc.op \in Routines, u = pc.unit,
         reg' \in [UnitIds -> Registers],
         \A v \in UnitIds \ {u} : reg'[v] = reg[v],
         reg'[u].im = reg[u].im, reg'[u].fe = reg[u].fe,
         linux' = linux, ring' = ring, sent' = sent, log' = log, emu' = emu,
         trap' = trap, ir' = ir, pc' = pc, ready' = ready,
         mask' = mask, lost' = lost,
         Place(pc.op, u, pc.at, pc.polling)'
  PROVE  IInv'
<1>1. Unit(u) /\ Event(u) /\ Pending(u) /\ Trapped(u)
  BY DEF IInv
<1>2. Recorded(u) /\ Served(u) /\ Message(pc.op, reg[u], pc.at)
  BY <1>1 DEF Unit, Event
<1>3. Pending(u)' /\ Served(u)' /\ Recorded(u)'
  <2>1. LateIR' <=> LateIR
    BY SameLateIR
  <2>2. Position(u)' = Position(u)
    BY DEF Position
  <2>3. Recorded(u)'
    BY <1>2, <2>1, <2>2 DEF Recorded
  <2> QED BY <1>1, <1>2, <2>3 DEF Pending, InOrder, Served
<1>4. TypeOK' /\ (log \in [UnitIds -> Seq(0 .. MaxRequests)])'
  BY DEF IInv, TypeOK, Registers
<1>5. \A v \in UnitIds \ {u} : SameUnit(v)
  BY DEF SameUnit
<1>6. Unit(u)'
  <2>1. ~ (u < u) /\ ~ (u > u)
    BY Numbers
  <2>2. pc.op # "linux" /\ pc.op # "init" /\ pc.op # "run"
    BY DEF Routines
  <2> QED BY <1>3, <2>1, <2>2 DEF Unit
<1>7. Event(u)'
  <2>1. Message(pc.op, reg'[u], pc.at)
    BY <1>2 DEF Message, Whole
  <2>2. ~ (u < u) /\ pc.op # "linux" /\ pc.op # "init"
    BY Numbers DEF Routines
  <2> QED BY <2>1, <2>2 DEF Event
<1>8. Trapped(u)'
  <2>1. pc.op # "run"
    BY DEF Routines
  <2> QED BY <1>1, <2>1 DEF Trapped
<1>9. Still
  BY DEF Still
<1> QED BY <1>3, <1>4, <1>5, <1>6, <1>7, <1>8, <1>9, OneUnit

\* The unit fetches the request or the wait descriptor of a submission.
LEMMA FetchAnswer ==
  ASSUME IInv, NEW u \in UnitIds, Fetch(u), NEW cache \in Caches,
         Program(pc.op)[pc.at][2] = cache, Answering(u, cache), reg[u].iqa = "spy"
  PROVE  /\ Answering(u, cache)'
         /\ reg' \in [UnitIds -> Registers]
         /\ \A v \in UnitIds \ {u} : reg'[v] = reg[v]
         /\ reg'[u].te = reg[u].te /\ reg'[u].ire = reg[u].ire
         /\ reg'[u].qie = reg[u].qie /\ reg'[u].root = reg[u].root
         /\ reg'[u].irta = reg[u].irta /\ reg'[u].irt = reg[u].irt
         /\ reg'[u].iqa = reg[u].iqa /\ reg'[u].tail = reg[u].tail
         /\ reg[u].fresh \subseteq reg'[u].fresh
         /\ reg'[u].im = reg[u].im /\ reg'[u].fe = reg[u].fe
         /\ linux' = linux /\ ring' = ring /\ sent' = sent /\ log' = log
         /\ emu' = emu /\ trap' = trap /\ ir' = ir /\ pc' = pc /\ ready' = ready
         /\ mask' = mask /\ lost' = lost
<1> DEFINE r == reg[u]
           h == (r.head + 1) % QSize
           d == (r.tail - r.head) % QSize
           fresh == IF d = 2 THEN r.fresh \cup {cache} ELSE r.fresh
<1>1. r \in Registers /\ r.head \in Index /\ r.tail \in Index /\ r.head # r.tail
      /\ r.fresh \in SUBSET Caches
  BY DEF IInv, TypeOK, Registers, Fetch
<1>2. d \in 0 .. 2 /\ (d < 2 => cache \in r.fresh)
  BY DEF Answering
<1>3. d \in Nat /\ d # 0 /\ ((r.tail - h) % QSize) = d - 1
  BY <1>1, Distance
<1> HIDE DEF h, d
<1>4. fresh \in SUBSET Caches
  BY <1>1
<1>5. fresh = IF r.iqa = "spy" /\ (r.tail - r.head) % QSize = 2
              THEN r.fresh \cup {Program(pc.op)[pc.at][2]} ELSE r.fresh
  BY DEF d
<1>6. cache \in fresh /\ r.fresh \subseteq fresh
  BY <1>2, <1>3
<1> HIDE DEF fresh
<1>7. /\ reg' \in [UnitIds -> Registers]
      /\ reg'[u] = [r EXCEPT !.head = h, !.fresh = fresh]
      /\ \A v \in UnitIds \ {u} : reg'[v] = reg[v]
      /\ log' = IF r.iqa = "linux" /\ ring[u][r.head] # 0
                THEN [log EXCEPT ![u] = Append(log[u], ring[u][r.head])] ELSE log
      /\ linux' = linux /\ ring' = ring /\ sent' = sent /\ emu' = emu
      /\ trap' = trap /\ ir' = ir /\ pc' = pc /\ ready' = ready
      /\ mask' = mask /\ lost' = lost
  BY <1>4, <1>5, Fetches, Zenon DEF h
<1>8. /\ reg'[u].te = r.te /\ reg'[u].ire = r.ire
      /\ reg'[u].qie = r.qie /\ reg'[u].root = r.root
      /\ reg'[u].irta = r.irta /\ reg'[u].irt = r.irt
      /\ reg'[u].iqa = r.iqa /\ reg'[u].tail = r.tail /\ reg'[u].head = h
      /\ reg'[u].fresh = fresh
      /\ reg'[u].im = r.im /\ reg'[u].fe = r.fe
  BY <1>1, <1>7 DEF Registers
<1>9. log' = log
  BY <1>7
<1>10. Answering(u, cache)'
  <2>1. (reg'[u].tail - reg'[u].head) % QSize = d - 1
    BY <1>3, <1>8
  <2>2. d - 1 \in 0 .. 2
    BY <1>2, <1>3
  <2>3. cache \in reg'[u].fresh
    BY <1>6, <1>8
  <2> QED BY <2>1, <2>2, <2>3 DEF Answering
<1> QED BY <1>6, <1>7, <1>8, <1>9, <1>10

LEMMA FetchCommit ==
  ASSUME IInv, NEW u \in UnitIds, Fetch(u), pc.op = "commit", u = pc.unit,
         pc.polling, pc.at \in 7 .. 9, Committing(u, pc.at, pc.polling)
  PROVE  IInv'
<1>1. PICK k \in 7 .. 9 : pc.at = k
  OBVIOUS
<1>2. PICK p \in BOOLEAN : pc.polling = p
  BY DEF IInv, PcOK
<1> DEFINE cache == Commit[k][2]
<1>3. Committing(u, k, p) /\ p
  BY <1>1, <1>2
<1>4. Program(pc.op) = Commit
  BY Programs
<1>5. cache \in Caches
  <2>1. k = 7 \/ k = 8 \/ k = 9
    OBVIOUS
  <2> QED BY <2>1, CommitText DEF Caches
<1>6. Answering(u, cache) /\ reg[u].iqa = "spy"
  BY <1>3 DEF Committing
<1>7. Program(pc.op)[pc.at][2] = cache
  BY <1>1, <1>4
<1> HIDE DEF cache
<1>8. /\ Answering(u, cache)'
      /\ reg' \in [UnitIds -> Registers]
      /\ \A v \in UnitIds \ {u} : reg'[v] = reg[v]
      /\ reg'[u].te = reg[u].te /\ reg'[u].ire = reg[u].ire
      /\ reg'[u].qie = reg[u].qie /\ reg'[u].root = reg[u].root
      /\ reg'[u].irta = reg[u].irta /\ reg'[u].irt = reg[u].irt
      /\ reg'[u].iqa = reg[u].iqa /\ reg'[u].tail = reg[u].tail
      /\ reg[u].fresh \subseteq reg'[u].fresh
      /\ reg'[u].im = reg[u].im /\ reg'[u].fe = reg[u].fe
      /\ linux' = linux /\ ring' = ring /\ sent' = sent /\ log' = log
      /\ emu' = emu /\ trap' = trap /\ ir' = ir /\ pc' = pc /\ ready' = ready
      /\ mask' = mask /\ lost' = lost
  BY <1>5, <1>6, <1>7, FetchAnswer
<1>9. Committing(u, k, p)'
  BY <1>3, <1>8 DEF Committing, cache
<1>10. Place(pc.op, u, pc.at, pc.polling)'
  BY <1>1, <1>2, <1>8, <1>9 DEF Place
<1>11. pc.op \in Routines
  BY DEF Routines
<1> QED BY <1>8, <1>10, <1>11, FetchPolled

LEMMA FetchRestore ==
  ASSUME IInv, NEW u \in UnitIds, Fetch(u), pc.op = "shutdown", u = pc.unit,
         pc.polling, pc.at = 4, Stopping(u, pc.at, pc.polling)
  PROVE  IInv'
<1>1. PICK p \in BOOLEAN : pc.polling = p
  BY DEF IInv, PcOK
<1>2. Stopping(u, 4, p) /\ p
  BY <1>1
<1>3. Program(pc.op) = Shutdown /\ pc.op \in Routines
  BY Programs DEF Routines
<1>4. ir
  <2> DEFINE n == Len(Shutdown)
  <2>1. 4 \in 1 .. n
    BY <1>3 DEF IInv, PcOK
  <2>2. ~ ir => n = 3
    BY ShutdownText
  <2> HIDE DEF n
  <2> QED BY <2>1, <2>2
<1>5. Shutdown[4] = <<"inv", "int">>
  BY <1>4, ShutdownText
<1>6. Program(pc.op)[pc.at][2] = "int" /\ "int" \in Caches
  BY <1>3, <1>5 DEF Caches
<1>7. Answering(u, "int") /\ reg[u].iqa = "spy"
  BY <1>2 DEF Stopping
<1>8. /\ Answering(u, "int")'
      /\ reg' \in [UnitIds -> Registers]
      /\ \A v \in UnitIds \ {u} : reg'[v] = reg[v]
      /\ reg'[u].te = reg[u].te /\ reg'[u].ire = reg[u].ire
      /\ reg'[u].qie = reg[u].qie /\ reg'[u].root = reg[u].root
      /\ reg'[u].irta = reg[u].irta /\ reg'[u].irt = reg[u].irt
      /\ reg'[u].iqa = reg[u].iqa /\ reg'[u].tail = reg[u].tail
      /\ reg[u].fresh \subseteq reg'[u].fresh
      /\ reg'[u].im = reg[u].im /\ reg'[u].fe = reg[u].fe
      /\ linux' = linux /\ ring' = ring /\ sent' = sent /\ log' = log
      /\ emu' = emu /\ trap' = trap /\ ir' = ir /\ pc' = pc /\ ready' = ready
      /\ mask' = mask /\ lost' = lost
  BY <1>6, <1>7, FetchAnswer
<1>9. Stopping(u, 4, p)'
  BY <1>2, <1>8 DEF Stopping
<1>10. Place(pc.op, u, pc.at, pc.polling)'
  BY <1>1, <1>8, <1>9 DEF Place
<1> QED BY <1>3, <1>8, <1>10, FetchPolled

\* The unit fetches the lone wait descriptor of vtd_restore_ir.
LEMMA FetchSync ==
  ASSUME IInv, NEW u \in UnitIds, Fetch(u), pc.op = "shutdown", u = pc.unit,
         pc.polling, pc.at = 8, Stopping(u, pc.at, pc.polling)
  PROVE  IInv'
<1> DEFINE r == reg[u]
           h == (r.head + 1) % QSize
<1>1. PICK p \in BOOLEAN : pc.polling = p
  BY DEF IInv, PcOK
<1>2. Stopping(u, 8, p) /\ p
  BY <1>1
<1>3. r.head # r.tail
  BY DEF Fetch
<1>4. r.tail = h /\ ring[u][r.head] = 0 /\ r.iqa = emu[u].iqa
  BY <1>2, <1>3 DEF Stopping
<1>5. pc.op \in Routines
  BY DEF Routines
<1>6. r.iqa # "spy"
  <2>1. Unit(u)
    BY DEF IInv
  <2> QED BY <1>4, <1>5, <2>1 DEF Unit, Recorded
<1>7. r.fresh \in SUBSET Caches
  BY DEF IInv, TypeOK
<1>8. /\ r \in Registers /\ reg' \in [UnitIds -> Registers]
      /\ reg'[u] = [r EXCEPT !.head = h, !.fresh = r.fresh]
      /\ \A v \in UnitIds \ {u} : reg'[v] = reg[v]
      /\ log' = log
      /\ linux' = linux /\ ring' = ring /\ sent' = sent /\ emu' = emu
      /\ trap' = trap /\ ir' = ir /\ pc' = pc /\ ready' = ready
      /\ mask' = mask /\ lost' = lost
  BY <1>4, <1>6, <1>7, Fetches
<1> HIDE DEF h
<1>9. /\ reg'[u].te = r.te /\ reg'[u].ire = r.ire /\ reg'[u].qie = r.qie
      /\ reg'[u].irta = r.irta /\ reg'[u].irt = r.irt /\ reg'[u].iqa = r.iqa
      /\ reg'[u].head = h /\ reg'[u].tail = r.tail
      /\ reg'[u].fresh = r.fresh /\ reg'[u].fe = r.fe /\ reg'[u].im = r.im
  BY <1>8 DEF Registers
<1>10. Stopping(u, 8, p)'
  BY <1>2, <1>4, <1>8, <1>9 DEF Stopping
<1>11. Place(pc.op, u, pc.at, pc.polling)'
  BY <1>1, <1>8, <1>10 DEF Place
<1> QED BY <1>5, <1>8, <1>9, <1>11, FetchPolled

\* A unit whose head was lost fetches on in Linux's queue.
LEMMA FetchLost ==
  ASSUME IInv, NEW u \in UnitIds, Fetch(u), u \in lost, reg[u].iqa # "spy",
         ~ (pc.op = "shutdown" /\ u = pc.unit /\ pc.at = 8)
  PROVE  IInv'
<1> DEFINE r == reg[u]
           h == (r.head + 1) % QSize
           item == ring[u][r.head]
           more == Append(log[u], item)
<1>1. r.fresh \in SUBSET Caches /\ r.head \in Index /\ r.qie /\ r.head # r.tail
  BY DEF IInv, TypeOK, Fetch
<1>2. /\ r \in Registers /\ reg' \in [UnitIds -> Registers]
      /\ reg'[u] = [r EXCEPT !.head = h, !.fresh = r.fresh]
      /\ \A v \in UnitIds \ {u} : reg'[v] = reg[v]
      /\ log' = IF r.iqa = "linux" /\ item # 0
                THEN [log EXCEPT ![u] = more] ELSE log
      /\ linux' = linux /\ ring' = ring /\ sent' = sent /\ emu' = emu
      /\ trap' = trap /\ ir' = ir /\ pc' = pc /\ ready' = ready /\ Still
      /\ mask' = mask /\ lost' = lost
  BY <1>1, Fetches
<1>3. item \in 0 .. MaxRequests
  BY <1>1 DEF IInv, TypeOK
<1> HIDE DEF item, h
<1>4. more \in Seq(0 .. MaxRequests)
  BY <1>3, Numbers, AppendProperties
<1> HIDE DEF more
<1>5. /\ log' \in [UnitIds -> Seq(0 .. MaxRequests)]
      /\ \A v \in UnitIds \ {u} : log'[v] = log[v]
  BY <1>2, <1>4 DEF IInv
<1>6. /\ reg'[u].te = r.te /\ reg'[u].ire = r.ire /\ reg'[u].qie = r.qie
      /\ reg'[u].root = r.root
      /\ reg'[u].irta = r.irta /\ reg'[u].irt = r.irt /\ reg'[u].iqa = r.iqa
      /\ reg'[u].tail = r.tail
      /\ reg'[u].fresh = r.fresh /\ reg'[u].im = r.im /\ reg'[u].fe = r.fe
  BY <1>2 DEF Registers
<1>7. TypeOK' /\ (log \in [UnitIds -> Seq(0 .. MaxRequests)])'
  BY <1>2, <1>5 DEF IInv, TypeOK, Registers
<1>8. \A v \in UnitIds \ {u} : SameUnit(v)
  BY <1>2, <1>5 DEF SameUnit
<1>9. LateIR' <=> LateIR
  BY <1>2, SameLateIR
<1>10. Unit(u) /\ Event(u) /\ Trapped(u) /\ Pending(u)
  BY DEF IInv
<1>11. Pending(u)' /\ Served(u)' /\ InPlace(u)'
  BY <1>2, <1>10 DEF Pending, Served, InPlace
<1>12. /\ LinuxSide(u) => LinuxSide(u)'
       /\ Recorded(u) => Recorded(u)'
       /\ ~ SpySide(u)
  BY <1>1, <1>2, <1>6, <1>9, <1>11 DEF LinuxSide, Recorded, SpySide
<1>13. PICK k \in Nat : pc.at = k
  BY DEF IInv, PcOK
<1>14. PICK p \in BOOLEAN : pc.polling = p
  BY DEF IInv, PcOK
<1>15. ASSUME pc.op \in Routines, u = pc.unit
       PROVE  Place(pc.op, u, k, p)'
  <2>1. Place(pc.op, u, k, p)
    BY <1>10, <1>13, <1>14, <1>15 DEF Unit
  <2>2. k >= 1
    BY <1>13, <1>15, Programs DEF IInv, PcOK
  <2>3. CASE pc.op = "faults"
    BY <1>2, <1>12, <2>1, <2>3 DEF Place
  <2>4. CASE pc.op = "commit"
    <3>1. Committing(u, k, p)
      BY <2>1, <2>4 DEF Place
    <3>2. k = 1 /\ ~ p
      <4>1. k \notin 2 .. 6 /\ ~ (k >= 6) /\ (p => k \in 7 .. 9)
        BY <1>1, <3>1 DEF Committing
      <4> QED BY <2>2, <4>1
    <3>3. Committing(u, k, p)'
      BY <1>6, <1>12, <3>1, <3>2 DEF Committing
    <3> QED BY <1>2, <2>4, <3>3 DEF Place
  <2>5. CASE pc.op = "shutdown"
    <3>1. Stopping(u, k, p)
      BY <2>1, <2>5 DEF Place
    <3>2. k >= 9 /\ ~ p
      <4>1. ~ (k <= 5) /\ k \notin 6 .. 7 /\ k # 8 /\ (p => k \in {4, 8})
        BY <1>13, <1>15, <2>5, <3>1, <1>1 DEF Stopping
      <4> QED BY <4>1
    <3>3. Stopping(u, k, p)'
      BY <1>2, <1>6, <1>11, <3>1, <3>2 DEF Stopping
    <3> QED BY <1>2, <2>5, <3>3 DEF Place
  <2> QED BY <1>15, <2>3, <2>4, <2>5 DEF Routines
<1>16. Unit(u)'
  <2>1. NoEmulation' = NoEmulation
    BY DEF NoEmulation
  <2>2. pc.op \in Routines /\ u = pc.unit => Place(pc.op, u, pc.at, pc.polling)'
    BY <1>2, <1>13, <1>14, <1>15 DEF Place
  <2>3. /\ Ahead(pc.op, u) => Ahead(pc.op, u)'
        /\ Behind(pc.op, u) => Behind(pc.op, u)'
    BY <1>2, <1>12 DEF Ahead, Behind
  <2> QED BY <1>2, <1>10, <1>11, <1>12, <2>1, <2>2, <2>3 DEF Unit
<1>17. Event(u)'
  BY <1>2, <1>6, <1>10 DEF Event, Message, Whole, Returned
<1>18. Trapped(u)'
  BY <1>2, <1>10, <1>11 DEF Trapped
<1> QED BY <1>2, <1>7, <1>8, <1>11, <1>16, <1>17, <1>18, OneUnit

LEMMA FetchStep ==
  ASSUME IInv, NEW u \in UnitIds, Fetch(u)
  PROVE  IInv'
<1>1. reg[u].qie /\ reg[u].head # reg[u].tail
  BY DEF Fetch
<1>2. \/ /\ u \in lost /\ reg[u].iqa # "spy"
         /\ ~ (pc.op = "shutdown" /\ u = pc.unit /\ pc.at = 8)
      \/ pc.op \in {"linux", "init"} /\ LinuxSide(u) /\ ~ Served(u)
      \/ /\ pc.op = "commit" /\ u = pc.unit /\ pc.polling
         /\ pc.at \in 7 .. 9 /\ Committing(u, pc.at, pc.polling)
      \/ /\ pc.op = "shutdown" /\ u = pc.unit /\ pc.polling
         /\ pc.at \in {4, 8} /\ Stopping(u, pc.at, pc.polling)
  BY <1>1, FetchWhere
<1> QED BY <1>2, FetchLost, FetchLinux, FetchCommit, FetchRestore, FetchSync

-----------------------------------------------------------------------------
(***************************************************************************)
(* The theorems.                                                           *)
(***************************************************************************)
\* Every step of Linux, of the units, of vtd_init and iommu_config_commit and
\* of the shutdown keeps the invariant.
LEMMA Inductive ==
  ASSUME IInv, [Next]_vars
  PROVE  IInv'
<1>1. CASE UNCHANGED vars
  <2>1. /\ linux' = linux /\ reg' = reg /\ ring' = ring /\ sent' = sent
        /\ log' = log /\ emu' = emu /\ ir' = ir /\ ready' = ready
        /\ trap' = trap /\ pc' = pc /\ mask' = mask /\ lost' = lost
    BY <1>1 DEF vars, linuxVars, flagVars
  <2>2. TypeOK' /\ (log \in [UnitIds -> Seq(0 .. MaxRequests)])'
    BY <2>1 DEF IInv, TypeOK
  <2>3. PICK u \in UnitIds : TRUE
    BY DEF IInv, TypeOK
  <2>4. \A v \in UnitIds : SameUnit(v)
    BY <2>1 DEF SameUnit
  <2>5. (Pending(u) /\ Unit(u) /\ Event(u) /\ Trapped(u))'
    BY <2>1, <2>4, UndisturbedUnit DEF IInv
  <2> QED BY <2>1, <2>2, <2>4, <2>5, OneUnit DEF Still
<1>2. CASE Next
  BY <1>2, EnableStep, InitUnitStep, InitFailsStep, RoutineStep, DisableStep,
     SubmitStep, MaskStep, HandleTailStep, HandlePanicStep, FetchStep DEF Next
<1> QED BY <1>1, <1>2

LEMMA Invariance == Spec => []IInv
<1>1. Init => IInv
  BY InitOK
<1>2. IInv /\ [Next]_vars => IInv'
  BY Inductive
<1> QED BY <1>1, <1>2, PTL DEF Spec

\* Every register, index, descriptor number and owner stays in its range: the
\* heads and tails that vtd_init, the emulation and vtd_restore_ir copy between
\* a unit and root_target_units never run off the page of the queue.
THEOREM UnitTypeOK == Spec => []TypeOK
<1>1. IInv => TypeOK
  BY DEF IInv
<1> QED BY <1>1, Invariance, PTL

\* Each descriptor of Linux is carried out once and in the order of the queue,
\* by the unit, by vtd_unit_access_handler, and by the unit again after
\* vtd_restore_ir, wherever in the ring the hypervisor was switched on or off,
\* until vtd_restore_ir has had to warn that it could not map the unit's queue.
THEOREM DescriptorsServedOnce == Spec => []ServedOnce
<1>1. IInv => ServedOnce
  BY DEF IInv, Pending, InOrder, ServedOnce
<1> QED BY <1>1, Invariance, PTL

\* vtd_init_unit and vtd_restore_ir switch translation and interrupt remapping
\* on only after the unit has dropped what it cached of the tables before, and
\* no unit is left behind when the hypervisor starts to run Linux.
THEOREM TablesAlwaysInForce == Spec => []TablesInForce
<1>1. IInv => TablesInForce
  <2> SUFFICES ASSUME IInv, NEW u \in UnitIds
               PROVE  LET r == reg[u] IN
                      /\ r.te /\ linux[u] # "other" =>
                           r.root = "spy" /\ {"context", "iotlb"} \subseteq r.fresh
                      /\ r.ire => "int" \in r.fresh
                      /\ pc.op = "run" => /\ r.te /\ r.ire /\ r.qie
                                          /\ r.irt = "spy" /\ r.iqa = "spy"
    BY DEF TablesInForce
  <2> DEFINE r == reg[u]
             safe == /\ r.te /\ linux[u] # "other" =>
                          r.root = "spy" /\ {"context", "iotlb"} \subseteq r.fresh
                     /\ r.ire => "int" \in r.fresh
  <2>1. Unit(u)
    BY DEF IInv
  <2>2. LinuxSide(u) => safe
    BY DEF LinuxSide
  <2>3. SpySide(u) => safe
    BY DEF SpySide, Caches
  <2>4. pc.op = "run" => r.te /\ r.ire /\ r.qie /\ r.irt = "spy" /\ r.iqa = "spy"
    BY <2>1 DEF Unit, SpySide
  <2>5. PICK k \in Nat : pc.at = k
    BY DEF IInv, PcOK
  <2>6. PICK p \in BOOLEAN : pc.polling = p
    BY DEF IInv, PcOK
  <2>7. Committing(u, k, p) => safe
    BY DEF Committing
  <2>8. k >= 1 /\ Stopping(u, k, p) => safe
    <3> SUFFICES ASSUME k >= 1, Stopping(u, k, p)
                 PROVE  safe
      OBVIOUS
    <3>1. CASE k = 1
      BY <2>3, <3>1 DEF Stopping
    <3>2. CASE k >= 2
      BY <3>2 DEF Stopping
    <3> QED BY <3>1, <3>2
  <2>9. CASE pc.op \in Routines
    <3>1. k >= 1
      BY <2>5, <2>9, Programs DEF IInv, PcOK
    <3>2. u > pc.unit \/ u = pc.unit \/ u < pc.unit
      BY Numbers DEF IInv, PcOK
    <3>3. CASE u = pc.unit
      <4>1. Place(pc.op, u, k, p)
        BY <2>1, <2>5, <2>6, <2>9, <3>3 DEF Unit
      <4>2. safe
        BY <2>2, <2>7, <2>8, <2>9, <3>1, <4>1 DEF Place, Routines
      <4> QED BY <2>4, <4>2
    <3>4. CASE u # pc.unit
      <4>1. Ahead(pc.op, u) \/ Behind(pc.op, u)
        BY <2>1, <2>9, <3>2, <3>4 DEF Unit
      <4>2. safe
        BY <2>2, <2>3, <4>1 DEF Ahead, Behind
      <4> QED BY <2>4, <4>2
    <3> QED BY <3>3, <3>4
  <2>10. CASE pc.op \notin Routines
    <3>1. LinuxSide(u) \/ SpySide(u)
      BY <2>1, <2>10 DEF Unit, IInv, PcOK
    <3>2. safe
      BY <2>2, <2>3, <3>1
    <3> QED BY <2>4, <3>2
  <2> QED BY <2>9, <2>10
<1> QED BY <1>1, Invariance, PTL

\* vtd_init_fault_nmi and vtd_restore_ir replace the message of a fault event
\* only while the event is masked: a unit never sends an address of one owner
\* with the data of the other.
THEOREM FaultEventsAlwaysWhole == Spec => []FaultEventsWhole
<1>1. IInv => FaultEventsWhole
  <2> SUFFICES ASSUME IInv, NEW u \in UnitIds, ~ reg[u].im
               PROVE  Whole(reg[u])
    BY DEF FaultEventsWhole, Whole
  <2>1. Event(u)
    BY DEF IInv
  <2> QED BY <2>1 DEF Event, Message
<1> QED BY <1>1, Invariance, PTL

\* A shutdown, or a failure to start, leaves each unit as Linux believes it to
\* be: enabled or not, with Linux's table and queue, with the message and the
\* mask of Linux's fault event, and, unless vtd_restore_ir has warned that it
\* could not map the queue, with its head behind the last descriptor carried out
\* and its tail where Linux writes next.  The hypothesis excludes the units that
\* vtd_init accepts although their configurations differ, a unit without
\* interrupt remapping before one with it.
THEOREM UnitsHandedBack == Spec => [](~ LateIR => HandedBack)
<1>1. IInv => (~ LateIR => HandedBack)
  <2> SUFFICES ASSUME IInv, ~ LateIR, pc.op = "linux", NEW u \in UnitIds
               PROVE  LET r == reg[u] IN
                      /\ r.te = (linux[u] = "other")
                      /\ linux[u] # "other" =>
                           (r.ire = (linux[u] = "on") /\ r.qie = r.ire)
                      /\ linux[u] = "on" =>
                           /\ r.irt = "linux" /\ r.iqa = "linux"
                           /\ r.im = mask[u]
                           /\ \A n \in 1 .. 3 : r.fe[n] = "linux"
                           /\ u \notin lost => /\ r.head = Len(log[u]) % QSize
                                               /\ r.tail = LinuxTail(u)
    BY DEF HandedBack
  <2> DEFINE r == reg[u]
  <2>1. LinuxSide(u) /\ Returned(u) /\ linux[u] \in {"off", "on", "other"}
    BY AllWhole, Numbers
  <2>2. r.te \in BOOLEAN /\ r.ire \in BOOLEAN /\ r.qie \in BOOLEAN
    BY DEF IInv, TypeOK
  <2>3. /\ r.te <=> linux[u] = "other"
        /\ linux[u] # "other" => (r.ire <=> linux[u] = "on") /\ (r.qie <=> r.ire)
        /\ linux[u] = "on" =>
             /\ r.irt = "linux" /\ r.iqa = "linux"
             /\ u \notin lost => /\ r.head = Len(log[u]) % QSize
                                 /\ r.tail = LinuxTail(u)
    BY <2>1 DEF LinuxSide, InPlace, Position
  <2>4. linux[u] = "on" => r.im = mask[u] /\ \A n \in 1 .. 3 : r.fe[n] = "linux"
    BY <2>1 DEF Returned
  <2> HIDE DEF r
  <2>5. /\ r.te = (linux[u] = "other")
        /\ linux[u] # "other" => (r.ire = (linux[u] = "on") /\ r.qie = r.ire)
    BY <2>2, <2>3
  <2> QED BY <2>3, <2>4, <2>5, Zenon DEF r
<1> QED BY <1>1, Invariance, PTL

\* The configurations of LateIR are the only ones with which vtd_init goes on
\* to vtd_init_fault_nmi and iommu_config_commit although interrupt remapping
\* is on in some units and off in others.
THEOREM UniformUnlessLate == Spec => [](~ LateIR => UniformIR)
<1>1. IInv => (~ LateIR => UniformIR)
  <2> SUFFICES ASSUME IInv, ~ LateIR, pc.op \in {"faults", "commit", "run"},
                      NEW u \in UnitIds, NEW v \in UnitIds
               PROVE  linux[u] = linux[v]
    BY DEF UniformIR
  <2>1. Recorded(u) /\ Recorded(v)
    <3>1. Unit(u) /\ Unit(v)
      BY DEF IInv
    <3> QED BY <3>1 DEF Unit, Routines
  <2>2. linux[u] \in {"off", "on", "other"} /\ linux[v] \in {"off", "on", "other"}
    BY Numbers
  <2> QED BY <2>1, <2>2 DEF Recorded
<1> QED BY <1>1, Invariance, PTL

=============================================================================
