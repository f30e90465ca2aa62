-------------------------- MODULE InvQueue_proofs ---------------------------
(***************************************************************************)
(* The ticket lock for every number of CPUs and every width of the tickets *)
(* that LockAssumption allows, and the invalidation queues that it guards: *)
(* when vtd_submit_iq_request returns, the unit has done what it was asked *)
(* for, for every number of CPUs and units and every length of the rings.  *)
(* The lock is the real one: that only one CPU is inside the queues' code is *)
(* taken from the invariant proved of the lock.                            *)
(***************************************************************************)
EXTENDS InvQueue, FiniteSetTheorems, SequenceTheorems, TLAPS

-----------------------------------------------------------------------------
(***************************************************************************)
(* The lock.                                                               *)
(***************************************************************************)
\* Modular distances behave as a queue position: zero for the ticket that
\* owner shows, one less after owner advances, one more for the next ticket.
LEMMA AheadArithmetic ==
  ASSUME NEW s \in Word, NEW t \in Word, NEW o \in Word
  PROVE  /\ Inc(t) \in Word
         /\ Ahead(t, o) \in Word
         /\ Ahead(t, o) = 0 <=> t = o
         /\ Ahead(s, o) = Ahead(t, o) => s = t
         /\ t # o => Ahead(t, Inc(o)) = Ahead(t, o) - 1
         /\ Ahead(o, Inc(o)) = Modulus - 1
         /\ Ahead(Inc(t), o) = IF Ahead(t, o) + 1 = Modulus THEN 0
                               ELSE Ahead(t, o) + 1
  BY LockAssumption DEF LockAssumption, Word, Inc, Ahead

\* Only finitely many CPUs queue, and no more than there are tickets.
LEMMA QueuedFinite ==
  /\ IsFiniteSet(Queued)
  /\ Cardinality(Queued) \in 0 .. Modulus
<1>1. Queued \in SUBSET CPUs
  BY DEF Queued
<1>2. /\ IsFiniteSet(Queued)
      /\ Cardinality(Queued) <= Cardinality(CPUs)
  BY <1>1, FS_Subset, LockAssumption DEF LockAssumption
<1>3. Cardinality(Queued) \in Nat /\ Cardinality(CPUs) \in Nat
  BY <1>2, FS_CardinalityType, LockAssumption DEF LockAssumption
<1> QED
  BY <1>2, <1>3, LockAssumption DEF LockAssumption

\* A CPU that is not queued leaves room for one more ticket.
LEMMA QueuedRoom ==
  ASSUME NEW c \in CPUs, lk[c] = "out"
  PROVE  Cardinality(Queued) < Modulus
<1>1. Queued \in SUBSET CPUs /\ Queued # CPUs
  BY DEF Queued
<1>2. Cardinality(Queued) <= Cardinality(CPUs)
      /\ Cardinality(Queued) # Cardinality(CPUs)
  BY <1>1, FS_Subset, LockAssumption DEF LockAssumption
<1>3. Cardinality(Queued) \in Nat /\ Cardinality(CPUs) \in Nat
  BY QueuedFinite, FS_CardinalityType, LockAssumption DEF LockAssumption
<1> QED
  BY <1>2, <1>3, LockAssumption DEF LockAssumption

-----------------------------------------------------------------------------
LEMMA LockTypeStep ==
  ASSUME LockTypeOK, [LockNext]_lockVars
  PROVE  LockTypeOK'
<1> USE DEF LockTypeOK
<1>1. \A w \in Word : Inc(w) \in Word
  BY AheadArithmetic
<1>2. ASSUME NEW c \in CPUs, TakeTicket(c) PROVE LockTypeOK'
  BY <1>1, <1>2 DEF TakeTicket
<1>3. ASSUME NEW c \in CPUs, Spin(c) PROVE LockTypeOK'
  BY <1>3 DEF Spin
<1>4. ASSUME NEW c \in CPUs, AddwLoad(c) PROVE LockTypeOK'
  BY <1>4 DEF AddwLoad
<1>5. ASSUME NEW c \in CPUs, AddwStore(c) PROVE LockTypeOK'
  <2>1. 0 \in Word
    BY LockAssumption DEF LockAssumption, Word
  <2> QED
    BY <1>1, <1>5, <2>1 DEF AddwStore
<1>6. CASE UNCHANGED lockVars
  BY <1>6 DEF lockVars
<1> QED
  BY <1>2, <1>3, <1>4, <1>5, <1>6 DEF LockNext, LockStep

\* The halves of the lock and the registers keep the width of a u16.
THEOREM LockTyping == LockSpec => []LockTypeOK
<1>1. LockInit => LockTypeOK
  BY LockAssumption DEF LockInit, LockTypeOK, LockAssumption, Word
<1> QED
  BY <1>1, LockTypeStep, PTL DEF LockSpec

LockInv == LockTypeOK /\ TicketsInWindow

\* The window of queued tickets is there at the start: it is empty.
LEMMA WindowInit == LockInit => TicketsInWindow
<1> SUFFICES ASSUME LockInit PROVE TicketsInWindow
  OBVIOUS
<1>1. Queued = {}
  BY DEF LockInit, Queued
<1>2. Cardinality(Queued) = 0
  BY <1>1, FS_EmptySet
<1> QED
  BY <1>1, <1>2, LockAssumption
  DEF TicketsInWindow, LockInit, LockAssumption, Ahead

\* Drawing a ticket appends the CPU at the far end of the window.
LEMMA WindowTakeTicket ==
  ASSUME LockInv, NEW c \in CPUs, TakeTicket(c)
  PROVE  TicketsInWindow'
<1> USE DEF LockInv, LockTypeOK
<1> DEFINE n == Cardinality(Queued)
<1>1. n \in Nat /\ n < Modulus
  BY QueuedFinite, QueuedRoom, LockAssumption DEF TakeTicket, LockAssumption
<1>2. Queued' = Queued \cup {c} /\ c \notin Queued
  BY DEF TakeTicket, Queued
<1>3. Cardinality(Queued') = n + 1
  BY <1>2, QueuedFinite, FS_AddElement
<1>4. Ahead(next, owner) = n
  BY <1>1 DEF TicketsInWindow
<1>5. /\ \A d \in Queued : d # c /\ reg'[d] = reg[d]
      /\ reg'[c] = next /\ owner' = owner /\ next' = Inc(next)
  BY <1>2 DEF TakeTicket, Queued
<1>6. n + 1 <= Modulus
  BY <1>1, LockAssumption DEF LockAssumption
<1>7. Ahead(next', owner') = IF n + 1 = Modulus THEN 0 ELSE n + 1
  BY <1>4, <1>5, AheadArithmetic
<1>8. \A d \in Queued' : Ahead(reg'[d], owner') < n + 1
  <2>1. \A d \in Queued : Ahead(reg[d], owner) < n /\ Ahead(reg[d], owner) \in Word
    BY AheadArithmetic DEF TicketsInWindow, Queued
  <2> HIDE DEF n
  <2> QED
    BY <1>1, <1>2, <1>4, <1>5, <2>1 DEF Word
<1>9. \A d, e \in Queued' : reg'[d] = reg'[e] => d = e
  <2>1. \A d \in Queued : reg[d] # next
    BY <1>1, <1>4, AheadArithmetic DEF TicketsInWindow, Queued
  <2> QED
    BY <1>2, <1>5, <2>1 DEF TicketsInWindow
<1>10. \A d \in CPUs : lk'[d] \in {"in", "addw"} => reg'[d] = owner'
  BY DEF TakeTicket, TicketsInWindow
<1> HIDE DEF n
<1> QED
  BY <1>3, <1>6, <1>7, <1>8, <1>9, <1>10 DEF TicketsInWindow

\* Entering the critical section moves nobody in the window.
LEMMA WindowEnter ==
  ASSUME LockInv, NEW c \in CPUs, Spin(c) \/ AddwLoad(c)
  PROVE  TicketsInWindow'
<1> USE DEF LockInv, LockTypeOK
<1>1. Queued' = Queued
  BY DEF Spin, AddwLoad, Queued
<1>2. owner' = owner /\ next' = next /\ reg' = reg
  BY DEF Spin, AddwLoad, TicketsInWindow
<1>3. \A d \in CPUs : lk'[d] \in {"in", "addw"} => reg'[d] = owner'
  BY <1>2 DEF Spin, AddwLoad, TicketsInWindow
<1> QED
  BY <1>1, <1>2, <1>3 DEF TicketsInWindow, Ahead

\* Unlocking takes the near end off the window: everyone else moves up.
LEMMA WindowAddwStore ==
  ASSUME LockInv, NEW c \in CPUs, AddwStore(c)
  PROVE  TicketsInWindow'
<1> USE DEF LockInv, LockTypeOK
<1> DEFINE n == Cardinality(Queued)
<1>1. Queued' = Queued \ {c} /\ c \in Queued
  BY DEF AddwStore, Queued
<1>2. Cardinality(Queued') = n - 1
  BY <1>1, QueuedFinite, FS_RemoveElement
<1>3. n \in 1 .. Modulus
  <2>1. n # 0
    BY <1>1, QueuedFinite, FS_EmptySet
  <2> QED
    BY <2>1, QueuedFinite
<1>4. reg[c] = owner /\ owner' = Inc(owner) /\ next' = next
  BY DEF AddwStore, TicketsInWindow
<1>5. \A d \in Queued' : d \in Queued /\ d # c /\ reg'[d] = reg[d]
  BY <1>1 DEF AddwStore, Queued
<1>6. \A d \in Queued' : reg[d] # owner
  BY <1>1, <1>4, <1>5 DEF TicketsInWindow
<1>7. Ahead(next', owner') = n - 1
  <2>1. CASE n = Modulus
    <3>1. next = owner
      BY <2>1, AheadArithmetic DEF TicketsInWindow
    <3> QED
      BY <1>4, <2>1, <3>1, AheadArithmetic
  <2>2. CASE n # Modulus
    <3>1. Ahead(next, owner) = n
      BY <2>2 DEF TicketsInWindow
    <3>2. next = owner => Ahead(next, owner) = 0
      BY AheadArithmetic
    <3>3. next # owner => Ahead(next, Inc(owner)) = Ahead(next, owner) - 1
      BY AheadArithmetic
    <3> HIDE DEF n
    <3> QED
      BY <1>3, <1>4, <3>1, <3>2, <3>3
  <2> QED
    BY <2>1, <2>2
<1>8. \A d \in Queued' : Ahead(reg'[d], owner') < n - 1
  <2> SUFFICES ASSUME NEW d \in Queued' PROVE Ahead(reg'[d], owner') < n - 1
    OBVIOUS
  <2>1. d \in Queued /\ reg'[d] = reg[d] /\ reg[d] \in Word /\ reg[d] # owner
    BY <1>5, <1>6 DEF Queued
  <2>2. Ahead(reg[d], Inc(owner)) = Ahead(reg[d], owner) - 1
    <3>1. \A t \in Word : t # owner => Ahead(t, Inc(owner)) = Ahead(t, owner) - 1
      BY AheadArithmetic
    <3> QED
      BY <2>1, <3>1
  <2>3. Ahead(reg[d], owner) < n /\ Ahead(reg[d], owner) \in Word
    BY <2>1, AheadArithmetic DEF TicketsInWindow
  <2> HIDE DEF n
  <2> QED
    BY <1>3, <1>4, <2>1, <2>2, <2>3 DEF Word
<1>9. \A d, e \in Queued' : reg'[d] = reg'[e] => d = e
  BY <1>5 DEF TicketsInWindow
<1>10. \A d \in CPUs : lk'[d] \notin {"in", "addw"}
  <2> SUFFICES ASSUME NEW d \in CPUs, lk'[d] \in {"in", "addw"} PROVE FALSE
    OBVIOUS
  <2>1. d \in Queued /\ d # c /\ reg[d] = owner
    BY DEF AddwStore, Queued, TicketsInWindow
  <2> QED
    BY <1>1, <1>4, <2>1 DEF TicketsInWindow
<1>11. n - 1 <= Modulus /\ n - 1 # Modulus
  BY <1>3, LockAssumption DEF LockAssumption
<1> HIDE DEF n
<1> QED
  BY <1>2, <1>7, <1>8, <1>9, <1>10, <1>11 DEF TicketsInWindow

LEMMA LockInvInit == LockInit => LockInv
BY WindowInit, LockAssumption
DEF LockInv, LockInit, LockTypeOK, LockAssumption, Word

LEMMA LockInvStep ==
  ASSUME LockInv, [LockNext]_lockVars
  PROVE  LockInv'
<1>1. LockTypeOK'
  BY LockTypeStep DEF LockInv
<1>2. CASE UNCHANGED lockVars
  BY <1>1, <1>2 DEF lockVars, LockInv, TicketsInWindow, Ahead, Queued
<1> QED
  BY <1>1, <1>2, WindowTakeTicket, WindowEnter, WindowAddwStore
  DEF LockNext, LockStep, LockInv

LEMMA LockInvExcludes == LockInv => MutualExclusion
BY DEF LockInv, TicketsInWindow, MutualExclusion, Queued

\* The inductive invariant, for any number of CPUs and any ticket width.
THEOREM WindowInvariant == LockSpec => []LockInv
BY LockInvInit, LockInvStep, PTL DEF LockSpec

\* At all times the tickets of the queued CPUs are the window from owner to
\* next: no ticket is held twice when next wraps.
THEOREM TicketsStayInWindow == LockSpec => []TicketsInWindow
<1>1. LockInv => TicketsInWindow
  BY DEF LockInv
<1> QED
  BY <1>1, WindowInvariant, PTL

\* spin_lock and spin_unlock of asm/spinlock.h let one CPU in at a time.
THEOREM LockIsExclusive == LockSpec => []MutualExclusion
BY LockInvExcludes, WindowInvariant, PTL

-----------------------------------------------------------------------------
\* Facts about the mapping: who is present there, and the window's bounds.
LEMMA MappedState ==
  ASSUME LockInv
  PROVE  /\ Fifo!Present = Queued
         /\ \A c \in CPUs : FifoState[c] = "out" <=> c \notin Queued
         /\ \A c \in Queued : /\ Ahead(reg[c], owner) \in Nat
                             /\ Ahead(reg[c], owner) < Cardinality(Queued)
<1>1. \A c \in CPUs : FifoState[c] = "out" <=> c \notin Queued
  BY DEF FifoState, Queued
<1>2. Fifo!Present = Queued
  BY <1>1 DEF Fifo!Present, Queued
<1>3. \A c \in Queued : Ahead(reg[c], owner) \in Word
  BY AheadArithmetic DEF LockInv, LockTypeOK, Queued
<1> QED
  BY <1>1, <1>2, <1>3 DEF Word, LockInv, TicketsInWindow

\* The xaddl is where a CPU takes its place in the queue; the fast path of
\* spin_lock is taken exactly when the queue is empty.
LEMMA TakeTicketIsRequest ==
  ASSUME LockInv, NEW c \in CPUs, TakeTicket(c)
  PROVE  Fifo!Request(c)
<1> USE DEF LockInv, LockTypeOK
<1> DEFINE n == Cardinality(Queued)
<1>1. n \in Nat /\ n < Modulus
  BY QueuedFinite, QueuedRoom, LockAssumption DEF TakeTicket, LockAssumption
<1>2. Queued' = Queued \cup {c} /\ c \notin Queued
  BY DEF TakeTicket, Queued
<1>3. Ahead(next, owner) = n
  BY <1>1 DEF TicketsInWindow
<1>4. /\ \A d \in Queued : d # c /\ reg'[d] = reg[d]
      /\ reg'[c] = next /\ owner' = owner
  BY <1>2 DEF TakeTicket, Queued
<1>5. owner = next <=> Queued = {}
  <2>1. owner = next <=> n = 0
    BY <1>3, AheadArithmetic
  <2>2. n = 0 <=> Queued = {}
    BY QueuedFinite, FS_EmptySet
  <2> QED
    BY <2>1, <2>2
<1>6. FifoState[c] = "out"
  BY <1>2, MappedState
<1>7. FifoAhead' = [FifoAhead EXCEPT ![c] = Queued]
  <2>1. \A d \in Queued : /\ Ahead(reg'[d], owner') \in Nat
                         /\ Ahead(reg'[d], owner') < n
                         /\ Ahead(reg'[d], owner') = Ahead(reg[d], owner)
    BY <1>4, MappedState
  <2>2. Ahead(reg'[c], owner') = n
    BY <1>3, <1>4
  <2> HIDE DEF n
  <2>3. {d \in Queued' : c \in Queued'
                  /\ Ahead(reg'[d], owner') < Ahead(reg'[c], owner')} = Queued
    BY <1>1, <1>2, <2>1, <2>2
  <2>4. ASSUME NEW e \in CPUs, e # c
        PROVE  {d \in Queued' : e \in Queued'
                  /\ Ahead(reg'[d], owner') < Ahead(reg'[e], owner')}
               = {d \in Queued : e \in Queued
                  /\ Ahead(reg[d], owner) < Ahead(reg[e], owner)}
    BY <1>1, <1>2, <2>1, <2>2, <2>4
  <2> QED
    BY <2>3, <2>4 DEF FifoAhead
<1>8. FifoState' = [FifoState EXCEPT ![c] = IF Queued = {} THEN "in" ELSE "wait"]
  BY <1>5 DEF FifoState, TakeTicket
<1> QED
  BY <1>6, <1>7, <1>8, MappedState DEF Fifo!Request

\* The loop of spin_lock ends when nobody is ahead any more.
LEMMA SpinIsEnter ==
  ASSUME LockInv, NEW c \in CPUs, Spin(c)
  PROVE  Fifo!Enter(c)
<1> USE DEF LockInv, LockTypeOK
<1>1. FifoState[c] = "wait"
  BY DEF Spin, FifoState
<1>2. FifoAhead[c] = {}
  <2>1. Ahead(reg[c], owner) = 0
    BY AheadArithmetic DEF Spin
  <2>2. \A d \in Queued : ~ (Ahead(reg[d], owner) < 0)
    BY MappedState
  <2> QED
    BY <2>1, <2>2 DEF FifoAhead
<1>3. FifoState' = [FifoState EXCEPT ![c] = "in"]
  BY DEF Spin, FifoState
<1>4. FifoAhead' = FifoAhead
  <2>1. Queued' = Queued /\ reg' = reg /\ owner' = owner
    BY DEF Spin, Queued
  <2> QED
    BY <2>1 DEF FifoAhead
<1> QED
  BY <1>1, <1>2, <1>3, <1>4 DEF Fifo!Enter

\* The load of the addw is invisible: nobody else writes owner meanwhile.
LEMMA AddwLoadIsStutter ==
  ASSUME LockInv, NEW c \in CPUs, AddwLoad(c)
  PROVE  UNCHANGED <<FifoState, FifoAhead>>
<1> USE DEF LockInv, LockTypeOK
<1>1. reg' = reg /\ owner' = owner
  BY DEF AddwLoad, TicketsInWindow
<1>2. Queued' = Queued
  BY DEF AddwLoad, Queued
<1>3. FifoState' = FifoState
  BY DEF AddwLoad, FifoState
<1> QED
  BY <1>1, <1>2, <1>3 DEF FifoAhead

\* The store of the addw moves every other CPU up by one place.
LEMMA AddwStoreIsLeave ==
  ASSUME LockInv, NEW c \in CPUs, AddwStore(c)
  PROVE  Fifo!Leave(c)
<1> USE DEF LockInv, LockTypeOK
<1>1. Queued' = Queued \ {c} /\ c \in Queued
  BY DEF AddwStore, Queued
<1>2. reg[c] = owner /\ owner' = Inc(owner)
  BY DEF AddwStore, TicketsInWindow
<1>3. Ahead(reg[c], owner) = 0
  BY <1>2, AheadArithmetic
<1>4. ASSUME NEW d \in Queued'
      PROVE  /\ Ahead(reg[d], owner) \in Nat
             /\ Ahead(reg'[d], owner') = Ahead(reg[d], owner) - 1
  <2>1. reg'[d] = reg[d] /\ d \in Queued /\ d # c
    BY <1>1 DEF AddwStore, Queued
  <2>2. reg[d] # owner
    BY <1>1, <1>2, <2>1 DEF TicketsInWindow
  <2>3. \A t \in Word : t # owner => Ahead(t, Inc(owner)) = Ahead(t, owner) - 1
    BY AheadArithmetic
  <2>4. reg[d] \in Word
    BY <2>1 DEF Queued
  <2> QED
    BY <1>2, <2>1, <2>2, <2>3, <2>4, MappedState
<1>5. FifoState[c] = "in"
  BY DEF AddwStore, FifoState
<1>6. FifoState' = [FifoState EXCEPT ![c] = "out"]
  BY DEF AddwStore, FifoState
<1>7. FifoAhead' = [e \in CPUs |-> FifoAhead[e] \ {c}]
  <2>1. ASSUME NEW e \in CPUs
        PROVE  {d \in Queued' : e \in Queued'
                  /\ Ahead(reg'[d], owner') < Ahead(reg'[e], owner')}
               = {d \in Queued : e \in Queued
                  /\ Ahead(reg[d], owner) < Ahead(reg[e], owner)} \ {c}
    <3>1. CASE e \in Queued'
      BY <1>1, <1>4, <3>1
    <3>2. CASE e \notin Queued'
      <4>1. e \notin Queued \/ e = c
        BY <1>1, <3>2
      <4>2. \A d \in Queued : ~ (Ahead(reg[d], owner) < 0)
        BY MappedState
      <4> QED
        BY <1>3, <3>2, <4>1, <4>2
    <3> QED
      BY <3>1, <3>2
  <2> QED
    BY <2>1 DEF FifoAhead
<1> QED
  BY <1>5, <1>6, <1>7 DEF Fifo!Leave

\* The ticket lock implements the first-come first-served lock: CPUs enter in
\* the order of their xaddl, whatever the wrap of the 16-bit tickets.
THEOREM LockImplementsFifo == LockSpec => ImplementsFifo
<1>1. LockInit => Fifo!Init
  <2> SUFFICES ASSUME LockInit PROVE Fifo!Init
    OBVIOUS
  <2>1. Queued = {}
    BY DEF LockInit, Queued
  <2>2. FifoState = [c \in CPUs |-> "out"]
    BY DEF LockInit, FifoState
  <2>3. FifoAhead = [c \in CPUs |-> {}]
    BY <2>1 DEF FifoAhead
  <2> QED
    BY <2>2, <2>3 DEF Fifo!Init
<1>2. LockInv /\ [LockNext]_lockVars => [Fifo!Next]_(Fifo!vars)
  <2> SUFFICES ASSUME LockInv, [LockNext]_lockVars
               PROVE  [Fifo!Next]_(Fifo!vars)
    OBVIOUS
  <2>1. CASE UNCHANGED lockVars
    <3>1. FifoState' = FifoState /\ Queued' = Queued
      BY <2>1 DEF lockVars, FifoState, Queued
    <3>2. FifoAhead' = FifoAhead
      BY <2>1, <3>1 DEF lockVars, FifoAhead
    <3> QED
      BY <3>1, <3>2 DEF Fifo!vars
  <2>2. ASSUME NEW c \in CPUs, LockStep(c) PROVE [Fifo!Next]_(Fifo!vars)
    BY <2>2, TakeTicketIsRequest, SpinIsEnter, AddwLoadIsStutter,
       AddwStoreIsLeave
    DEF LockStep, Fifo!Next, Fifo!vars
  <2> QED
    BY <2>1, <2>2 DEF LockNext
<1> QED
  BY <1>1, <1>2, WindowInvariant, PTL DEF LockSpec, ImplementsFifo, Fifo!Spec

-----------------------------------------------------------------------------
(***************************************************************************)
(* The queues.                                                             *)
(***************************************************************************)
\* The statements that run with inv_queue_lock held.
Places ==
  \A c \in CPUs :
    /\ at[c] \in {"idle", "clear"} => lk[c] = "out"
    /\ at[c] = "lock" => lk[c] \in {"out", "spin"}
    /\ at[c] \in {"request", "wait", "tail", "poll"} => lk[c] = "in"
    /\ at[c] = "unlock" => lk[c] \in {"in", "addw"}

Quiet(u) == head[u] = tail[u] /\ executing[u] = {}

\* A unit that has still to set the flag of the CPU that polls: it has fetched
\* nothing yet, or the wait descriptor is left.
Polling(c) == at[c] = "poll" /\ ~ completed[c]

Posted(c, u) ==
  /\ slot[u][head[u]] = Inv(c, Kind(c)) /\ slot[u][Step(head[u])] = Wait(c)
  /\ tail[u] = Step(Step(head[u])) /\ executing[u] = {}

Taken(c, u) ==
  /\ slot[u][head[u]] = Wait(c) /\ tail[u] = Step(head[u])
  /\ executing[u] \subseteq {Inv(c, Kind(c))}

\* Units work for the polling CPU only, and one at a time.
Working ==
  \A u \in UnitIds :
    \/ Quiet(u)
    \/ \E c \in CPUs : /\ Polling(c) /\ Unit(c) = u
                       /\ Posted(c, u) \/ Taken(c, u)

\* What the CPU has written of its two descriptors.
Writing ==
  \A c \in CPUs :
    LET u == Unit(c) IN
    /\ at[c] \in {"wait", "tail"} => slot[u][tail[u]] = Inv(c, Kind(c))
    /\ at[c] = "wait" => index[c] = Step(tail[u])
    /\ at[c] = "tail" => /\ index[c] = Step(Step(tail[u]))
                         /\ slot[u][Step(tail[u])] = Wait(c)

\* The flag says that the unit is still at work.
Flags ==
  \A c \in CPUs :
    /\ at[c] \in {"lock", "request", "wait", "tail"} => ~ completed[c]
    /\ Polling(c) => Posted(c, Unit(c)) \/ Taken(c, Unit(c))

\* The unit has carried out the invalidation of the running submission.
Executed(c) ==
  \/ at[c] = "unlock"
  \/ at[c] = "poll" /\ executing[Unit(c)] = {} /\ (completed[c] \/ Taken(c, Unit(c)))

\* What a unit may still cache is submitted to it later, if it has not just
\* been, and context entries before the translations that they refill.
OutstandingOf(c) ==
  /\ todo[c] = <<>> <=> at[c] = "idle"
  /\ \A u \in UnitIds, kind \in Kinds :
       <<c, kind>> \in stale[u] =>
         \E i \in 1 .. Len(todo[c]) : /\ todo[c][i] = [unit |-> u, kind |-> kind]
                                      /\ i = 1 => ~ Executed(c)
  /\ \A i \in 1 .. Len(todo[c]) :
       todo[c][i].kind = "context" =>
         \E j \in i + 1 .. Len(todo[c]) :
           todo[c][j] = [unit |-> todo[c][i].unit, kind |-> "iotlb"]

Outstanding == \A c \in CPUs : OutstandingOf(c)

QueueInv ==
  /\ QueueTypeOK /\ TicketsInWindow
  /\ Places /\ Working /\ Writing /\ Flags /\ Outstanding

-----------------------------------------------------------------------------
(* Rings, programs, and who is inside                                      *)

\* Two steps in a ring of at least three slots do not come back.
LEMMA StepFacts ==
  ASSUME NEW i \in Index
  PROVE  /\ Step(i) \in Index /\ Step(Step(i)) \in Index
         /\ Step(i) # i /\ Step(Step(i)) # i /\ Step(Step(i)) # Step(i)
<1>1. \A j \in Index : Step(j) = IF j + 1 = QSize THEN 0 ELSE j + 1
  BY QueueAssumption DEF Step, Index
<1>2. QSize \in Nat /\ QSize >= 3
  BY QueueAssumption
<1>3. Step(i) \in Index
  BY <1>1, <1>2 DEF Index
<1> QED
  BY <1>1, <1>2, <1>3 DEF Index

\* Where a unit still has to go, in the three situations it can be in.
LEMMA PendingFacts ==
  ASSUME NEW u \in UnitIds, head[u] \in Index, tail[u] \in Index
  PROVE  /\ head[u] = tail[u] => Pending(u) = {}
         /\ tail[u] = Step(head[u]) => Pending(u) \subseteq {head[u]}
         /\ tail[u] = Step(Step(head[u])) => Pending(u) \subseteq {head[u], Step(head[u])}
<1>1. QSize \in Nat /\ QSize >= 3
  BY QueueAssumption
<1>2. \A i, j \in Index : (i - j) % QSize = IF i >= j THEN i - j ELSE i - j + QSize
  BY <1>1 DEF Index
<1>3. \A j \in Index : Step(j) = IF j + 1 = QSize THEN 0 ELSE j + 1
  BY <1>1 DEF Step, Index
<1>4. Step(head[u]) \in Index
  BY StepFacts
<1>5. Pending(u) = {i \in Index : (i - head[u]) % QSize < (tail[u] - head[u]) % QSize}
  BY DEF Pending
<1>6. head[u] = tail[u] => Pending(u) = {}
  <2> SUFFICES ASSUME head[u] = tail[u], NEW i \in Pending(u) PROVE FALSE
    OBVIOUS
  <2>1. i \in Index /\ (i - head[u]) % QSize < (head[u] - head[u]) % QSize
    BY <1>5
  <2> QED
    BY <1>1, <1>2, <2>1 DEF Index
<1>7. tail[u] = Step(head[u]) => Pending(u) \subseteq {head[u]}
  <2> SUFFICES ASSUME tail[u] = Step(head[u]), NEW i \in Pending(u) PROVE i = head[u]
    OBVIOUS
  <2>1. i \in Index /\ (i - head[u]) % QSize < (Step(head[u]) - head[u]) % QSize
    BY <1>5
  <2>2. (Step(head[u]) - head[u]) % QSize = 1
    BY <1>1, <1>2, <1>3, <1>4 DEF Index
  <2> QED
    BY <1>1, <1>2, <2>1, <2>2 DEF Index
<1>8. tail[u] = Step(Step(head[u])) => Pending(u) \subseteq {head[u], Step(head[u])}
  <2> SUFFICES ASSUME tail[u] = Step(Step(head[u])), NEW i \in Pending(u)
               PROVE  i = head[u] \/ i = Step(head[u])
    OBVIOUS
  <2>1. i \in Index /\ (i - head[u]) % QSize < (Step(Step(head[u])) - head[u]) % QSize
    BY <1>5
  <2>2. Step(Step(head[u])) \in Index
    BY StepFacts
  <2> DEFINE h == head[u]
             k == Step(h)
             m == Step(k)
  <2>3. /\ h \in Index /\ k \in Index /\ m \in Index
        /\ k = IF h + 1 = QSize THEN 0 ELSE h + 1
        /\ m = IF k + 1 = QSize THEN 0 ELSE k + 1
        /\ (m - h) % QSize = IF m >= h THEN m - h ELSE m - h + QSize
        /\ (i - h) % QSize = IF i >= h THEN i - h ELSE i - h + QSize
    BY <1>2, <1>3, <1>4, <2>1, <2>2
  <2>4. (i - h) % QSize < (m - h) % QSize
    BY <2>1
  <2>5. i = h \/ i = k
    <3> HIDE DEF h, k, m
    <3> QED
      BY <1>1, <2>1, <2>3, <2>4 DEF Index
  <2> QED
    BY <2>5
<1> QED
  BY <1>6, <1>7, <1>8

\* A function over a first part of the natural numbers is a sequence.
LEMMA FunctionIsSeq ==
  ASSUME NEW S, NEW n \in Nat, NEW s \in [1 .. n -> S]
  PROVE  s \in Seq(S) /\ Len(s) = n
<1>1. s \in Seq(S)
  OBVIOUS
<1>2. Len(s) \in Nat /\ DOMAIN s = 1 .. Len(s)
  BY <1>1, LenProperties
<1>3. DOMAIN s = 1 .. n
  OBVIOUS
<1> QED
  BY <1>1, <1>2, <1>3

\* What the loop over the units submits: to each unit the whole program, the
\* context entries first.
LEMMA SubmissionFacts ==
  ASSUME NEW job \in Jobs
  PROVE  LET s == Submissions(job) IN
         /\ s \in Seq([unit : UnitIds, kind : Kinds]) /\ s # <<>>
         /\ Range(Program(job)) \subseteq Kinds
         /\ \A u \in UnitIds, kind \in Range(Program(job)) :
              \E i \in 1 .. Len(s) : s[i] = [unit |-> u, kind |-> kind]
         /\ \A i \in 1 .. Len(s) :
              s[i].kind = "context" =>
                \E j \in i + 1 .. Len(s) : s[j] = [unit |-> s[i].unit, kind |-> "iotlb"]
<1> DEFINE s == Submissions(job)
           n == Units * Len(Program(job))
<1>0. Units \in Nat /\ Units > 0 /\ job \in {"domain", "irte"}
  BY QueueAssumption
<1>1. CASE job = "irte"
  <2>1. Program(job) = <<"int">> /\ Len(Program(job)) = 1 /\ n = Units
    BY <1>0, <1>1 DEF Program
  <2>2. s = [i \in 1 .. Units |-> [unit |-> (i - 1) \div 1, kind |-> <<"int">>[((i - 1) % 1) + 1]]]
    BY <2>1 DEF Submissions
  <2>3. \A i \in 1 .. Units : s[i] = [unit |-> i - 1, kind |-> "int"]
    <3>1. \A i \in 1 .. Units : (i - 1) \div 1 = i - 1 /\ ((i - 1) % 1) + 1 = 1
      BY <1>0
    <3> QED
      BY <2>2, <3>1
  <2>4. \A i \in 1 .. Units : s[i] \in [unit : UnitIds, kind : Kinds]
    <3> HIDE DEF s
    <3> SUFFICES ASSUME NEW i \in 1 .. Units
                 PROVE  s[i] \in [unit : UnitIds, kind : Kinds]
      OBVIOUS
    <3>1. i - 1 \in UnitIds /\ "int" \in Kinds
      BY <1>0 DEF UnitIds, Kinds
    <3>2. s[i] = [unit |-> i - 1, kind |-> "int"]
      BY <2>3
    <3>3. [unit |-> i - 1, kind |-> "int"] \in [unit : UnitIds, kind : Kinds]
      BY <3>1
    <3> QED
      BY <3>2, <3>3
  <2>5. s \in Seq([unit : UnitIds, kind : Kinds]) /\ Len(s) = Units
    <3>1. s \in [1 .. Units -> [unit : UnitIds, kind : Kinds]]
      BY <2>2, <2>4
    <3> QED
      BY <1>0, <3>1, FunctionIsSeq
  <2>6. Range(Program(job)) = {"int"}
    BY <2>1 DEF Range
  <2>7. \A u \in UnitIds : u + 1 \in 1 .. Units /\ s[u + 1] = [unit |-> u, kind |-> "int"]
    <3>1. \A u \in UnitIds : u + 1 \in 1 .. Units /\ (u + 1) - 1 = u
      BY <1>0 DEF UnitIds
    <3> QED
      BY <2>3, <3>1
  <2>8. s # <<>>
    BY <1>0, <2>5
  <2> QED
    BY <2>3, <2>5, <2>6, <2>7, <2>8 DEF Kinds
<1>2. CASE job = "domain"
  <2>1. Program(job) = <<"context", "iotlb">> /\ Len(Program(job)) = 2 /\ n = Units * 2
    BY <1>0, <1>2 DEF Program
  <2>2. s = [i \in 1 .. Units * 2 |->
               [unit |-> (i - 1) \div 2,
                kind |-> <<"context", "iotlb">>[((i - 1) % 2) + 1]]]
    BY <2>1 DEF Submissions
  <2>3. \A u \in UnitIds :
          /\ 2 * u + 1 \in 1 .. Units * 2 /\ s[2 * u + 1] = [unit |-> u, kind |-> "context"]
          /\ 2 * u + 2 \in 1 .. Units * 2 /\ s[2 * u + 2] = [unit |-> u, kind |-> "iotlb"]
    <3>1. \A u \in UnitIds :
            /\ 2 * u + 1 \in 1 .. Units * 2 /\ 2 * u + 2 \in 1 .. Units * 2
            /\ ((2 * u + 1) - 1) \div 2 = u /\ (((2 * u + 1) - 1) % 2) + 1 = 1
            /\ ((2 * u + 2) - 1) \div 2 = u /\ (((2 * u + 2) - 1) % 2) + 1 = 2
      BY <1>0 DEF UnitIds
    <3>2. \A i \in 1 .. Units * 2 :
            s[i] = [unit |-> (i - 1) \div 2,
                    kind |-> <<"context", "iotlb">>[((i - 1) % 2) + 1]]
      BY <2>2
    <3> HIDE DEF s
    <3> SUFFICES ASSUME NEW u \in UnitIds
                 PROVE  /\ s[2 * u + 1] = [unit |-> u, kind |-> "context"]
                        /\ s[2 * u + 2] = [unit |-> u, kind |-> "iotlb"]
      BY <3>1
    <3>3. s[2 * u + 1] = [unit |-> u, kind |-> <<"context", "iotlb">>[1]]
      BY <3>1, <3>2
    <3>4. s[2 * u + 2] = [unit |-> u, kind |-> <<"context", "iotlb">>[2]]
      BY <3>1, <3>2
    <3> QED
      BY <3>3, <3>4
  <2>4. \A i \in 1 .. Units * 2 :
          \E u \in UnitIds : i = 2 * u + 1 \/ i = 2 * u + 2
    <3> SUFFICES ASSUME NEW i \in 1 .. Units * 2
                 PROVE  \E u \in UnitIds : i = 2 * u + 1 \/ i = 2 * u + 2
      OBVIOUS
    <3> DEFINE u == (i - 1) \div 2
    <3>1. u \in UnitIds /\ (i = 2 * u + 1 \/ i = 2 * u + 2)
      BY <1>0 DEF UnitIds
    <3> QED
      BY <3>1
  <2>5. \A i \in 1 .. Units * 2 : s[i] \in [unit : UnitIds, kind : Kinds]
    <3> HIDE DEF s
    <3> SUFFICES ASSUME NEW i \in 1 .. Units * 2
                 PROVE  s[i] \in [unit : UnitIds, kind : Kinds]
      OBVIOUS
    <3>1. PICK u \in UnitIds : i = 2 * u + 1 \/ i = 2 * u + 2
      BY <2>4
    <3>2. "context" \in Kinds /\ "iotlb" \in Kinds
      BY DEF Kinds
    <3>3. /\ [unit |-> u, kind |-> "context"] \in [unit : UnitIds, kind : Kinds]
          /\ [unit |-> u, kind |-> "iotlb"] \in [unit : UnitIds, kind : Kinds]
      BY <3>2
    <3>4. /\ s[2 * u + 1] = [unit |-> u, kind |-> "context"]
          /\ s[2 * u + 2] = [unit |-> u, kind |-> "iotlb"]
      BY <2>3, Zenon
    <3> QED
      BY <3>1, <3>3, <3>4
  <2>6. s \in Seq([unit : UnitIds, kind : Kinds]) /\ Len(s) = Units * 2
    <3>1. s \in [1 .. Units * 2 -> [unit : UnitIds, kind : Kinds]]
      BY <2>2, <2>5
    <3>2. Units * 2 \in Nat
      BY <1>0
    <3> QED
      BY <3>1, <3>2, FunctionIsSeq
  <2>7. Range(Program(job)) = {"context", "iotlb"}
    BY <2>1 DEF Range
  <2>8. s # <<>>
    BY <1>0, <2>6
  <2>9. ASSUME NEW i \in 1 .. Len(s), s[i].kind = "context"
        PROVE  \E j \in i + 1 .. Len(s) : s[j] = [unit |-> s[i].unit, kind |-> "iotlb"]
    <3>1. PICK u \in UnitIds : i = 2 * u + 1 \/ i = 2 * u + 2
      BY <2>4, <2>6
    <3>2. i = 2 * u + 1 /\ s[i].unit = u
      <4>0. /\ s[2 * u + 1] = [unit |-> u, kind |-> "context"]
            /\ s[2 * u + 2] = [unit |-> u, kind |-> "iotlb"]
        BY <2>3, Zenon
      <4>1. s[2 * u + 2].kind = "iotlb" /\ s[2 * u + 1].unit = u
        BY <4>0
      <4>2. i # 2 * u + 2
        BY <2>9, <4>1
      <4> QED
        BY <3>1, <4>1, <4>2
    <3>3. 2 * u + 2 \in i + 1 .. Len(s)
      BY <1>0, <2>3, <2>6, <3>2 DEF UnitIds
    <3> QED
      BY <2>3, <3>2, <3>3
  <2> QED
    BY <2>3, <2>6, <2>7, <2>8, <2>9 DEF Kinds
<1> QED
  BY <1>0, <1>1, <1>2

\* One CPU is between spin_lock and spin_unlock.
Inside(c) == at[c] \in {"request", "wait", "tail", "poll", "unlock"}

LEMMA OneInside ==
  ASSUME QueueInv, NEW c \in CPUs, NEW d \in CPUs, Inside(c), Inside(d)
  PROVE  c = d
<1>1. LockInv
  BY DEF QueueInv, QueueTypeOK, LockInv
<1>2. lk[c] \in {"in", "addw"} /\ lk[d] \in {"in", "addw"}
  BY DEF QueueInv, Places, Inside
<1> QED
  BY <1>1, <1>2, LockInvExcludes DEF MutualExclusion

\* A CPU that is inside and does not poll an unanswered unit finds every unit
\* with nothing to do.
LEMMA InsideQuiet ==
  ASSUME QueueInv, NEW c \in CPUs, Inside(c), ~ Polling(c), NEW u \in UnitIds
  PROVE  Quiet(u)
<1>1. \A d \in CPUs : Polling(d) => Inside(d)
  BY DEF Polling, Inside
<1> QED
  BY <1>1, OneInside DEF QueueInv, Working

\* The running submission is one of the code's.
LEMMA Running ==
  ASSUME QueueInv, NEW c \in CPUs, at[c] # "idle"
  PROVE  /\ todo[c] \in Seq([unit : UnitIds, kind : Kinds]) /\ todo[c] # <<>>
         /\ Len(todo[c]) \in Nat \ {0}
         /\ Unit(c) \in UnitIds /\ Kind(c) \in Kinds
         /\ todo[c][1] = [unit |-> Unit(c), kind |-> Kind(c)]
<1>1. todo[c] \in Seq([unit : UnitIds, kind : Kinds]) /\ todo[c] # <<>>
  BY DEF QueueInv, QueueTypeOK, Outstanding, OutstandingOf
<1>2. Len(todo[c]) \in Nat \ {0}
  BY <1>1, EmptySeq
<1>3. todo[c][1] \in [unit : UnitIds, kind : Kinds]
  <2>1. 1 \in 1 .. Len(todo[c])
    BY <1>2
  <2> QED
    BY <1>1, <2>1, ElementOfSeq
<1> QED
  BY <1>1, <1>2, <1>3 DEF Unit, Kind

-----------------------------------------------------------------------------
(* The lock, the types, and where the lock is held                         *)

\* Every step is one of the lock or leaves it alone.
LEMMA LockKept ==
  ASSUME QueueInv, [QueueNext]_vars
  PROVE  LockTypeOK' /\ TicketsInWindow'
<1>1. LockInv
  BY DEF QueueInv, QueueTypeOK, LockInv
<1>2. [LockNext]_lockVars
  <2>1. ASSUME NEW c \in CPUs, Begin(c) PROVE UNCHANGED lockVars
    BY <2>1 DEF Begin
  <2>2. ASSUME NEW c \in CPUs, Submit(c) PROVE [LockNext]_lockVars
    BY <2>2 DEF Submit, ClearCompleted, Lock, WriteRequest, WriteWait, WriteTail,
                Poll, Unlock, LockNext, LockStep
  <2>3. ASSUME NEW u \in UnitIds, Fetch(u) \/ Execute(u) \/ Refill(u)
        PROVE  UNCHANGED lockVars
    BY <2>3 DEF Fetch, Execute, Refill
  <2> QED
    BY <2>1, <2>2, <2>3 DEF QueueNext, vars
<1> QED
  BY <1>1, <1>2, LockInvStep DEF LockInv

\* A CPU's step leaves the other CPUs where they are.
Others(c) ==
  \A d \in CPUs \ {c} :
    /\ at'[d] = at[d] /\ todo'[d] = todo[d]
    /\ index'[d] = index[d] /\ completed'[d] = completed[d]

\* What each step does, value by value.
LEMMA BeginFacts ==
  ASSUME QueueInv, NEW c \in CPUs, Begin(c)
  PROVE  /\ at[c] = "idle" /\ at'[c] = "clear" /\ Others(c) /\ lk' = lk
         /\ completed' = completed
         /\ UNCHANGED <<slot, tail, head, executing>>
BY DEF Begin, Goto, Others, QueueInv, QueueTypeOK, ringVars, lockVars

LEMMA ClearFacts ==
  ASSUME QueueInv, NEW c \in CPUs, ClearCompleted(c)
  PROVE  /\ at[c] = "clear" /\ at'[c] = "lock" /\ ~ completed'[c]
         /\ Others(c) /\ lk' = lk /\ todo' = todo
         /\ UNCHANGED <<slot, tail, head, executing, stale>>
BY DEF ClearCompleted, Goto, Others, QueueInv, QueueTypeOK, ringVars, unitVars, lockVars

LEMMA LockFacts ==
  ASSUME QueueInv, NEW c \in CPUs, Lock(c)
  PROVE  /\ at[c] = "lock" /\ at'[c] \in {"lock", "request"}
         /\ at'[c] = "lock" => lk'[c] = "spin"
         /\ at'[c] = "request" => lk'[c] = "in"
         /\ \A d \in CPUs \ {c} : lk'[d] = lk[d]
         /\ Others(c) /\ todo' = todo /\ completed' = completed
         /\ UNCHANGED <<slot, tail, head, executing, stale>>
<1>1. lk'[c] \in {"spin", "in"} /\ \A d \in CPUs \ {c} : lk'[d] = lk[d]
  BY DEF Lock, TakeTicket, Spin, QueueInv, QueueTypeOK, LockTypeOK
<1>2. at' = [at EXCEPT ![c] = IF lk'[c] = "in" THEN "request" ELSE "lock"]
  BY DEF Lock, Goto
<1> QED
  BY <1>1, <1>2 DEF Lock, Others, QueueInv, QueueTypeOK, ringVars, unitVars

LEMMA RequestFacts ==
  ASSUME QueueInv, NEW c \in CPUs, WriteRequest(c)
  PROVE  /\ at[c] = "request" /\ at'[c] = "wait" /\ Others(c) /\ lk' = lk
         /\ todo' = todo /\ completed' = completed
         /\ index'[c] = Step(tail[Unit(c)])
         /\ slot' = [slot EXCEPT ![Unit(c)][tail[Unit(c)]] = Inv(c, Kind(c))]
         /\ UNCHANGED <<tail, head, executing, stale>>
BY DEF WriteRequest, Goto, Others, QueueInv, QueueTypeOK, unitVars, lockVars

LEMMA WaitFacts ==
  ASSUME QueueInv, NEW c \in CPUs, WriteWait(c)
  PROVE  /\ at[c] = "wait" /\ at'[c] = "tail" /\ Others(c) /\ lk' = lk
         /\ todo' = todo /\ completed' = completed
         /\ index'[c] = Step(index[c])
         /\ slot' = [slot EXCEPT ![Unit(c)][index[c]] = Wait(c)]
         /\ UNCHANGED <<tail, head, executing, stale>>
BY DEF WriteWait, Goto, Others, QueueInv, QueueTypeOK, unitVars, lockVars

LEMMA TailFacts ==
  ASSUME QueueInv, NEW c \in CPUs, WriteTail(c)
  PROVE  /\ at[c] = "tail" /\ at'[c] = "poll" /\ Others(c) /\ lk' = lk
         /\ todo' = todo /\ completed' = completed
         /\ tail' = [tail EXCEPT ![Unit(c)] = index[c]]
         /\ UNCHANGED <<slot, head, executing, stale>>
BY DEF WriteTail, Goto, Others, QueueInv, QueueTypeOK, unitVars, lockVars

LEMMA PollFacts ==
  ASSUME QueueInv, NEW c \in CPUs, Poll(c)
  PROVE  /\ at[c] = "poll" /\ completed[c] /\ at'[c] = "unlock"
         /\ Others(c) /\ lk' = lk /\ todo' = todo
         /\ UNCHANGED <<slot, tail, head, executing, stale>>
BY DEF Poll, Goto, Others, QueueInv, QueueTypeOK, ringVars, unitVars, lockVars

LEMMA UnlockFacts ==
  ASSUME QueueInv, NEW c \in CPUs, Unlock(c)
  PROVE  /\ at[c] = "unlock" /\ Others(c)
         /\ \A d \in CPUs \ {c} : lk'[d] = lk[d]
         /\ \/ at'[c] = "unlock" /\ lk'[c] = "addw" /\ todo' = todo
            \/ /\ lk'[c] = "out" /\ todo'[c] = Tail(todo[c])
               /\ at'[c] = IF Len(todo[c]) = 1 THEN "idle" ELSE "clear"
         /\ UNCHANGED <<slot, tail, head, executing, stale>>
<1>1. CASE AddwLoad(c) /\ UNCHANGED <<at, todo, index>>
  BY <1>1 DEF Unlock, AddwLoad, Others, QueueInv, QueueTypeOK, LockTypeOK,
              ringVars, unitVars
<1>2. CASE /\ AddwStore(c)
           /\ todo' = [todo EXCEPT ![c] = Tail(@)]
           /\ index' = [index EXCEPT ![c] = 0]
           /\ Goto(c, IF Len(todo[c]) = 1 THEN "idle" ELSE "clear")
  BY <1>2 DEF Unlock, AddwStore, Goto, Others, QueueInv, QueueTypeOK, LockTypeOK,
              ringVars, unitVars
<1> QED
  BY <1>1, <1>2 DEF Unlock

\* A store to one slot of one ring.
LEMMA SlotWritten ==
  ASSUME NEW D, slot \in [UnitIds -> [Index -> D]],
         NEW u \in UnitIds, NEW i \in Index, NEW v \in D,
         slot' = [slot EXCEPT ![u][i] = v]
  PROVE  /\ slot' \in [UnitIds -> [Index -> D]]
         /\ \A w \in UnitIds, j \in Index :
              slot'[w][j] = IF w = u /\ j = i THEN v ELSE slot[w][j]
<1>1. [slot[u] EXCEPT ![i] = v] \in [Index -> D]
  OBVIOUS
<1>2. slot' = [slot EXCEPT ![u] = [slot[u] EXCEPT ![i] = v]]
  OBVIOUS
<1>3. \A w \in UnitIds :
        slot'[w] = IF w = u THEN [slot[u] EXCEPT ![i] = v] ELSE slot[w]
  BY <1>2
<1> QED
  BY <1>1, <1>2, <1>3

LEMMA TypeKept ==
  ASSUME QueueInv, [QueueNext]_vars
  PROVE  QueueTypeOK'
<1> USE DEF QueueTypeOK, QueueInv, Goto
<1> DEFINE S == Seq([unit : UnitIds, kind : Kinds])
           D == Requests \cup {Wait(d) : d \in CPUs} \cup {Blank}
<1>0. LockTypeOK'
  BY LockKept
<1>1. ASSUME NEW c \in CPUs, Begin(c) PROVE QueueTypeOK'
  <2>1. PICK job \in Jobs :
          /\ todo' = [todo EXCEPT ![c] = Submissions(job)]
          /\ stale' = [u \in UnitIds |->
                         stale[u] \cup {<<c, kind>> : kind \in Range(Program(job))}]
    BY <1>1 DEF Begin
  <2>2. Submissions(job) \in S /\ Range(Program(job)) \subseteq Kinds
    BY SubmissionFacts
  <2>3. todo' \in [CPUs -> S]
    BY <2>1, <2>2
  <2>4. stale' \in [UnitIds -> SUBSET (CPUs \X Kinds)]
    BY <2>1, <2>2
  <2>5. /\ at' = [at EXCEPT ![c] = "clear"]
        /\ UNCHANGED <<index, completed, slot, tail, head, executing>>
    BY <1>1 DEF Begin, ringVars
  <2> QED
    BY <1>0, <2>3, <2>4, <2>5
<1>2. ASSUME NEW c \in CPUs, ClearCompleted(c) \/ Poll(c) PROVE QueueTypeOK'
  BY <1>0, <1>2 DEF ClearCompleted, Poll, ringVars, unitVars
<1>3. ASSUME NEW c \in CPUs, Lock(c) PROVE QueueTypeOK'
  <2>1. at' \in [CPUs -> {"idle", "clear", "lock", "request", "wait", "tail",
                          "poll", "unlock"}]
    BY <1>3 DEF Lock
  <2> QED
    BY <1>0, <1>3, <2>1 DEF Lock, ringVars, unitVars
<1>4. ASSUME NEW c \in CPUs, WriteRequest(c) PROVE QueueTypeOK'
  <2>1. Unit(c) \in UnitIds /\ Kind(c) \in Kinds
    BY <1>4, Running DEF WriteRequest
  <2>2. tail[Unit(c)] \in Index /\ Step(tail[Unit(c)]) \in Index
    BY <2>1, StepFacts
  <2>3. Inv(c, Kind(c)) \in Requests
    BY <2>1 DEF Requests
  <2>4. slot' \in [UnitIds -> [Index -> D]]
    <3>1. slot \in [UnitIds -> [Index -> D]]
      OBVIOUS
    <3>2. Inv(c, Kind(c)) \in D
      BY <2>3
    <3>3. slot' = [slot EXCEPT ![Unit(c)][tail[Unit(c)]] = Inv(c, Kind(c))]
      BY <1>4, RequestFacts
    <3> HIDE DEF D
    <3> QED
      BY <2>1, <2>2, <3>1, <3>2, <3>3, SlotWritten
  <2>5. index' \in [CPUs -> Index]
    BY <1>4, <2>2 DEF WriteRequest
  <2> QED
    BY <1>0, <1>4, <2>4, <2>5 DEF WriteRequest, unitVars
<1>5. ASSUME NEW c \in CPUs, WriteWait(c) PROVE QueueTypeOK'
  <2>1. Unit(c) \in UnitIds
    BY <1>5, Running DEF WriteWait
  <2>2. index[c] \in Index /\ Step(index[c]) \in Index
    BY StepFacts
  <2>3. Wait(c) \in {Wait(d) : d \in CPUs}
    OBVIOUS
  <2>4. slot' \in [UnitIds -> [Index -> D]]
    <3>1. slot \in [UnitIds -> [Index -> D]]
      OBVIOUS
    <3>2. Wait(c) \in D
      BY <2>3
    <3>3. slot' = [slot EXCEPT ![Unit(c)][index[c]] = Wait(c)]
      BY <1>5, WaitFacts
    <3> HIDE DEF D
    <3> QED
      BY <2>1, <2>2, <3>1, <3>2, <3>3, SlotWritten
  <2>5. index' \in [CPUs -> Index]
    BY <1>5, <2>2 DEF WriteWait
  <2> QED
    BY <1>0, <1>5, <2>4, <2>5 DEF WriteWait, unitVars
<1>6. ASSUME NEW c \in CPUs, WriteTail(c) PROVE QueueTypeOK'
  BY <1>0, <1>6 DEF WriteTail, unitVars
<1>7. ASSUME NEW c \in CPUs, Unlock(c) PROVE QueueTypeOK'
  <2>1. CASE UNCHANGED <<at, todo, index>>
    BY <1>0, <1>7, <2>1 DEF Unlock, ringVars, unitVars
  <2>2. CASE /\ todo' = [todo EXCEPT ![c] = Tail(@)]
             /\ index' = [index EXCEPT ![c] = 0]
             /\ Goto(c, IF Len(todo[c]) = 1 THEN "idle" ELSE "clear")
    <3>1. todo[c] \in S /\ todo[c] # <<>>
      BY <1>7, Running DEF Unlock
    <3>2. Tail(todo[c]) \in S
      BY <3>1, HeadTailProperties
    <3>3. todo' \in [CPUs -> S]
      BY <2>2, <3>2
    <3>4. 0 \in Index
      BY QueueAssumption DEF Index
    <3> QED
      BY <1>0, <1>7, <2>2, <3>3, <3>4 DEF Unlock, ringVars, unitVars
  <2> QED
    BY <1>7, <2>1, <2>2 DEF Unlock
<1>8. ASSUME NEW u \in UnitIds, Fetch(u) PROVE QueueTypeOK'
  <2>1. head' \in [UnitIds -> Index]
    BY <1>8, StepFacts DEF Fetch
  <2>2. slot[u][head[u]] \in D
    OBVIOUS
  <2>3. executing' \in [UnitIds -> SUBSET Requests]
    <3>1. \A d \in CPUs : Wait(d).type = "wait"
      BY DEF Wait
    <3>2. Blank.type = "blank"
      BY DEF Blank
    <3>3. slot[u][head[u]].type = "inv" => slot[u][head[u]] \in Requests
      BY <2>2, <3>1, <3>2
    <3>4. CASE executing' = executing
      BY <3>4
    <3>5. CASE /\ slot[u][head[u]].type = "inv"
               /\ executing' = [executing EXCEPT ![u] = @ \cup {slot[u][head[u]]}]
      BY <3>3, <3>5
    <3> QED
      BY <1>8, <3>4, <3>5 DEF Fetch
  <2>4. completed' \in [CPUs -> BOOLEAN]
    BY <1>8, Zenon DEF Fetch
  <2> QED
    BY <1>0, <1>8, <2>1, <2>3, <2>4 DEF Fetch, ringVars
<1>9. ASSUME NEW u \in UnitIds, Execute(u) PROVE QueueTypeOK'
  <2>1. PICK entry \in executing[u] :
          /\ executing' = [executing EXCEPT ![u] = @ \ {entry}]
          /\ stale' = [stale EXCEPT ![u] = @ \ {<<entry.cpu, entry.kind>>}]
    BY <1>9 DEF Execute
  <2>2. executing' \in [UnitIds -> SUBSET Requests]
    BY <2>1
  <2>3. stale' \in [UnitIds -> SUBSET (CPUs \X Kinds)]
    BY <2>1
  <2> QED
    BY <1>0, <1>9, <2>2, <2>3 DEF Execute, ringVars
<1>10. ASSUME NEW u \in UnitIds, Refill(u) PROVE QueueTypeOK'
  BY <1>0, <1>10 DEF Refill, ringVars, Kinds
<1>11. CASE UNCHANGED vars
  BY <1>0, <1>11 DEF vars, ringVars, unitVars
<1> QED
  BY <1>1, <1>2, <1>3, <1>4, <1>5, <1>6, <1>7, <1>8, <1>9, <1>10, <1>11
     DEF QueueNext, Submit

\* spin_lock and spin_unlock bracket the statements that need the lock.
LEMMA PlacesKept ==
  ASSUME QueueInv, [QueueNext]_vars
  PROVE  Places'
<1> USE DEF Places
<1>0. Places
  BY DEF QueueInv
<1>1. ASSUME NEW c \in CPUs, Begin(c) PROVE Places'
  BY <1>0, <1>1, BeginFacts DEF Others
<1>2. ASSUME NEW c \in CPUs, ClearCompleted(c) PROVE Places'
  BY <1>0, <1>2, ClearFacts DEF Others
<1>3. ASSUME NEW c \in CPUs, Lock(c) PROVE Places'
  BY <1>0, <1>3, LockFacts DEF Others
<1>4. ASSUME NEW c \in CPUs, WriteRequest(c) PROVE Places'
  BY <1>0, <1>4, RequestFacts DEF Others
<1>5. ASSUME NEW c \in CPUs, WriteWait(c) PROVE Places'
  BY <1>0, <1>5, WaitFacts DEF Others
<1>6. ASSUME NEW c \in CPUs, WriteTail(c) PROVE Places'
  BY <1>0, <1>6, TailFacts DEF Others
<1>7. ASSUME NEW c \in CPUs, Poll(c) PROVE Places'
  BY <1>0, <1>7, PollFacts DEF Others
<1>8. ASSUME NEW c \in CPUs, Unlock(c) PROVE Places'
  <2>1. at'[c] \in {"unlock", "idle", "clear"}
    BY <1>8, UnlockFacts
  <2> QED
    BY <1>0, <1>8, <2>1, UnlockFacts DEF Others
<1>9. ASSUME NEW u \in UnitIds, Fetch(u) \/ Execute(u) \/ Refill(u) PROVE Places'
  BY <1>0, <1>9 DEF Fetch, Execute, Refill, lockVars
<1>10. CASE UNCHANGED vars
  BY <1>0, <1>10 DEF vars, lockVars
<1> QED
  BY <1>1, <1>2, <1>3, <1>4, <1>5, <1>6, <1>7, <1>8, <1>9, <1>10 DEF QueueNext, Submit

-----------------------------------------------------------------------------
(* The rings and the units                                                 *)

Rings == Working /\ Writing /\ Flags

\* A CPU that neither waits for a unit nor touches a ring leaves the units to
\* the CPU they work for.
LEMMA ElsewhereKeepsRings ==
  ASSUME QueueInv, NEW c \in CPUs, Others(c),
         UNCHANGED <<slot, tail, head, executing>>, ~ Polling(c),
         at'[c] \notin {"wait", "tail", "poll"},
         at'[c] \in {"lock", "request"} => ~ completed'[c]
  PROVE  Rings'
<1>1. \A d \in CPUs \ {c} : /\ (Polling(d))' <=> Polling(d)
                            /\ (Unit(d))' = Unit(d) /\ (Kind(d))' = Kind(d)
  BY DEF Others, Polling, Unit, Kind
<1>2. \A d \in CPUs \ {c}, u \in UnitIds :
        (Posted(d, u))' = Posted(d, u) /\ (Taken(d, u))' = Taken(d, u)
  BY <1>1 DEF Posted, Taken
<1>3. Working'
  <2> SUFFICES ASSUME NEW u \in UnitIds, ~ Quiet(u)
               PROVE  \E d \in CPUs : /\ (Polling(d))' /\ (Unit(d))' = u
                                      /\ (Posted(d, u))' \/ (Taken(d, u))'
    BY DEF Working, Quiet
  <2>1. PICK d \in CPUs : /\ Polling(d) /\ Unit(d) = u
                          /\ Posted(d, u) \/ Taken(d, u)
    BY DEF QueueInv, Working
  <2>2. d # c
    BY <2>1
  <2> QED
    BY <1>1, <1>2, <2>1, <2>2
<1>4. Writing'
  BY <1>1 DEF QueueInv, Writing, Others
<1>5. Flags'
  <2>1. ~ (Polling(c))'
    BY DEF Polling
  <2>2. ASSUME NEW d \in CPUs, (Polling(d))'
        PROVE  (Posted(d, Unit(d)))' \/ (Taken(d, Unit(d)))'
    <3>1. d # c /\ Polling(d)
      BY <1>1, <2>1, <2>2
    <3>2. at[d] # "idle"
      BY <3>1 DEF Polling
    <3>3. Unit(d) \in UnitIds
      BY <3>2, Running
    <3>4. Posted(d, Unit(d)) \/ Taken(d, Unit(d))
      BY <3>1 DEF QueueInv, Flags
    <3> QED
      BY <1>1, <1>2, <3>1, <3>3, <3>4 DEF Posted, Taken
  <2>3. \A d \in CPUs : at'[d] \in {"lock", "request", "wait", "tail"} => ~ completed'[d]
    BY DEF QueueInv, Flags, Others
  <2> QED
    BY <2>2, <2>3 DEF Flags
<1> QED
  BY <1>3, <1>4, <1>5 DEF Rings

\* While a CPU is inside and does not wait, the units have nothing to do and
\* no other CPU is inside: it may write into the rings as it likes.
LEMMA InsideKeepsRings ==
  ASSUME QueueInv, NEW c \in CPUs, Inside(c), ~ Polling(c), Others(c),
         UNCHANGED <<tail, head, executing>>,
         at'[c] \in {"wait", "tail"}, ~ completed'[c],
         (slot[Unit(c)][tail[Unit(c)]] = Inv(c, Kind(c)))',
         at'[c] = "wait" => (index[c] = Step(tail[Unit(c)]))',
         at'[c] = "tail" => (/\ index[c] = Step(Step(tail[Unit(c)]))
                             /\ slot[Unit(c)][Step(tail[Unit(c)])] = Wait(c))'
  PROVE  Rings'
<1>1. \A d \in CPUs \ {c} : ~ Inside(d)
  BY OneInside
<1>2. Working'
  BY InsideQuiet DEF Working, Quiet
<1>3. Writing'
  BY <1>1 DEF Writing, Others, Inside
<1>4. Flags'
  BY <1>1 DEF QueueInv, Flags, Others, Inside, Polling
<1> QED
  BY <1>2, <1>3, <1>4 DEF Rings

LEMMA RequestKeepsRings ==
  ASSUME QueueInv, NEW c \in CPUs, WriteRequest(c)
  PROVE  Rings'
<1> DEFINE u == Unit(c)
<1>1. /\ at[c] = "request" /\ at'[c] = "wait" /\ Others(c)
      /\ todo' = todo /\ completed' = completed
      /\ index'[c] = Step(tail[u])
      /\ slot' = [slot EXCEPT ![u][tail[u]] = Inv(c, Kind(c))]
      /\ UNCHANGED <<tail, head, executing>>
  BY RequestFacts
<1>2. u \in UnitIds /\ tail[u] \in Index /\ (Unit(c))' = u /\ (Kind(c))' = Kind(c)
  BY <1>1, Running DEF QueueInv, QueueTypeOK, Unit, Kind
<1>3. slot'[u][tail[u]] = Inv(c, Kind(c))
  BY <1>1, <1>2 DEF QueueInv, QueueTypeOK
<1>4. ~ completed'[c]
  BY <1>1 DEF QueueInv, Flags
<1>5. Inside(c) /\ ~ Polling(c)
  BY <1>1 DEF Inside, Polling
<1> QED
  BY <1>1, <1>2, <1>3, <1>4, <1>5, InsideKeepsRings

LEMMA WaitKeepsRings ==
  ASSUME QueueInv, NEW c \in CPUs, WriteWait(c)
  PROVE  Rings'
<1> DEFINE u == Unit(c)
<1>1. /\ at[c] = "wait" /\ at'[c] = "tail" /\ Others(c)
      /\ todo' = todo /\ completed' = completed
      /\ index'[c] = Step(index[c])
      /\ slot' = [slot EXCEPT ![u][index[c]] = Wait(c)]
      /\ UNCHANGED <<tail, head, executing>>
  BY WaitFacts
<1>2. u \in UnitIds /\ tail[u] \in Index /\ (Unit(c))' = u /\ (Kind(c))' = Kind(c)
  BY <1>1, Running DEF QueueInv, QueueTypeOK, Unit, Kind
<1>3. /\ index[c] = Step(tail[u]) /\ slot[u][tail[u]] = Inv(c, Kind(c))
      /\ ~ completed'[c]
  BY <1>1 DEF QueueInv, Flags, Writing
<1>4. Step(tail[u]) \in Index /\ Step(tail[u]) # tail[u]
  BY <1>2, StepFacts
<1>5. slot'[u][tail[u]] = Inv(c, Kind(c)) /\ slot'[u][Step(tail[u])] = Wait(c)
  BY <1>1, <1>2, <1>3, <1>4 DEF QueueInv, QueueTypeOK
<1>6. Inside(c) /\ ~ Polling(c)
  BY <1>1 DEF Inside, Polling
<1> QED
  BY <1>1, <1>2, <1>3, <1>5, <1>6, InsideKeepsRings DEF Wait

\* The tail moves behind both descriptors in one store: from now on the unit
\* has the CPU's request.
LEMMA TailKeepsRings ==
  ASSUME QueueInv, NEW c \in CPUs, WriteTail(c)
  PROVE  Rings'
<1> DEFINE u == Unit(c)
<1>1. /\ at[c] = "tail" /\ at'[c] = "poll" /\ Others(c)
      /\ todo' = todo /\ completed' = completed
      /\ tail' = [tail EXCEPT ![u] = index[c]]
      /\ UNCHANGED <<slot, head, executing>>
  BY TailFacts
<1>2. u \in UnitIds /\ (Unit(c))' = u /\ (Kind(c))' = Kind(c)
  BY <1>1, Running DEF Unit, Kind
<1>3. /\ slot[u][tail[u]] = Inv(c, Kind(c))
      /\ index[c] = Step(Step(tail[u])) /\ slot[u][Step(tail[u])] = Wait(c)
      /\ ~ completed[c]
  BY <1>1 DEF QueueInv, Flags, Writing
<1>4. Inside(c) /\ ~ Polling(c)
  BY <1>1 DEF Inside, Polling
<1>5. \A v \in UnitIds : Quiet(v)
  BY <1>4, InsideQuiet
<1>6. \A d \in CPUs \ {c} : ~ Inside(d)
  BY <1>4, OneInside
<1>7. tail'[u] = index[c] /\ \A v \in UnitIds \ {u} : tail'[v] = tail[v]
  BY <1>1, <1>2 DEF QueueInv, QueueTypeOK
<1>8. (Posted(c, u))'
  BY <1>1, <1>2, <1>3, <1>5, <1>7 DEF Posted, Quiet
<1>9. (Polling(c))'
  BY <1>1, <1>3 DEF Polling
<1>10. Working'
  <2> SUFFICES ASSUME NEW v \in UnitIds
               PROVE  \/ (Quiet(v))'
                      \/ \E d \in CPUs : /\ (Polling(d))' /\ (Unit(d))' = v
                                         /\ (Posted(d, v))' \/ (Taken(d, v))'
    BY DEF Working
  <2>1. CASE v = u
    BY <1>2, <1>8, <1>9, <2>1
  <2>2. CASE v # u
    BY <1>1, <1>5, <1>7, <2>2 DEF Quiet
  <2> QED
    BY <2>1, <2>2
<1>11. Writing'
  BY <1>1, <1>6 DEF Writing, Others, Inside
<1>12. Flags'
  <2>1. \A d \in CPUs : at'[d] \in {"lock", "request", "wait", "tail"} => ~ completed'[d]
    BY <1>1 DEF QueueInv, Flags, Others
  <2>2. \A d \in CPUs : (Polling(d))' => d = c
    BY <1>1, <1>6 DEF Polling, Others, Inside
  <2> QED
    BY <1>2, <1>8, <2>1, <2>2 DEF Flags, Posted, Taken
<1> QED
  BY <1>10, <1>11, <1>12 DEF Rings

\* A unit that works, works for one CPU, which polls.
LEMMA WorksForOne ==
  ASSUME QueueInv, NEW u \in UnitIds, ~ Quiet(u)
  PROVE  \E c \in CPUs :
           /\ Polling(c) /\ Unit(c) = u /\ u \in UnitIds
           /\ Posted(c, u) \/ Taken(c, u)
           /\ \A d \in CPUs \ {c} : ~ Inside(d)
           /\ \A v \in UnitIds \ {u} : Quiet(v)
<1>1. PICK c \in CPUs : Polling(c) /\ Unit(c) = u /\ (Posted(c, u) \/ Taken(c, u))
  BY DEF QueueInv, Working
<1>2. Inside(c) /\ \A d \in CPUs : Polling(d) => Inside(d)
  BY <1>1 DEF Polling, Inside
<1>3. \A d \in CPUs \ {c} : ~ Inside(d)
  BY <1>2, OneInside
<1>4. \A v \in UnitIds \ {u} : Quiet(v)
  BY <1>1, <1>2, <1>3 DEF QueueInv, Working
<1> QED
  BY <1>1, <1>3, <1>4

\* What a fetch is: of the request, or, when that is done, of the wait
\* descriptor behind it.
FetchesRequest(c, u) ==
  /\ Posted(c, u) /\ executing' = [executing EXCEPT ![u] = {Inv(c, Kind(c))}]
  /\ completed' = completed

FetchesWait(c, u) ==
  /\ Taken(c, u) /\ executing[u] = {} /\ executing' = executing
  /\ completed' = [completed EXCEPT ![c] = TRUE]

LEMMA FetchFacts ==
  ASSUME QueueInv, NEW u \in UnitIds, Fetch(u)
  PROVE  /\ \E c \in CPUs :
              /\ Polling(c) /\ Unit(c) = u
              /\ \A d \in CPUs \ {c} : ~ Inside(d)
              /\ \A v \in UnitIds \ {u} : Quiet(v)
              /\ FetchesRequest(c, u) \/ FetchesWait(c, u)
         /\ head' = [head EXCEPT ![u] = Step(@)]
         /\ UNCHANGED <<lk, at, todo, index, slot, tail, stale>>
<1>1. ~ Quiet(u)
  BY DEF Fetch, Quiet
<1>2. PICK c \in CPUs :
        /\ Polling(c) /\ Unit(c) = u
        /\ Posted(c, u) \/ Taken(c, u)
        /\ \A d \in CPUs \ {c} : ~ Inside(d)
        /\ \A v \in UnitIds \ {u} : Quiet(v)
  BY <1>1, WorksForOne
<1> DEFINE entry == slot[u][head[u]]
<1>3. \/ /\ entry.type = "inv"
         /\ executing' = [executing EXCEPT ![u] = @ \cup {entry}]
         /\ completed' = completed
      \/ /\ entry.type = "wait"
         /\ executing[u] = {}
         /\ completed' = [completed EXCEPT ![entry.cpu] = TRUE]
         /\ executing' = executing
  BY DEF Fetch
<1>4. CASE Posted(c, u)
  <2>1. entry = Inv(c, Kind(c)) /\ executing[u] = {}
    BY <1>4 DEF Posted
  <2>2. entry.type = "inv"
    BY <2>1 DEF Inv
  <2>3. executing' = [executing EXCEPT ![u] = {Inv(c, Kind(c))}]
    BY <1>3, <2>1, <2>2
  <2> QED
    BY <1>2, <1>3, <1>4, <2>2, <2>3 DEF Fetch, FetchesRequest, lockVars, ringVars
<1>5. CASE Taken(c, u)
  <2>1. entry = Wait(c)
    BY <1>5 DEF Taken
  <2>2. entry.type = "wait" /\ entry.cpu = c
    BY <2>1 DEF Wait
  <2> QED
    BY <1>2, <1>3, <1>5, <2>2 DEF Fetch, FetchesWait, lockVars, ringVars
<1> QED
  BY <1>2, <1>4, <1>5

LEMMA FetchKeepsRings ==
  ASSUME QueueInv, NEW u \in UnitIds, Fetch(u)
  PROVE  Rings'
<1>1. PICK c \in CPUs :
        /\ Polling(c) /\ Unit(c) = u
        /\ \A d \in CPUs \ {c} : ~ Inside(d)
        /\ \A v \in UnitIds \ {u} : Quiet(v)
        /\ FetchesRequest(c, u) \/ FetchesWait(c, u)
  BY FetchFacts
<1>2. /\ head' = [head EXCEPT ![u] = Step(@)]
      /\ UNCHANGED <<at, todo, index, slot, tail>>
  BY FetchFacts
<1>3. head'[u] = Step(head[u]) /\ \A v \in UnitIds \ {u} : head'[v] = head[v]
  BY <1>2 DEF QueueInv, QueueTypeOK
<1>4. \A v \in UnitIds \ {u} : executing'[v] = executing[v]
  BY <1>1 DEF FetchesRequest, FetchesWait, QueueInv, QueueTypeOK
<1>5. \A v \in UnitIds \ {u} : (Quiet(v))'
  BY <1>1, <1>2, <1>3, <1>4 DEF Quiet
<1>6. \A d \in CPUs : (Unit(d))' = Unit(d) /\ (Kind(d))' = Kind(d)
  BY <1>2 DEF Unit, Kind
<1>7. Writing'
  BY <1>2, <1>6 DEF QueueInv, Writing
<1>8. \A d \in CPUs : at[d] \in {"lock", "request", "wait", "tail"} => d # c
  BY <1>1 DEF Polling
<1>9. \A d \in CPUs : (Polling(d))' => d = c
  BY <1>1, <1>2 DEF Polling, Inside
<1>10. CASE FetchesRequest(c, u)
  <2>1. (Taken(c, u))'
    <3>1. executing'[u] = {Inv(c, Kind(c))}
      BY <1>10 DEF FetchesRequest, QueueInv, QueueTypeOK
    <3> QED
      BY <1>2, <1>3, <1>6, <1>10, <3>1 DEF FetchesRequest, Posted, Taken
  <2>2. (Polling(c))'
    BY <1>1, <1>2, <1>10 DEF FetchesRequest, Polling
  <2>3. Working'
    BY <1>1, <1>5, <1>6, <2>1, <2>2 DEF Working
  <2>4. Flags'
    BY <1>1, <1>2, <1>6, <1>9, <1>10, <2>1 DEF QueueInv, Flags, FetchesRequest
  <2> QED
    BY <1>7, <2>3, <2>4 DEF Rings
<1>11. CASE FetchesWait(c, u)
  <2>1. (Quiet(u))'
    BY <1>2, <1>3, <1>11 DEF FetchesWait, Taken, Quiet
  <2>2. Working'
    BY <1>5, <2>1 DEF Working
  <2>3. completed'[c] /\ \A d \in CPUs \ {c} : completed'[d] = completed[d]
    BY <1>11 DEF FetchesWait, QueueInv, QueueTypeOK
  <2>4. \A d \in CPUs : ~ (Polling(d))'
    BY <1>9, <2>3 DEF Polling
  <2>5. Flags'
    BY <1>2, <1>8, <2>3, <2>4 DEF QueueInv, Flags
  <2> QED
    BY <1>7, <2>2, <2>5 DEF Rings
<1> QED
  BY <1>1, <1>10, <1>11

\* What a unit can be executing is the invalidation of the CPU that polls.
LEMMA ExecuteFacts ==
  ASSUME QueueInv, NEW u \in UnitIds, Execute(u)
  PROVE  /\ \E c \in CPUs :
              /\ Polling(c) /\ Unit(c) = u
              /\ \A d \in CPUs \ {c} : ~ Inside(d)
              /\ \A v \in UnitIds \ {u} : Quiet(v)
              /\ Taken(c, u) /\ executing[u] # {}
              /\ stale' = [stale EXCEPT ![u] = @ \ {<<c, Kind(c)>>}]
         /\ executing' = [executing EXCEPT ![u] = {}]
         /\ UNCHANGED <<lk, at, todo, index, completed, slot, tail, head>>
<1>1. PICK entry \in executing[u] :
        /\ executing' = [executing EXCEPT ![u] = @ \ {entry}]
        /\ stale' = [stale EXCEPT ![u] = @ \ {<<entry.cpu, entry.kind>>}]
        /\ UNCHANGED <<lk, at, todo, index, completed, slot, tail, head>>
  BY DEF Execute, lockVars, ringVars
<1>2. ~ Quiet(u)
  BY <1>1 DEF Quiet
<1>3. PICK c \in CPUs :
        /\ Polling(c) /\ Unit(c) = u
        /\ Posted(c, u) \/ Taken(c, u)
        /\ \A d \in CPUs \ {c} : ~ Inside(d)
        /\ \A v \in UnitIds \ {u} : Quiet(v)
  BY <1>2, WorksForOne
<1>4. Taken(c, u)
  BY <1>1, <1>3 DEF Posted
<1>5. entry = Inv(c, Kind(c)) /\ executing[u] \ {entry} = {}
  BY <1>1, <1>4 DEF Taken
<1>6. entry.cpu = c /\ entry.kind = Kind(c)
  BY <1>5 DEF Inv
<1>7. executing' = [executing EXCEPT ![u] = {}]
  BY <1>1, <1>5
<1> QED
  BY <1>1, <1>3, <1>4, <1>6, <1>7

LEMMA ExecuteKeepsRings ==
  ASSUME QueueInv, NEW u \in UnitIds, Execute(u)
  PROVE  Rings'
<1>1. PICK c \in CPUs :
        /\ Polling(c) /\ Unit(c) = u
        /\ \A d \in CPUs \ {c} : ~ Inside(d)
        /\ \A v \in UnitIds \ {u} : Quiet(v)
        /\ Taken(c, u)
  BY ExecuteFacts
<1>2. /\ executing' = [executing EXCEPT ![u] = {}]
      /\ UNCHANGED <<at, todo, index, completed, slot, tail, head>>
  BY ExecuteFacts
<1>3. executing'[u] = {} /\ \A v \in UnitIds \ {u} : executing'[v] = executing[v]
  BY <1>2 DEF QueueInv, QueueTypeOK
<1>4. \A d \in CPUs : /\ (Unit(d))' = Unit(d) /\ (Kind(d))' = Kind(d)
                      /\ (Polling(d))' <=> Polling(d)
  BY <1>2 DEF Unit, Kind, Polling
<1>5. (Taken(c, u))'
  BY <1>1, <1>2, <1>3, <1>4 DEF Taken
<1>6. \A v \in UnitIds \ {u} : (Quiet(v))'
  BY <1>1, <1>2, <1>3 DEF Quiet
<1>7. Working'
  BY <1>1, <1>4, <1>5, <1>6 DEF Working
<1>8. Writing'
  BY <1>2, <1>4 DEF QueueInv, Writing
<1>9. \A d \in CPUs : Polling(d) => d = c
  BY <1>1 DEF Polling, Inside
<1>10. Flags'
  BY <1>1, <1>2, <1>4, <1>5, <1>9 DEF QueueInv, Flags
<1> QED
  BY <1>7, <1>8, <1>10 DEF Rings

LEMMA RingsKept ==
  ASSUME QueueInv, [QueueNext]_vars
  PROVE  Rings'
<1>1. ASSUME NEW c \in CPUs, Begin(c) PROVE Rings'
  <2>1. ~ Polling(c)
    BY <1>1, BeginFacts DEF Polling
  <2> QED
    BY <1>1, <2>1, BeginFacts, ElsewhereKeepsRings
<1>2. ASSUME NEW c \in CPUs, ClearCompleted(c) PROVE Rings'
  <2>1. ~ Polling(c)
    BY <1>2, ClearFacts DEF Polling
  <2> QED
    BY <1>2, <2>1, ClearFacts, ElsewhereKeepsRings
<1>3. ASSUME NEW c \in CPUs, Lock(c) PROVE Rings'
  <2>1. /\ at[c] = "lock" /\ at'[c] \in {"lock", "request"}
        /\ Others(c) /\ completed' = completed
        /\ UNCHANGED <<slot, tail, head, executing>>
    BY <1>3, LockFacts
  <2>2. ~ Polling(c) /\ ~ completed'[c]
    BY <2>1 DEF Polling, QueueInv, Flags
  <2> QED
    BY <2>1, <2>2, ElsewhereKeepsRings
<1>4. ASSUME NEW c \in CPUs, Poll(c) PROVE Rings'
  <2>1. ~ Polling(c)
    BY <1>4, PollFacts DEF Polling
  <2> QED
    BY <1>4, <2>1, PollFacts, ElsewhereKeepsRings
<1>5. ASSUME NEW c \in CPUs, Unlock(c) PROVE Rings'
  <2>1. ~ Polling(c) /\ at'[c] \in {"unlock", "idle", "clear"}
    BY <1>5, UnlockFacts DEF Polling
  <2> QED
    BY <1>5, <2>1, UnlockFacts, ElsewhereKeepsRings
<1>6. ASSUME UNCHANGED <<at, todo, index, completed, slot, tail, head, executing>>
      PROVE  Rings'
  BY <1>6 DEF QueueInv, Rings, Working, Writing, Flags, Quiet, Polling, Posted, Taken,
              Unit, Kind
<1>7. ASSUME NEW u \in UnitIds, Refill(u) PROVE Rings'
  BY <1>6, <1>7 DEF Refill, ringVars
<1>8. CASE UNCHANGED vars
  BY <1>6, <1>8 DEF vars, ringVars, unitVars
<1> QED
  BY <1>1, <1>2, <1>3, <1>4, <1>5, <1>7, <1>8, RequestKeepsRings, WaitKeepsRings,
     TailKeepsRings, FetchKeepsRings, ExecuteKeepsRings DEF QueueNext, Submit

-----------------------------------------------------------------------------
(* What is still to be flushed                                             *)

\* A step that neither changes a CPU's list nor leaves anything new in the
\* caches, and does not count its invalidation as carried out when it is not.
LEMMA OutstandingFrame ==
  ASSUME NEW d \in CPUs, OutstandingOf(d), todo'[d] = todo[d],
         at'[d] = "idle" <=> at[d] = "idle",
         \A u \in UnitIds, kind \in Kinds :
           <<d, kind>> \in stale'[u] => <<d, kind>> \in stale[u],
         (Executed(d))' => Executed(d)
  PROVE  (OutstandingOf(d))'
BY DEF OutstandingOf

\* A CPU that is not inside has nothing carried out.
LEMMA OutsideNotExecuted ==
  ASSUME NEW d \in CPUs, ~ Inside(d), at'[d] = at[d]
  PROVE  ~ (Executed(d))'
BY DEF Inside, Executed

\* Nothing of a CPU that is not inside changes but by the CPU itself.
LEMMA OthersOutstanding ==
  ASSUME QueueInv, NEW c \in CPUs, Others(c),
         UNCHANGED <<slot, tail, head, executing>>,
         \A d \in CPUs \ {c}, u \in UnitIds, kind \in Kinds :
           <<d, kind>> \in stale'[u] => <<d, kind>> \in stale[u]
  PROVE  \A d \in CPUs \ {c} : (OutstandingOf(d))'
<1> SUFFICES ASSUME NEW d \in CPUs \ {c} PROVE (OutstandingOf(d))'
  OBVIOUS
<1>1. at'[d] = at[d] /\ todo'[d] = todo[d] /\ completed'[d] = completed[d]
  BY DEF Others
<1>2. (Unit(d))' = Unit(d) /\ (Kind(d))' = Kind(d)
  BY <1>1 DEF Unit, Kind
<1>3. (Executed(d))' => Executed(d)
  BY <1>1, <1>2 DEF Executed, Taken
<1>4. OutstandingOf(d)
  BY DEF QueueInv, Outstanding
<1> QED
  BY <1>1, <1>3, <1>4, OutstandingFrame

\* vtd_flush_domain_caches starts: whatever becomes stale is on the list.
LEMMA BeginOutstanding ==
  ASSUME QueueInv, NEW c \in CPUs, Begin(c)
  PROVE  Outstanding'
<1>1. PICK job \in Jobs :
        /\ todo' = [todo EXCEPT ![c] = Submissions(job)]
        /\ stale' = [u \in UnitIds |->
                       stale[u] \cup {<<c, kind>> : kind \in Range(Program(job))}]
  BY DEF Begin
<1>2. /\ at[c] = "idle" /\ at'[c] = "clear" /\ Others(c)
      /\ UNCHANGED <<slot, tail, head, executing>>
  BY BeginFacts
<1> DEFINE s == Submissions(job)
<1>3. /\ s \in Seq([unit : UnitIds, kind : Kinds]) /\ s # <<>>
      /\ \A u \in UnitIds, kind \in Range(Program(job)) :
           \E i \in 1 .. Len(s) : s[i] = [unit |-> u, kind |-> kind]
      /\ \A i \in 1 .. Len(s) :
           s[i].kind = "context" =>
             \E j \in i + 1 .. Len(s) : s[j] = [unit |-> s[i].unit, kind |-> "iotlb"]
  BY SubmissionFacts
<1>4. todo'[c] = s
  BY <1>1 DEF QueueInv, QueueTypeOK
<1>5. \A u \in UnitIds, kind \in Kinds : <<c, kind>> \notin stale[u]
  <2>1. OutstandingOf(c) /\ todo[c] = <<>>
    BY <1>2 DEF QueueInv, Outstanding, OutstandingOf
  <2>2. Len(todo[c]) = 0
    BY <2>1, EmptySeq
  <2>3. 1 .. Len(todo[c]) = {}
    BY <2>2
  <2> QED
    BY <2>1, <2>3 DEF OutstandingOf
<1>6. ASSUME NEW u \in UnitIds, NEW kind \in Kinds, <<c, kind>> \in stale'[u]
      PROVE  kind \in Range(Program(job))
  BY <1>1, <1>5, <1>6
<1>7. ~ (Executed(c))'
  BY <1>2 DEF Executed
<1>8. (OutstandingOf(c))'
  BY <1>2, <1>3, <1>4, <1>6, <1>7 DEF OutstandingOf
<1>9. \A d \in CPUs \ {c}, u \in UnitIds, kind \in Kinds :
        <<d, kind>> \in stale'[u] => <<d, kind>> \in stale[u]
  BY <1>1
<1> QED
  BY <1>2, <1>8, <1>9, OthersOutstanding DEF Outstanding

\* The statements before the tail is written count nothing as carried out.
LEMMA BeforeOutstanding ==
  ASSUME QueueInv, NEW c \in CPUs,
         ClearCompleted(c) \/ Lock(c) \/ WriteRequest(c) \/ WriteWait(c)
  PROVE  Outstanding'
<1>1. /\ at[c] # "idle" /\ at'[c] \in {"lock", "request", "wait", "tail"}
      /\ Others(c) /\ todo' = todo
      /\ UNCHANGED <<tail, head, executing, stale>>
  BY ClearFacts, LockFacts, RequestFacts, WaitFacts
<1>2. \/ UNCHANGED slot
      \/ Inside(c) /\ ~ Polling(c)
  BY ClearFacts, LockFacts, RequestFacts, WaitFacts DEF Inside, Polling
<1>3. ~ (Executed(c))'
  BY <1>1 DEF Executed
<1>4. OutstandingOf(c)
  BY DEF QueueInv, Outstanding
<1>5. (OutstandingOf(c))'
  BY <1>1, <1>3, <1>4, OutstandingFrame
<1>6. \A d \in CPUs \ {c} : (OutstandingOf(d))'
  <2>1. CASE UNCHANGED slot
    BY <1>1, <2>1, OthersOutstanding
  <2>2. CASE Inside(c)
    <3> SUFFICES ASSUME NEW d \in CPUs \ {c} PROVE (OutstandingOf(d))'
      OBVIOUS
    <3>1. ~ Inside(d) /\ at'[d] = at[d]
      BY <1>1, <2>2, OneInside DEF Others
    <3>2. ~ (Executed(d))'
      BY <3>1, OutsideNotExecuted
    <3>3. OutstandingOf(d)
      BY DEF QueueInv, Outstanding
    <3> QED
      BY <1>1, <3>1, <3>2, <3>3, OutstandingFrame
  <2> QED
    BY <1>2, <2>1, <2>2
<1> QED
  BY <1>5, <1>6 DEF Outstanding

LEMMA TailOutstanding ==
  ASSUME QueueInv, NEW c \in CPUs, WriteTail(c)
  PROVE  Outstanding'
<1> DEFINE u == Unit(c)
<1>1. /\ at[c] = "tail" /\ at'[c] = "poll" /\ Others(c)
      /\ todo' = todo /\ completed' = completed
      /\ UNCHANGED <<slot, head, executing, stale>>
  BY TailFacts
<1>2. (Unit(c))' = u /\ (Kind(c))' = Kind(c) /\ u \in UnitIds
  BY <1>1, Running DEF Unit, Kind
<1>3. Inside(c) /\ ~ Polling(c)
  BY <1>1 DEF Inside, Polling
<1>4. slot[u][head[u]] = Inv(c, Kind(c)) /\ ~ completed[c]
  <2>1. Quiet(u)
    BY <1>2, <1>3, InsideQuiet
  <2> QED
    BY <1>1, <2>1 DEF Quiet, QueueInv, Writing, Flags
<1>5. Inv(c, Kind(c)) # Wait(c)
  <2>1. Inv(c, Kind(c)).type = "inv" /\ Wait(c).type = "wait"
    BY DEF Inv, Wait
  <2> QED
    BY <2>1
<1>6. ~ (Executed(c))'
  BY <1>1, <1>2, <1>4, <1>5 DEF Executed, Taken
<1>7. \A d \in CPUs \ {c} : ~ (Executed(d))'
  BY <1>1, <1>3, OneInside, OutsideNotExecuted DEF Others
<1>8. \A d \in CPUs : /\ OutstandingOf(d) /\ todo'[d] = todo[d]
                      /\ at'[d] = "idle" <=> at[d] = "idle"
  BY <1>1 DEF QueueInv, Outstanding, Others
<1> QED
  BY <1>1, <1>6, <1>7, <1>8, OutstandingFrame DEF Outstanding

\* The flag is set only when the invalidation has been carried out.
LEMMA PollOutstanding ==
  ASSUME QueueInv, NEW c \in CPUs, Poll(c)
  PROVE  Outstanding'
<1>1. /\ at[c] = "poll" /\ completed[c] /\ at'[c] = "unlock"
      /\ Others(c) /\ todo' = todo
      /\ UNCHANGED <<slot, tail, head, executing, stale>>
  BY PollFacts
<1>2. Inside(c) /\ ~ Polling(c) /\ Unit(c) \in UnitIds
  BY <1>1, Running DEF Inside, Polling
<1>3. Executed(c)
  BY <1>1, <1>2, InsideQuiet DEF Executed, Quiet
<1>4. OutstandingOf(c)
  BY DEF QueueInv, Outstanding
<1>5. (OutstandingOf(c))'
  BY <1>1, <1>3, <1>4, OutstandingFrame
<1> QED
  BY <1>1, <1>5, OthersOutstanding DEF Outstanding

\* The flush goes on with the next submission: this one is carried out, and so
\* what is left stale is further down the list.
LEMMA UnlockOutstanding ==
  ASSUME QueueInv, NEW c \in CPUs, Unlock(c)
  PROVE  Outstanding'
<1> DEFINE s == todo[c]
           S == [unit : UnitIds, kind : Kinds]
<1>1. /\ at[c] = "unlock" /\ Others(c)
      /\ UNCHANGED <<slot, tail, head, executing, stale>>
  BY UnlockFacts
<1>2. Executed(c) /\ OutstandingOf(c)
  BY <1>1 DEF Executed, QueueInv, Outstanding
<1>3. CASE at'[c] = "unlock" /\ todo' = todo
  <2>1. (OutstandingOf(c))'
    BY <1>1, <1>2, <1>3, OutstandingFrame
  <2> QED
    BY <1>1, <2>1, OthersOutstanding DEF Outstanding
<1>4. CASE todo'[c] = Tail(s) /\ at'[c] = IF Len(s) = 1 THEN "idle" ELSE "clear"
  <2>1. s \in Seq(S) /\ s # <<>> /\ Len(s) \in Nat \ {0}
    BY <1>1, Running
  <2> DEFINE t == Tail(s)
             n == Len(s)
  <2>2. t \in Seq(S) /\ Len(t) = n - 1 /\ \A i \in 1 .. n - 1 : t[i] = s[i + 1]
    BY <2>1, HeadTailProperties
  <2>3. t = <<>> <=> n = 1
    <3> HIDE DEF t
    <3>1. t = <<>> => Len(t) = 0
      BY EmptySeq
    <3>2. t # <<>> => Len(t) \in Nat \ {0}
      BY <2>2, EmptySeq
    <3> QED
      BY <2>1, <2>2, <3>1, <3>2
  <2>4. \A u \in UnitIds, kind \in Kinds :
          <<c, kind>> \in stale[u] =>
            \E i \in 1 .. n : s[i] = [unit |-> u, kind |-> kind] /\ i # 1
    BY <1>2 DEF OutstandingOf
  <2>5. \A i \in 1 .. n :
          s[i].kind = "context" =>
            \E j \in i + 1 .. n : s[j] = [unit |-> s[i].unit, kind |-> "iotlb"]
    BY <1>2 DEF OutstandingOf
  <2>6. n \in Nat \ {0}
    BY <2>1
  <2> HIDE DEF s, t, n
  <2>7. ASSUME NEW u \in UnitIds, NEW kind \in Kinds, <<c, kind>> \in stale[u]
        PROVE  \E i \in 1 .. n - 1 : t[i] = [unit |-> u, kind |-> kind]
    <3>1. PICK i \in 1 .. n : s[i] = [unit |-> u, kind |-> kind] /\ i # 1
      BY <2>4, <2>7
    <3>2. i - 1 \in 1 .. n - 1 /\ (i - 1) + 1 = i
      BY <2>6, <3>1
    <3> QED
      BY <2>2, <3>1, <3>2
  <2>8. ASSUME NEW i \in 1 .. n - 1, t[i].kind = "context"
        PROVE  \E j \in i + 1 .. n - 1 : t[j] = [unit |-> t[i].unit, kind |-> "iotlb"]
    <3>1. i + 1 \in 1 .. n /\ t[i] = s[i + 1]
      BY <2>2, <2>6
    <3>2. PICK k \in (i + 1) + 1 .. n : s[k] = [unit |-> s[i + 1].unit, kind |-> "iotlb"]
      BY <2>5, <2>8, <3>1
    <3>3. k - 1 \in i + 1 .. n - 1 /\ k - 1 \in 1 .. n - 1 /\ (k - 1) + 1 = k
      BY <2>6, <3>2
    <3> QED
      BY <2>2, <3>1, <3>2, <3>3
  <2>9. ~ (Executed(c))' /\ stale' = stale /\ todo'[c] = t /\ Len(t) = n - 1
    BY <1>1, <1>4, <2>2 DEF Executed, s, t, n
  <2>10. t = <<>> <=> at'[c] = "idle"
    BY <1>4, <2>3 DEF s, n
  <2>11. (OutstandingOf(c))'
    BY <2>7, <2>8, <2>9, <2>10 DEF OutstandingOf
  <2> QED
    BY <1>1, <2>11, OthersOutstanding DEF Outstanding
<1> QED
  BY <1>3, <1>4, UnlockFacts

LEMMA FetchOutstanding ==
  ASSUME QueueInv, NEW u \in UnitIds, Fetch(u)
  PROVE  Outstanding'
<1>1. PICK c \in CPUs :
        /\ Polling(c) /\ Unit(c) = u
        /\ \A d \in CPUs \ {c} : ~ Inside(d)
        /\ FetchesRequest(c, u) \/ FetchesWait(c, u)
  BY FetchFacts
<1>2. UNCHANGED <<at, todo, stale>>
  BY FetchFacts
<1>3. \A d \in CPUs \ {c} : ~ (Executed(d))'
  BY <1>1, <1>2, OutsideNotExecuted
<1>4. (Executed(c))' => Executed(c)
  <2>1. CASE FetchesRequest(c, u)
    <3>1. executing'[u] # {} /\ (Unit(c))' = u /\ at'[c] = "poll"
      BY <1>1, <1>2, <2>1 DEF FetchesRequest, QueueInv, QueueTypeOK, Unit, Polling
    <3> QED
      BY <3>1 DEF Executed
  <2>2. CASE FetchesWait(c, u)
    BY <1>1, <2>2 DEF FetchesWait, Executed, Polling
  <2> QED
    BY <1>1, <2>1, <2>2
<1>5. \A d \in CPUs : OutstandingOf(d)
  BY DEF QueueInv, Outstanding
<1> QED
  BY <1>2, <1>3, <1>4, <1>5, OutstandingFrame DEF Outstanding

\* The unit drops what the first submission of the polling CPU names.
LEMMA ExecuteOutstanding ==
  ASSUME QueueInv, NEW u \in UnitIds, Execute(u)
  PROVE  Outstanding'
<1>1. PICK c \in CPUs :
        /\ Polling(c) /\ Unit(c) = u
        /\ \A d \in CPUs \ {c} : ~ Inside(d)
        /\ stale' = [stale EXCEPT ![u] = @ \ {<<c, Kind(c)>>}]
  BY ExecuteFacts
<1>2. UNCHANGED <<at, todo>>
  BY ExecuteFacts
<1>3. stale'[u] = stale[u] \ {<<c, Kind(c)>>}
      /\ \A v \in UnitIds : stale'[v] \subseteq stale[v]
  BY <1>1 DEF QueueInv, QueueTypeOK
<1>4. \A d \in CPUs \ {c} : ~ (Executed(d))'
  BY <1>1, <1>2, OutsideNotExecuted
<1>5. \A d \in CPUs : OutstandingOf(d)
  BY DEF QueueInv, Outstanding
<1>6. \A d \in CPUs \ {c} : (OutstandingOf(d))'
  BY <1>2, <1>3, <1>4, <1>5, OutstandingFrame
<1>7. todo[c][1] = [unit |-> u, kind |-> Kind(c)]
  BY <1>1, Running DEF Polling
<1>8. ASSUME NEW v \in UnitIds, NEW kind \in Kinds, <<c, kind>> \in stale'[v]
      PROVE  \E i \in 1 .. Len(todo[c]) :
               todo[c][i] = [unit |-> v, kind |-> kind] /\ i # 1
  <2>1. <<c, kind>> \in stale[v] /\ ~ (v = u /\ kind = Kind(c))
    BY <1>3, <1>8
  <2>2. PICK i \in 1 .. Len(todo[c]) : todo[c][i] = [unit |-> v, kind |-> kind]
    BY <1>5, <2>1 DEF OutstandingOf
  <2>3. [unit |-> v, kind |-> kind] # [unit |-> u, kind |-> Kind(c)]
    BY <2>1
  <2> QED
    BY <1>7, <2>2, <2>3
<1>9. (OutstandingOf(c))'
  BY <1>2, <1>5, <1>8 DEF OutstandingOf
<1> QED
  BY <1>6, <1>9 DEF Outstanding

\* A translation that comes back by way of a context entry is still on the
\* list, behind the context entry.
LEMMA RefillOutstanding ==
  ASSUME QueueInv, NEW u \in UnitIds, Refill(u)
  PROVE  Outstanding'
<1>1. PICK c \in CPUs :
        /\ <<c, "context">> \in stale[u]
        /\ stale' = [stale EXCEPT ![u] = @ \cup {<<c, "iotlb">>}]
        /\ UNCHANGED <<at, todo, completed, slot, tail, head, executing>>
  BY DEF Refill, ringVars
<1>2. \A d \in CPUs : OutstandingOf(d) /\ ((Executed(d))' <=> Executed(d))
  BY <1>1 DEF QueueInv, Outstanding, Executed, Taken, Unit, Kind
<1>3. stale'[u] = stale[u] \cup {<<c, "iotlb">>}
      /\ \A v \in UnitIds \ {u} : stale'[v] = stale[v]
  BY <1>1 DEF QueueInv, QueueTypeOK
<1>4. \A d \in CPUs \ {c} : (OutstandingOf(d))'
  BY <1>1, <1>2, <1>3, OutstandingFrame
<1>5. PICK i \in 1 .. Len(todo[c]) : todo[c][i] = [unit |-> u, kind |-> "context"]
  BY <1>1, <1>2 DEF OutstandingOf, Kinds
<1>6. PICK j \in i + 1 .. Len(todo[c]) : todo[c][j] = [unit |-> u, kind |-> "iotlb"]
  BY <1>2, <1>5 DEF OutstandingOf
<1>7. j \in 1 .. Len(todo[c]) /\ j # 1
  <2>1. Len(todo[c]) \in Nat
    BY LenProperties DEF QueueInv, QueueTypeOK
  <2> QED
    BY <1>5, <1>6, <2>1
<1>8. ASSUME NEW v \in UnitIds, NEW kind \in Kinds, <<c, kind>> \in stale'[v]
      PROVE  \E k \in 1 .. Len(todo[c]) : /\ todo[c][k] = [unit |-> v, kind |-> kind]
                                          /\ k = 1 => ~ Executed(c)
  <2>1. CASE <<c, kind>> \in stale[v]
    BY <1>2, <2>1 DEF OutstandingOf
  <2>2. CASE v = u /\ kind = "iotlb"
    BY <1>6, <1>7, <2>2
  <2> QED
    BY <1>3, <1>8, <2>1, <2>2
<1>9. (OutstandingOf(c))'
  <2>1. todo'[c] = todo[c] /\ at'[c] = at[c] /\ ((Executed(c))' <=> Executed(c))
    BY <1>1, <1>2
  <2> QED
    BY <1>2, <1>8, <2>1 DEF OutstandingOf
<1> QED
  BY <1>4, <1>9 DEF Outstanding

LEMMA OutstandingKept ==
  ASSUME QueueInv, [QueueNext]_vars
  PROVE  Outstanding'
<1>1. CASE UNCHANGED vars
  BY <1>1 DEF QueueInv, Outstanding, OutstandingOf, Executed, Taken, Unit, Kind,
              vars, ringVars, unitVars
<1> QED
  BY <1>1, BeginOutstanding, BeforeOutstanding, TailOutstanding, PollOutstanding,
     UnlockOutstanding, FetchOutstanding, ExecuteOutstanding, RefillOutstanding
     DEF QueueNext, Submit

-----------------------------------------------------------------------------
(* The theorems                                                            *)

LEMMA QueueInvInit == QueueInit => QueueInv
<1> SUFFICES ASSUME QueueInit PROVE QueueInv
  OBVIOUS
<1> USE DEF QueueInit
<1>1. LockTypeOK /\ TicketsInWindow
  BY LockInvInit DEF LockInv
<1>2. 0 \in Index
  BY QueueAssumption DEF Index
<1>3. QueueTypeOK
  BY <1>1, <1>2, EmptySeq DEF QueueTypeOK
<1>4. Places
  BY DEF Places, LockInit
<1>5. Working /\ Writing /\ Flags
  BY DEF Working, Quiet, Writing, Flags, Polling
<1>6. Outstanding
  <2>1. 1 .. Len(<<>>) = {}
    BY EmptySeq
  <2> QED
    BY <2>1 DEF Outstanding, OutstandingOf
<1> QED
  BY <1>1, <1>3, <1>4, <1>5, <1>6 DEF QueueInv

LEMMA QueueInvStep ==
  ASSUME QueueInv, [QueueNext]_vars
  PROVE  QueueInv'
BY LockKept, TypeKept, PlacesKept, RingsKept, OutstandingKept DEF QueueInv, Rings

LEMMA SpecQueueInv == QueueSpec => []QueueInv
BY QueueInvInit, QueueInvStep, PTL DEF QueueSpec

\* The rings, the flags and what is stale keep their types, for every number
\* of CPUs and units and every length of the rings.
THEOREM QueueTypeCorrect == QueueSpec => []QueueTypeOK
<1>1. QueueInv => QueueTypeOK
  BY DEF QueueInv
<1> QED
  BY <1>1, SpecQueueInv, PTL

\* When vtd_flush_domain_caches or vtd_update_irte returns, no unit caches
\* what the caller had changed before, whatever the other CPUs and the units
\* did meanwhile.
THEOREM FlushIsComplete == QueueSpec => []FlushComplete
<1>1. ASSUME QueueInv PROVE FlushComplete
  <2> SUFFICES ASSUME NEW c \in CPUs, NEW u \in UnitIds, at[c] = "idle",
                      NEW kind \in Kinds, <<c, kind>> \in stale[u]
               PROVE  FALSE
    BY DEF FlushComplete
  <2>1. todo[c] = <<>> /\ OutstandingOf(c)
    BY <1>1 DEF QueueInv, Outstanding, OutstandingOf
  <2>2. 1 .. Len(todo[c]) = {}
    BY <2>1, EmptySeq
  <2> QED
    BY <2>1, <2>2 DEF OutstandingOf
<1> QED
  BY <1>1, SpecQueueInv, PTL

\* No unit works for a CPU that does not wait for it, so the flag that
\* vtd_submit_iq_request polls is never one of an earlier request.
THEOREM CompletionFollowsExecution == QueueSpec => []CompletionAfterExecution
<1>1. ASSUME QueueInv PROVE CompletionAfterExecution
  <2> SUFFICES ASSUME NEW c \in CPUs, NEW u \in UnitIds, completed[c] \/ at[c] # "poll"
               PROVE  /\ \A entry \in executing[u] : entry.cpu # c
                      /\ \A i \in Pending(u) : slot[u][i].cpu # c
    BY DEF CompletionAfterExecution
  <2>1. head[u] \in Index /\ tail[u] \in Index
    BY <1>1 DEF QueueInv, QueueTypeOK
  <2>2. CASE Quiet(u)
    BY <2>1, <2>2, PendingFacts DEF Quiet
  <2>3. CASE ~ Quiet(u)
    <3>1. PICK d \in CPUs : Polling(d) /\ (Posted(d, u) \/ Taken(d, u))
      BY <1>1, <2>3 DEF QueueInv, Working
    <3>2. d # c
      BY <3>1 DEF Polling
    <3>3. Wait(d).cpu = d /\ Inv(d, Kind(d)).cpu = d
      BY DEF Wait, Inv
    <3>4. CASE Posted(d, u)
      BY <2>1, <3>2, <3>3, <3>4, PendingFacts DEF Posted
    <3>5. CASE Taken(d, u)
      BY <2>1, <3>2, <3>3, <3>5, PendingFacts DEF Taken
    <3> QED
      BY <3>1, <3>4, <3>5
  <2> QED
    BY <2>2, <2>3
<1> QED
  BY <1>1, SpecQueueInv, PTL

\* A CPU that is about to write into a ring finds every unit's queue empty.
THEOREM QueuesAreDrained == QueueSpec => []QueuesDrained
<1>1. ASSUME QueueInv PROVE QueuesDrained
  BY <1>1, InsideQuiet DEF QueuesDrained, Inside, Polling, Quiet
<1> QED
  BY <1>1, SpecQueueInv, PTL

=============================================================================
