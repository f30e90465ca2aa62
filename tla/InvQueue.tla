------------------------------ MODULE InvQueue ------------------------------
(***************************************************************************)
(* The VT-d invalidation queues of hypervisor/arch/x86/vtd.c.  CPUs flush  *)
(* the caches of the IOMMU units through vtd_submit_iq_request: one ring   *)
(* per unit in memory, a tail register the CPU moves, a head register the  *)
(* unit moves, one global inv_queue_lock (a TicketLock), and one           *)
(* vtd_iq_completed flag per CPU, which the unit sets when it reaches the  *)
(* CPU's wait descriptor.  The units are external: they fetch descriptors  *)
(* in order, carry out invalidations in their own time, and complete a     *)
(* wait descriptor when every earlier one is done.                         *)
(***************************************************************************)
EXTENDS TicketLock, Functions, Sequences

CONSTANTS
  Units,   \* dmar_units
  QSize,   \* PAGE_SIZE / sizeof(struct vtd_entry)
  Jobs     \* the flushes callers ask for: "domain" and "irte"

ASSUME QueueAssumption ==
  /\ Units \in Nat \ {0}
  /\ QSize \in Nat /\ QSize >= 3
  /\ Jobs \subseteq {"domain", "irte"}

VARIABLES
  at,         \* the statement of vtd_submit_iq_request a CPU is at
  todo,       \* the submissions left in its flush, this one first
  index,      \* its local copy of the tail
  completed,  \* vtd_iq_completed of each CPU
  slot,       \* the rings in memory
  tail, head, \* VTD_IQT_REG and VTD_IQH_REG of each unit
  executing,  \* descriptors a unit has fetched and not finished
  stale       \* <<c, kind>>: the unit may cache what c changed in memory

ringVars == <<slot, tail>>
unitVars == <<head, executing, stale>>
vars == <<lockVars, at, todo, index, completed, ringVars, unitVars>>

UnitIds == 0 .. Units - 1
Index == 0 .. QSize - 1
Kinds == {"context", "iotlb", "int"}

Inv(c, kind) == [type |-> "inv", cpu |-> c, kind |-> kind]
Wait(c) == [type |-> "wait", cpu |-> c, kind |-> "none"]
Requests == {Inv(c, kind) : c \in CPUs, kind \in Kinds}

\* A ring slot nobody has written yet reads as zeros.
Blank == [type |-> "blank"]

\* Slip: flush the IOTLB before the context entries it is filled from.
ProgramSwapped(job) ==
  IF job = "domain" THEN <<"iotlb", "context">> ELSE <<"int">>

\* The invalidations submitted to each unit: by vtd_flush_domain_caches and
\* at the end of vtd_update_irte.
Program(job) == IF job = "domain" THEN <<"context", "iotlb">> ELSE <<"int">>

\* The loop over the units.
Submissions(job) ==
  LET p == Program(job) IN
  [i \in 1 .. Units * Len(p) |-> [unit |-> (i - 1) \div Len(p),
                                  kind |-> p[((i - 1) % Len(p)) + 1]]]

\* Slip: the index runs off the page.
StepNoWrap(i) == i + 1

\* The next index of the ring.
Step(i) == (i + 1) % QSize

QueueInit ==
  /\ LockInit
  /\ at = [c \in CPUs |-> "idle"]
  /\ todo = [c \in CPUs |-> <<>>]
  /\ index = [c \in CPUs |-> 0]
  /\ completed = [c \in CPUs |-> FALSE]
  /\ slot = [u \in UnitIds |-> [i \in Index |-> Blank]]
  /\ tail = [u \in UnitIds |-> 0]
  /\ head = [u \in UnitIds |-> 0]
  /\ executing = [u \in UnitIds |-> {}]
  /\ stale = [u \in UnitIds |-> {}]

Unit(c) == todo[c][1].unit
Kind(c) == todo[c][1].kind

Goto(c, place) == at' = [at EXCEPT ![c] = place]

-----------------------------------------------------------------------------
(* The CPUs.                                                               *)

\* A caller has changed a domain's tables, or an interrupt remapping entry,
\* in memory, and starts the flush.
Begin(c) ==
  /\ at[c] = "idle"
  /\ \E job \in Jobs :
       /\ todo' = [todo EXCEPT ![c] = Submissions(job)]
       /\ stale' = [u \in UnitIds |->
                      stale[u] \cup {<<c, kind>> : kind \in Range(Program(job))}]
  /\ Goto(c, "clear")
  /\ UNCHANGED <<lockVars, index, completed, ringVars, head, executing>>

\* Slip: do not clear the flag of the previous request.
ClearCompletedDropped(c) ==
  /\ at[c] = "clear"
  /\ Goto(c, "lock")
  /\ UNCHANGED <<lockVars, todo, index, completed, ringVars, unitVars>>

\* vtd_iq_completed = 0, before the lock is taken.
ClearCompleted(c) ==
  /\ at[c] = "clear"
  /\ completed' = [completed EXCEPT ![c] = FALSE]
  /\ Goto(c, "lock")
  /\ UNCHANGED <<lockVars, todo, index, ringVars, unitVars>>

Lock(c) ==
  /\ at[c] = "lock"
  /\ TakeTicket(c) \/ Spin(c)
  /\ Goto(c, IF lk'[c] = "in" THEN "request" ELSE "lock")
  /\ UNCHANGED <<todo, index, completed, ringVars, unitVars>>

\* Read VTD_IQT_REG (only the lock's holder writes it) and write the request.
WriteRequest(c) ==
  LET u == Unit(c) IN
  /\ at[c] = "request"
  /\ slot' = [slot EXCEPT ![u][tail[u]] = Inv(c, Kind(c))]
  /\ index' = [index EXCEPT ![c] = Step(tail[u])]
  /\ Goto(c, "wait")
  /\ UNCHANGED <<lockVars, todo, completed, tail, unitVars>>

WriteWait(c) ==
  /\ at[c] = "wait"
  /\ slot' = [slot EXCEPT ![Unit(c)][index[c]] = Wait(c)]
  /\ index' = [index EXCEPT ![c] = Step(@)]
  /\ Goto(c, "tail")
  /\ UNCHANGED <<lockVars, todo, completed, tail, unitVars>>

\* Slip: clear the flag only when the unit may have set it already.
WriteTailThenClear(c) ==
  /\ \/ /\ at[c] = "tail"
        /\ tail' = [tail EXCEPT ![Unit(c)] = index[c]]
        /\ Goto(c, "late clear")
        /\ UNCHANGED completed
     \/ /\ at[c] = "late clear"
        /\ completed' = [completed EXCEPT ![c] = FALSE]
        /\ Goto(c, "poll")
        /\ UNCHANGED tail
  /\ UNCHANGED <<lockVars, todo, index, slot, unitVars>>

WriteTail(c) ==
  /\ at[c] = "tail"
  /\ tail' = [tail EXCEPT ![Unit(c)] = index[c]]
  /\ Goto(c, "poll")
  /\ UNCHANGED <<lockVars, todo, index, completed, slot, unitVars>>

\* Slip: go on without waiting for the unit.
PollSkipped(c) ==
  /\ at[c] = "poll"
  /\ Goto(c, "unlock")
  /\ UNCHANGED <<lockVars, todo, index, completed, ringVars, unitVars>>

\* The read of vtd_iq_completed that ends the loop.
Poll(c) ==
  /\ at[c] = "poll"
  /\ completed[c]
  /\ Goto(c, "unlock")
  /\ UNCHANGED <<lockVars, todo, index, completed, ringVars, unitVars>>

\* spin_unlock and the return to the caller's loop.
Unlock(c) ==
  /\ at[c] = "unlock"
  /\ \/ /\ AddwLoad(c)
        /\ UNCHANGED <<at, todo, index>>
     \/ /\ AddwStore(c)
        /\ todo' = [todo EXCEPT ![c] = Tail(@)]
        /\ index' = [index EXCEPT ![c] = 0]
        /\ Goto(c, IF Len(todo[c]) = 1 THEN "idle" ELSE "clear")
  /\ UNCHANGED <<completed, ringVars, unitVars>>

Submit(c) ==
  \/ ClearCompleted(c) \/ Lock(c) \/ WriteRequest(c) \/ WriteWait(c)
  \/ WriteTail(c) \/ Poll(c) \/ Unlock(c)

-----------------------------------------------------------------------------
(* The units.                                                              *)

Fetch(u) ==
  LET entry == slot[u][head[u]] IN
  /\ head[u] # tail[u]
  /\ \/ /\ entry.type = "inv"
        /\ executing' = [executing EXCEPT ![u] = @ \cup {entry}]
        /\ UNCHANGED completed
     \/ /\ entry.type = "wait"
        /\ executing[u] = {}
        /\ completed' = [completed EXCEPT ![entry.cpu] = TRUE]
        /\ UNCHANGED executing
  /\ head' = [head EXCEPT ![u] = Step(@)]
  /\ UNCHANGED <<lockVars, at, todo, index, ringVars, stale>>

Execute(u) ==
  \E entry \in executing[u] :
    /\ executing' = [executing EXCEPT ![u] = @ \ {entry}]
    /\ stale' = [stale EXCEPT ![u] = @ \ {<<entry.cpu, entry.kind>>}]
    /\ UNCHANGED <<lockVars, at, todo, index, completed, ringVars, head>>

\* A device access fills the IOTLB by way of a context entry still cached.
Refill(u) ==
  \E c \in CPUs :
    /\ <<c, "context">> \in stale[u]
    /\ stale' = [stale EXCEPT ![u] = @ \cup {<<c, "iotlb">>}]
    /\ UNCHANGED <<lockVars, at, todo, index, completed, ringVars,
                   head, executing>>

QueueNext ==
  \/ \E c \in CPUs : Begin(c) \/ Submit(c)
  \/ \E u \in UnitIds : Fetch(u) \/ Execute(u) \/ Refill(u)

QueueSpec == QueueInit /\ [][QueueNext]_vars

\* CPUs inside the function run on, and the units keep working on their
\* queues.  Nobody has to begin a flush, and no device access has to come.
FairQueueSpec ==
  /\ QueueSpec
  /\ \A c \in CPUs : WF_vars(Submit(c))
  /\ \A u \in UnitIds : WF_vars(Fetch(u)) /\ WF_vars(Execute(u))

-----------------------------------------------------------------------------
\* Where unit u still has to go: the indices from head up to tail.
Pending(u) ==
  {i \in Index : (i - head[u]) % QSize < (tail[u] - head[u]) % QSize}

QueueTypeOK ==
  /\ LockTypeOK
  /\ at \in [CPUs -> {"idle", "clear", "lock", "request", "wait", "tail",
                      "poll", "unlock"}]
  /\ todo \in [CPUs -> Seq([unit : UnitIds, kind : Kinds])]
  /\ index \in [CPUs -> Index]
  /\ completed \in [CPUs -> BOOLEAN]
  /\ slot \in [UnitIds -> [Index ->
                Requests \cup {Wait(c) : c \in CPUs} \cup {Blank}]]
  /\ tail \in [UnitIds -> Index]
  /\ head \in [UnitIds -> Index]
  /\ executing \in [UnitIds -> SUBSET Requests]
  /\ stale \in [UnitIds -> SUBSET (CPUs \X Kinds)]

\* When vtd_flush_domain_caches or vtd_update_irte returns, no unit caches
\* any more what the caller had changed before it: the invalidations reached
\* every unit, in an order in which a context entry that was still cached
\* cannot bring the old translation back, and the flag the CPU polled was
\* not one left over from an earlier request.
FlushComplete ==
  \A c \in CPUs, u \in UnitIds :
    at[c] = "idle" => \A kind \in Kinds : <<c, kind>> \notin stale[u]

\* A CPU only sees its flag set after all that it submitted to the unit has
\* been carried out; no unit works for a CPU that is not polling or about
\* to unlock.
CompletionAfterExecution ==
  \A c \in CPUs, u \in UnitIds :
    (completed[c] \/ at[c] # "poll") =>
      /\ \A entry \in executing[u] : entry.cpu # c
      /\ \A i \in Pending(u) : slot[u][i].cpu # c

\* The ring is never over-full and never read where nothing was written: a
\* CPU that is about to write finds every unit's queue empty, so neither the
\* request nor the wait descriptor lands on one the unit has not fetched.
QueuesDrained ==
  \A c \in CPUs :
    at[c] \in {"request", "wait", "tail"} =>
      \A u \in UnitIds : head[u] = tail[u] /\ executing[u] = {}

\* Every flush returns: the units answer every wait descriptor, the answer
\* is not lost, and the lock comes round.
FlushReturns == \A c \in CPUs : at[c] # "idle" ~> at[c] = "idle"
=============================================================================
