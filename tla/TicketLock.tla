----------------------------- MODULE TicketLock -----------------------------
(***************************************************************************)
(* The ticket spin lock of hypervisor/arch/x86/include/asm/spinlock.h.     *)
(* spin_lock draws a ticket with one locked xaddl on the whole 32-bit lock *)
(* word and spins until `owner' shows it; spin_unlock adds one to `owner'  *)
(* with an addw that has no lock prefix, so other CPUs' instructions fall  *)
(* between its load and its store.  Both halves are u16 and wrap: Modulus  *)
(* stands for 2^16.                                                        *)
(***************************************************************************)
EXTENDS Naturals, FiniteSets

CONSTANTS CPUs, Modulus

ASSUME LockAssumption ==
  /\ Modulus \in Nat \ {0}
  /\ IsFiniteSet(CPUs)
  /\ Cardinality(CPUs) <= Modulus

VARIABLES
  owner, next,  \* the two halves of spinlock_t
  lk,           \* where a CPU is: "out", "spin", "in", or inside the "addw"
  reg           \* its register: inc.next in spin_lock, the word addw loaded

lockVars == <<owner, next, lk, reg>>

Word == 0 .. Modulus - 1

\* Addition of 1 in u16.
Inc(w) == IF w + 1 = Modulus THEN 0 ELSE w + 1

\* The CPUs whose ticket has not been passed on yet.
Queued == {c \in CPUs : lk[c] # "out"}

LockInit ==
  /\ owner = 0
  /\ next = 0
  /\ lk = [c \in CPUs |-> "out"]
  /\ reg = [c \in CPUs |-> 0]

-----------------------------------------------------------------------------
\* Slip: xaddl on a private copy: the ticket is drawn but next is not advanced
\* while nobody waits.
TakeTicketLost(c) ==
  /\ lk[c] = "out"
  /\ reg' = [reg EXCEPT ![c] = next]
  /\ next' = IF owner = next THEN next ELSE Inc(next)
  /\ lk' = [lk EXCEPT ![c] = IF owner = next THEN "in" ELSE "spin"]
  /\ UNCHANGED owner

\* lock xaddl: one atomic step takes (owner, next) and advances next.  The
\* comparison that follows reads only the values xaddl returned.
TakeTicket(c) ==
  /\ lk[c] = "out"
  /\ reg' = [reg EXCEPT ![c] = next]
  /\ next' = Inc(next)
  /\ lk' = [lk EXCEPT ![c] = IF owner = next THEN "in" ELSE "spin"]
  /\ UNCHANGED owner

\* Slip: the loop compares with < and so forgets that tickets wrap.
SpinOrdered(c) ==
  /\ lk[c] = "spin"
  /\ owner >= reg[c]
  /\ lk' = [lk EXCEPT ![c] = "in"]
  /\ UNCHANGED <<owner, next, reg>>

\* The read of lock->owner that ends the loop; the others change nothing.
Spin(c) ==
  /\ lk[c] = "spin"
  /\ owner = reg[c]
  /\ lk' = [lk EXCEPT ![c] = "in"]
  /\ UNCHANGED <<owner, next, reg>>

\* addw, first half: the load of owner.
AddwLoad(c) ==
  /\ lk[c] = "in"
  /\ reg' = [reg EXCEPT ![c] = owner]
  /\ lk' = [lk EXCEPT ![c] = "addw"]
  /\ UNCHANGED <<owner, next>>

\* Slip: the addition carries on past the width of the half word.
AddwStoreNoWrap(c) ==
  /\ lk[c] = "addw"
  /\ owner' = reg[c] + 1
  /\ lk' = [lk EXCEPT ![c] = "out"]
  /\ reg' = [reg EXCEPT ![c] = 0]
  /\ UNCHANGED next

\* addw, second half: the store.  The register is dead afterwards.
AddwStore(c) ==
  /\ lk[c] = "addw"
  /\ owner' = Inc(reg[c])
  /\ lk' = [lk EXCEPT ![c] = "out"]
  /\ reg' = [reg EXCEPT ![c] = 0]
  /\ UNCHANGED next

LockStep(c) == TakeTicket(c) \/ Spin(c) \/ AddwLoad(c) \/ AddwStore(c)

LockNext == \E c \in CPUs : LockStep(c)

\* A CPU runs on, and a critical section of the hypervisor ends; nobody is
\* obliged to call spin_lock.
LockFairness ==
  \A c \in CPUs : WF_lockVars(Spin(c) \/ AddwLoad(c) \/ AddwStore(c))

LockSpec == LockInit /\ [][LockNext]_lockVars

FairLockSpec == LockSpec /\ LockFairness

-----------------------------------------------------------------------------
\* Type invariant: the lock's halves stay words of their width.
LockTypeOK ==
  /\ owner \in Word
  /\ next \in Word
  /\ lk \in [CPUs -> {"out", "spin", "in", "addw"}]
  /\ reg \in [CPUs -> Word]

\* Two CPUs are never between spin_lock's return and the store that ends
\* spin_unlock at the same time, whatever the interleaving of the xaddl, the
\* polling loop and the unlocked addw, and across the wrap of the tickets.
MutualExclusion ==
  \A c, d \in CPUs :
    lk[c] \in {"in", "addw"} /\ lk[d] \in {"in", "addw"} => c = d

\* How far the lock has to advance from `from' to reach ticket `t'.
Ahead(t, from) == IF t >= from THEN t - from ELSE t + Modulus - from

\* The strengthening that makes mutual exclusion inductive: the queued CPUs
\* hold different tickets, exactly those of the window from owner to next,
\* and a CPU in the critical section holds the one that owner shows.
TicketsInWindow ==
  LET n == Cardinality(Queued) IN
  /\ n <= Modulus
  /\ Ahead(next, owner) = IF n = Modulus THEN 0 ELSE n
  /\ \A c \in Queued : Ahead(reg[c], owner) < n
  /\ \A c, d \in Queued : reg[c] = reg[d] => c = d
  /\ \A c \in CPUs : lk[c] \in {"in", "addw"} => reg[c] = owner

\* The abstract lock this one implements: a queued CPU comes after those
\* whose tickets owner reaches first.
FifoState ==
  [c \in CPUs |-> IF lk[c] = "spin" THEN "wait"
                 ELSE IF lk[c] = "addw" THEN "in" ELSE lk[c]]

FifoAhead ==
  [c \in CPUs |->
     {d \in Queued : c \in Queued
                      /\ Ahead(reg[d], owner) < Ahead(reg[c], owner)}]

Fifo == INSTANCE FifoLock WITH st <- FifoState, ahead <- FifoAhead

\* The CPUs get the lock in the order of their xaddl, one at a time: every
\* step of the ticket lock is a step of FifoLock or changes nothing there.
ImplementsFifo == Fifo!Spec

\* Every CPU that calls spin_lock gets the lock, however often the others
\* take it again.
NoStarvation == \A c \in CPUs : lk[c] = "spin" ~> lk[c] = "in"
=============================================================================
