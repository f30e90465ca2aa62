------------------------------ MODULE FifoLock ------------------------------
(***************************************************************************)
(* What a CPU may expect of the hypervisor's spin lock (asm/spinlock.h):   *)
(* at most one CPU is in the critical section, and the CPUs enter it in    *)
(* the order in which they called spin_lock.  ahead[c] is the set of CPUs  *)
(* that called spin_lock before c did and have not left since.             *)
(***************************************************************************)
CONSTANT CPUs

VARIABLES st, ahead

vars == <<st, ahead>>

Present == {c \in CPUs : st[c] # "out"}

Init ==
  /\ st = [c \in CPUs |-> "out"]
  /\ ahead = [c \in CPUs |-> {}]

\* A CPU queues behind everyone who is present; alone, it enters at once.
Request(c) ==
  /\ st[c] = "out"
  /\ ahead' = [ahead EXCEPT ![c] = Present]
  /\ st' = [st EXCEPT ![c] = IF Present = {} THEN "in" ELSE "wait"]

Enter(c) ==
  /\ st[c] = "wait"
  /\ ahead[c] = {}
  /\ st' = [st EXCEPT ![c] = "in"]
  /\ UNCHANGED ahead

Leave(c) ==
  /\ st[c] = "in"
  /\ st' = [st EXCEPT ![c] = "out"]
  /\ ahead' = [d \in CPUs |-> ahead[d] \ {c}]

Next == \E c \in CPUs : Request(c) \/ Enter(c) \/ Leave(c)

Spec == Init /\ [][Next]_vars
=============================================================================
