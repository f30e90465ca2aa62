--------------------------- MODULE MCCpuHandover ---------------------------
(* Two CPUs.  Linux changes all of its registers as a guest, or only those *)
(* that point to its descriptor tables and page tables.                    *)
EXTENDS CpuHandover

MCCPUs == 1 .. 2
MCChanges == {GuestRegs, {"gdtr", "tr"}, {"cr3"}}
=============================================================================
