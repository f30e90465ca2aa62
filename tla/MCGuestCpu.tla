---------------------------- MODULE MCGuestCpu -----------------------------
(* Two targets; a processor whose CR4 has no bit R; moves that exit and     *)
(* moves that do not, legal and illegal ones; and page tables that all      *)
(* three formats can walk.                                                  *)
EXTENDS GuestCpu, TLC

CONSTANTS root, t1

MCTargets == {root, t1}
MCFixed0of0 == {"PE", "PG", "NE"}
MCFixed1of0 == {"PE", "PG", "NE", "CD"}
MCFixed0of4 == {"VMXE"}
MCFixed1of4 == {"PAE", "PSE", "VMXE", "OSXSAVE"}
MCLinuxCr0s == {{"PE", "PG", "NE"}}
MCLinuxCr4s == {{"PAE"}}
MCPats == {"linux", "reset"}

Op(op, args) == {[op |-> op, arg |-> a] : a \in args}

MCInsns ==
  Op("mov cr0", {{"PE"}, {"PE", "PG"}, {"PE", "NE"}, {"PE", "PG", "NE"}, {"PG"}})
    \cup Op("mov cr4", {{"VMXE"}, {"PAE"}, {"PAE", "VMXE"}, {"PSE", "VMXE"},
                        {"PAE", "OSXSAVE", "VMXE"}, {"PAE", "R", "VMXE"}, {"R", "VMXE"}})
    \cup Op("wrmsr efer", BOOLEAN) \cup Op("mov cr3", {"tables"})
    \cup Op("wrmsr pat", {"linux", "reset", "bad"}) \cup Op("wrmsr mtrr", BOOLEAN)
    \cup Op("rdmsr pat", {"value"}) \cup Op("rdmsr mtrr", {"value"})
    \cup Op("xsetbv", {"valid", "invalid"})
    \cup Op("vmcall", {"user", "kernel"}) \cup Op("cpuid", {"features"})
    \cup Op("io", {"string", "ignored", "device"})
    \cup Op("msr", {"unknown", "ignored", "x2apic"})
    \cup Op("exception", {"DB", "AC"})
    \cup Op("memory", {"access"}) \cup Op("shutdown", {"triple fault"})

(* The root table is at 0x2000.  Its first entry is the PML4E, the PDPTE    *)
(* and, in its halves, the first two PDEs of 32-bit paging.                 *)
MCCr3 == {13}
MCMemory ==
  ( {13}     :> ({0, 1} \cup {14} \cup {32, 39} \cup {32 + 14, 32 + 23})
 @@ {13, 3}  :> {0, 16}
 @@ {14}     :> {0, 1, 15}
 @@ {14, 3}  :> {0, 1, 7, 33}
 @@ {14, 32, 39, 46}    :> {0, 1, 15}
 @@ {14, 32, 39, 46, 3} :> {0, 1, 7, 33}
 @@ {15}     :> {0, 1, 16}
 @@ {15, 3}  :> {0, 7, 24, 40}
 @@ {16}     :> {0, 28}
 @@ {16, 3}  :> {0, 29, 35} )
MCOldPdptes == [i \in SUBSET {0, 1} |-> IF i = {} THEN {0, 15} ELSE {}]
MCAddresses ==
  {{0, 5}, {1, 12}, {2, 21}, {2, 12, 30}, {4, 22}, {4, 21, 22, 30}, {3, 39}}
=============================================================================
