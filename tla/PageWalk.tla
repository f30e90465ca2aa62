----------------------------- MODULE PageWalk ------------------------------
(***************************************************************************)
(* The page table formats of hypervisor/arch/x86/paging.c: what the        *)
(* callbacks of a paging level write into an entry and read out of it, and *)
(* the walk that finds the code of a guest with them.                      *)
(*                                                                         *)
(* A machine word is the set of its bits that are one, so that | is union, *)
(* & is intersection, and a shift moves the members.                       *)
(***************************************************************************)
EXTENDS Integers, Sequences

Word == SUBSET (0 .. 63)

\* BIT_MASK(last, first), and a shift by n.
Bits(last, first) == first .. last
Up(w, n) == {b + n : b \in w}
Down(w, n) == {b - n : b \in {c \in w : c >= n}}

-----------------------------------------------------------------------------
Present == {0}                 \* PAGE_FLAG_PRESENT, PAGE_READONLY_FLAGS
DefaultFlags == {0, 1}         \* PAGE_DEFAULT_FLAGS
HugePage == {7}                \* X86_FLAG_HUGEPAGE
InvalidPhys == 0 .. 63         \* INVALID_PHYS_ADDR
NonPresent == InvalidPhys \cap Bits(51, 30)   \* PAGE_NONPRESENT_FLAGS
EptRead == {0}
EptWrite == {1}
EptExecute == {2}
EptWriteBack == {4, 5}         \* EPT_FLAG_WB_TYPE

\* The 64-bit entries of x86_64, PAE and EPT tables.  A level is named by the
\* lowest bit of its index, which is also the lowest bit of the address in an
\* entry that ends the walk.
EntryValid(pte, flags) == pte \cap flags = flags
Flags(pte) == pte \cap (Bits(63, 52) \cup Bits(11, 8) \cup Bits(6, 0))
NextTable(next) == (next \cap Bits(51, 12)) \cup DefaultFlags
EptNextTable(next) ==
  (next \cap Bits(51, 12)) \cup EptRead \cup EptWrite \cup EptExecute
Cleared == NonPresent
Terminal(level, phys, flags) ==
  (phys \cap Bits(51, level)) \cup flags
    \cup (IF level = 12 THEN {} ELSE HugePage)
Phys(level, pte, virt) ==
  IF level # 12 /\ pte \cap HugePage = {} THEN InvalidPhys
  ELSE (pte \cap Bits(51, level)) \cup (virt \cap Bits(level - 1, 0))
NextPt(pte) == pte \cap Bits(51, 12)

\* page_table_empty: no entry of the table is valid.
TableEmpty(table) ==
  \A n \in DOMAIN table : ~ EntryValid(table[n], Present)

\* Slip: forget that four-megabyte pages may lie above four gigabytes.
Phys32NoPse36(level, pte, virt) ==
  IF level = 12 THEN (pte \cap Bits(31, 12)) \cup (virt \cap Bits(11, 0))
  ELSE IF pte \cap HugePage = {} THEN InvalidPhys
  ELSE (pte \cap Bits(31, 22)) \cup (virt \cap Bits(21, 0))

\* The 32-bit entries of i386 tables; four-megabyte pages have bits 32 to 35
\* of the address in bits 13 to 16 of the entry.
Phys32(level, pte, virt) ==
  IF level = 12 THEN (pte \cap Bits(31, 12)) \cup (virt \cap Bits(11, 0))
  ELSE IF pte \cap HugePage = {} THEN InvalidPhys
  ELSE Up(pte \cap Bits(16, 13), 32 - 13) \cup (pte \cap Bits(31, 22))
         \cup (virt \cap Bits(21, 0))

NextPt32(pte) == pte \cap Bits(31, 12)

\* The access flags that vcpu_map_memory_region gives a region of a target,
\* from the flags of the region in the configuration.
RegionFlags(flags) ==
  EptWriteBack \cup (IF "READ" \in flags THEN EptRead ELSE {})
    \cup (IF "WRITE" \in flags THEN EptWrite ELSE {})
    \cup (IF "EXECUTE" \in flags THEN EptExecute ELSE {})

-----------------------------------------------------------------------------
(***************************************************************************)
(* The arrays of levels, from the root down.  "leaf" says that an entry of *)
(* the level may end the walk (the level has a get_phys of its own), "n"   *)
(* how many bits of the address index it.                                  *)
(***************************************************************************)
x86_64_paging ==
  << [level |-> 39, n |-> 9, leaf |-> FALSE], [level |-> 30, n |-> 9, leaf |-> TRUE],
     [level |-> 21, n |-> 9, leaf |-> TRUE],  [level |-> 12, n |-> 9, leaf |-> TRUE] >>
pae_paging ==
  << [level |-> 30, n |-> 2, leaf |-> FALSE], [level |-> 21, n |-> 9, leaf |-> TRUE],
     [level |-> 12, n |-> 9, leaf |-> TRUE] >>
i386_paging ==
  << [level |-> 22, n |-> 10, leaf |-> TRUE], [level |-> 12, n |-> 10, leaf |-> TRUE] >>

\* The number of the entry for an address, as a word.
Index(l, virt) == Down(virt, l.level) \cap Bits(l.n - 1, 0)

\* Memory maps the addresses of its 64-bit words to their contents.
IsMemory(mem) == \A a \in DOMAIN mem : mem[a] \in Word
Load64(mem, a) == IF a \in DOMAIN mem THEN mem[a] ELSE {}
Load32(mem, a) == Down(Load64(mem, a \ {2}), IF 2 \in a THEN 32 ELSE 0) \cap Bits(31, 0)

\* The walk of the generic paging code over the tables of a guest: "paging" is
\* one of the arrays above or << >> for no paging, "root" the address of the
\* root table, and "pdptes" replace the root table of PAE.  It follows the
\* entries p1, p2, ... down to the first one that ends the walk.
Wide(paging) == paging # i386_paging
Entry(mem, paging, pdptes, virt, k, table) ==
  LET i == Index(paging[k], virt) IN
  IF paging = pae_paging /\ k = 1 THEN pdptes[i]
  ELSE IF Wide(paging) THEN Load64(mem, table \cup Up(i, 3))
  ELSE Load32(mem, table \cup Up(i, 2))

NextTableOf(paging, pte) == IF Wide(paging) THEN NextPt(pte) ELSE NextPt32(pte)

GetPhys(paging, k, pte, virt) ==
  IF ~ paging[k].leaf THEN InvalidPhys
  ELSE IF Wide(paging) THEN Phys(paging[k].level, pte, virt)
  ELSE Phys32(paging[k].level, pte, virt)

Until(paging, k, pte, virt, below) ==
  IF k > Len(paging) \/ ~ EntryValid(pte, Present) THEN InvalidPhys
  ELSE IF GetPhys(paging, k, pte, virt) # InvalidPhys
  THEN GetPhys(paging, k, pte, virt)
  ELSE below

WalkResult(mem, paging, root, pdptes, virt) ==
  LET E(k, table) == Entry(mem, paging, pdptes, virt, k, table)
      N(pte) == NextTableOf(paging, pte)
      p1 == E(1, root)
      p2 == E(2, N(p1))
      p3 == E(3, N(p2))
      p4 == E(4, N(p3))
  IN IF paging = << >> THEN virt
     ELSE Until(paging, 1, p1, virt, Until(paging, 2, p2, virt,
            Until(paging, 3, p3, virt, Until(paging, 4, p4, virt, InvalidPhys))))

-----------------------------------------------------------------------------
(***************************************************************************)
(* What the processor does with the same tables, by its manual.  Every     *)
(* level of a paging mode is the field of the linear address that indexes  *)
(* it; the rest of the address is the offset in what the entry points to.  *)
(***************************************************************************)
Field(virt, last, first) == {b - first : b \in virt \cap first .. last}
Offset(virt, first) == {b \in virt : b < first}
Frame(pte, first) == {b \in pte : b >= first /\ b < 52}

\* Of an entry of a page directory, or of a table above it, with its bit PS.
Huge(pte) == 7 \in pte
Fault == InvalidPhys

PtLookup(mem, table, virt) ==
  LET pte == Load64(mem, table \cup Up(Field(virt, 20, 12), 3)) IN
  IF 0 \notin pte THEN Fault ELSE Frame(pte, 12) \cup Offset(virt, 12)

PdLookup(mem, table, virt) ==
  LET pde == Load64(mem, table \cup Up(Field(virt, 29, 21), 3)) IN
  IF 0 \notin pde THEN Fault
  ELSE IF Huge(pde) THEN Frame(pde, 21) \cup Offset(virt, 21)
  ELSE PtLookup(mem, Frame(pde, 12), virt)

LongLookup(mem, cr3, virt) ==
  LET pml4e == Load64(mem, Frame(cr3, 12) \cup Up(Field(virt, 47, 39), 3))
      pdpte == Load64(mem, Frame(pml4e, 12) \cup Up(Field(virt, 38, 30), 3)) IN
  IF 0 \notin pml4e \/ 0 \notin pdpte THEN Fault
  ELSE IF Huge(pdpte) THEN Frame(pdpte, 30) \cup Offset(virt, 30)
  ELSE PdLookup(mem, Frame(pdpte, 12), virt)

PaeLookup(mem, pdptes, virt) ==
  LET pdpte == pdptes[Field(virt, 31, 30)] IN
  IF 0 \notin pdpte THEN Fault ELSE PdLookup(mem, Frame(pdpte, 12), virt)

Pde32(mem, cr3, virt) ==
  Load32(mem, {b \in cr3 : b \in 12 .. 31} \cup Up(Field(virt, 31, 22), 2))

Lookup32(mem, cr3, pse, virt) ==
  LET pde == Pde32(mem, cr3, virt)
      pte == Load32(mem, Frame(pde, 12) \cup Up(Field(virt, 21, 12), 2)) IN
  IF 0 \notin pde THEN Fault
  ELSE IF pse /\ Huge(pde)
  THEN Frame(pde, 22) \cup {b + 19 : b \in pde \cap 13 .. 16} \cup Offset(virt, 22)
  ELSE IF 0 \notin pte THEN Fault
  ELSE Frame(pte, 12) \cup Offset(virt, 12)
=============================================================================
