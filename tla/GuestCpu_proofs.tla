-------------------------- MODULE GuestCpu_proofs ---------------------------
(***************************************************************************)
(* The page table formats for every entry, address and memory: what is     *)
(* written into an entry is what is read out of it, and a walk with the    *)
(* callbacks of a paging mode finds what the processor finds.  GuestCpu for *)
(* every set of targets and instructions, every processor with fixed bits in *)
(* its control registers, and every memory of a guest.                     *)
(***************************************************************************)
EXTENDS GuestCpu, TLAPS

-----------------------------------------------------------------------------
(***************************************************************************)
(* The formats and the walk.                                               *)
(***************************************************************************)
Levels == {12, 21, 30}
FlagBits == Bits(63, 52) \cup Bits(11, 8) \cup Bits(6, 0)
PhysAddr == SUBSET Bits(51, 0)
Aligned(phys, level) == phys \cap Bits(level - 1, 0) = {}

-----------------------------------------------------------------------------
(***************************************************************************)
(* Writing and reading entries.                                            *)
(***************************************************************************)
\* x86_64_set_terminal_l* and x86_64_get_phys_l*: a page that has been mapped
\* is found again, for every page size, address and combination of flags.
THEOREM MappedIsFound ==
  ASSUME NEW level \in Levels, NEW phys \in PhysAddr, Aligned(phys, level),
         NEW flags \in SUBSET FlagBits, NEW virt \in Word
  PROVE  Phys(level, Terminal(level, phys, flags), virt)
           = phys \cup (virt \cap Bits(level - 1, 0))
<1> DEFINE pte == Terminal(level, phys, flags)
<1>1. ASSUME NEW b
      PROVE  b \in pte \cap Bits(51, level) <=> b \in phys
  <2>1. b \in phys => b \in 0 .. 51 /\ b \notin 0 .. level - 1
    BY DEF PhysAddr, Aligned, Bits
  <2>2. b \in flags => b \in 0 .. 6 \/ b \in 8 .. 11 \/ b \in 52 .. 63
    BY DEF FlagBits, Bits
  <2>3. b \in Bits(51, level) <=> b \in Int /\ level <= b /\ b <= 51
    BY DEF Bits, Levels
  <2> QED BY <2>1, <2>2, <2>3 DEF Levels, Terminal, HugePage
<1>2. pte \cap Bits(51, level) = phys
  BY <1>1, Zenon
<1>3. level # 12 => pte \cap HugePage # {}
  BY DEF Terminal, HugePage
<1>4. Phys(level, pte, virt)
        = (pte \cap Bits(51, level)) \cup (virt \cap Bits(level - 1, 0))
  BY <1>3, Zenon DEF Phys
<1> QED BY <1>2, <1>4, Zenon

\* x86_64_set_terminal_l* and x86_64_get_flags: the address of a page never
\* shows in its flags, nor does the bit that marks a huge page.
THEOREM FlagsAreKept ==
  ASSUME NEW level \in Levels, NEW phys \in PhysAddr, Aligned(phys, level),
         NEW flags \in SUBSET FlagBits
  PROVE  Flags(Terminal(level, phys, flags)) = flags
<1>1. ASSUME NEW b
      PROVE  b \in Flags(Terminal(level, phys, flags)) <=> b \in flags
  <2>1. b \in phys => b \in level .. 51
    BY DEF PhysAddr, Aligned, Bits, Levels
  <2>2. b \in flags => b \in 0 .. 6 \/ b \in 8 .. 11 \/ b \in 52 .. 63
    BY DEF FlagBits, Bits
  <2> QED BY <2>1, <2>2 DEF Levels, Flags, Terminal, HugePage, Bits
<1> QED BY <1>1, Zenon


\* x86_64_set_next_pt and ept_set_next_pt: a table that has been linked is
\* found again, and its entry is valid and never taken for a huge page.
THEOREM LinkedIsFound ==
  ASSUME NEW next \in PhysAddr, Aligned(next, 12),
         NEW level \in {21, 30}, NEW virt \in Word,
         NEW pte \in {NextTable(next), EptNextTable(next)}
  PROVE  /\ NextPt(pte) = next
         /\ EntryValid(pte, Present)
         /\ Phys(level, pte, virt) = InvalidPhys
<1>1. NextPt(pte) = next
  <2>1. ASSUME NEW b
        PROVE  b \in NextPt(pte) <=> b \in next
    <3>1. b \in next => b \in 12 .. 51
      BY DEF PhysAddr, Aligned, Bits
    <3> QED BY <3>1 DEF NextPt, NextTable, EptNextTable, DefaultFlags, EptRead,
                        EptWrite, EptExecute, Bits
  <2> QED BY <2>1, Zenon
<1>2. EntryValid(pte, Present)
  BY DEF EntryValid, Present, NextTable, EptNextTable, DefaultFlags, EptRead
<1>3. pte \cap HugePage = {}
  BY DEF HugePage, NextTable, EptNextTable, DefaultFlags, EptRead, EptWrite,
         EptExecute, Bits
<1> QED BY <1>1, <1>2, <1>3 DEF Phys

\* x86_64_clear_entry: an entry that was cleared, or never written, is not
\* valid, and points nowhere below one gigabyte (the comment in asm/paging.h
\* on hardening against L1TF).
THEOREM ClearedIsInvalid ==
  /\ ~ EntryValid(Cleared, Present) /\ ~ EntryValid({}, Present)
  /\ Bits(51, 30) \subseteq NextPt(Cleared)
BY DEF EntryValid, Cleared, NonPresent, InvalidPhys, Present, Bits, NextPt

\* vcpu_map_memory_region with the tables of paging.c: a page of a region has
\* the address and the access rights of the configuration, and the walk stops
\* at it exactly if the region is readable.
THEOREM RegionIsMapped ==
  ASSUME NEW level \in Levels, NEW phys \in PhysAddr, Aligned(phys, level),
         NEW flags, NEW virt \in Word
  PROVE  LET pte == Terminal(level, phys, RegionFlags(flags)) IN
         /\ Phys(level, pte, virt) = phys \cup (virt \cap Bits(level - 1, 0))
         /\ Flags(pte) = RegionFlags(flags)
         /\ EntryValid(pte, Present) <=> "READ" \in flags
<1>1. RegionFlags(flags) \in SUBSET FlagBits
  BY DEF RegionFlags, FlagBits, Bits, EptWriteBack, EptRead, EptWrite, EptExecute
<1>2. 0 \in RegionFlags(flags) <=> "READ" \in flags
  BY DEF RegionFlags, EptWriteBack, EptRead, EptWrite, EptExecute
<1>3. 0 \in Terminal(level, phys, RegionFlags(flags)) <=> 0 \in RegionFlags(flags)
  BY DEF Levels, Terminal, Bits, HugePage
<1>4. EntryValid(Terminal(level, phys, RegionFlags(flags)), Present)
        <=> 0 \in Terminal(level, phys, RegionFlags(flags))
  BY DEF EntryValid, Present
<1> QED BY <1>1, <1>2, <1>3, <1>4, MappedIsFound, FlagsAreKept

\* x86_64_page_table_empty, by which a table is given back to the pool: after
\* an entry has been cleared a table is empty exactly if no other entry was
\* valid; with a link, or a page of a readable region, it never is.
THEOREM EmptyIsUnused ==
  ASSUME NEW I, NEW table \in [I -> Word], NEW n \in I, NEW flags
  PROVE  /\ TableEmpty([table EXCEPT ![n] = Cleared])
              <=> \A k \in I \ {n} : ~ EntryValid(table[k], Present)
         /\ \A level \in Levels, phys \in PhysAddr :
              Aligned(phys, level) /\ "READ" \in flags
              => ~ TableEmpty([table EXCEPT ![n] = Terminal(level, phys, RegionFlags(flags))])
         /\ \A next \in PhysAddr :
              Aligned(next, 12) => ~ TableEmpty([table EXCEPT ![n] = EptNextTable(next)])
<1>1. ASSUME NEW pte
      PROVE  TableEmpty([table EXCEPT ![n] = pte])
               <=> /\ ~ EntryValid(pte, Present)
                   /\ \A k \in I \ {n} : ~ EntryValid(table[k], Present)
  BY DEF TableEmpty
<1>2. TableEmpty([table EXCEPT ![n] = Cleared])
        <=> \A k \in I \ {n} : ~ EntryValid(table[k], Present)
  BY <1>1, ClearedIsInvalid
<1>3. ASSUME NEW level \in Levels, NEW phys \in PhysAddr,
             Aligned(phys, level), "READ" \in flags
      PROVE  ~ TableEmpty([table EXCEPT ![n] = Terminal(level, phys, RegionFlags(flags))])
  <2>1. {} \in Word
    BY DEF Word
  <2>2. EntryValid(Terminal(level, phys, RegionFlags(flags)), Present)
    BY <1>3, <2>1, RegionIsMapped, Zenon
  <2> QED BY <1>1, <2>2
<1>4. ASSUME NEW next \in PhysAddr, Aligned(next, 12)
      PROVE  ~ TableEmpty([table EXCEPT ![n] = EptNextTable(next)])
  <2>1. {} \in Word /\ 21 \in {21, 30}
    BY DEF Word
  <2>2. EntryValid(EptNextTable(next), Present)
    BY <1>4, <2>1, LinkedIsFound
  <2> QED BY <1>1, <2>2
<1> QED BY <1>2, <1>3, <1>4

-----------------------------------------------------------------------------
(***************************************************************************)
(* The levels of a walk.                                                   *)
(***************************************************************************)
\* The index into a table (x86_64_get_entry_l*, i386_get_entry_l*) is the
\* field of the address that the processor takes.
LEMMA IndexIsField ==
  ASSUME NEW l \in [level : Nat, n : Nat, leaf : BOOLEAN], NEW virt \in Word
  PROVE  Index(l, virt) = Field(virt, l.level + l.n - 1, l.level)
<1>1. ASSUME NEW b
      PROVE  b \in Index(l, virt)
               <=> b \in Field(virt, l.level + l.n - 1, l.level)
  BY DEF Index, Down, Bits, Field, Word
<1> QED BY <1>1, Zenon

\* The levels of the arrays x86_64_paging, pae_paging and i386_paging.
LEMMA LevelsOfPaging ==
  /\ x86_64_paging # << >> /\ pae_paging # << >> /\ i386_paging # << >>
  /\ Wide(x86_64_paging) /\ Wide(pae_paging) /\ ~ Wide(i386_paging)
  /\ x86_64_paging # pae_paging /\ i386_paging # pae_paging
  /\ Len(x86_64_paging) = 4 /\ Len(pae_paging) = 3 /\ Len(i386_paging) = 2
BY DEF x86_64_paging, pae_paging, i386_paging, Wide

\* Memory holds words, and so do the entries.
LEMMA LoadedWords ==
  ASSUME NEW mem, IsMemory(mem), NEW a
  PROVE  Load64(mem, a) \in Word /\ Load32(mem, a) \in SUBSET (0 .. 31)
<1>1. Load64(mem, a) \in Word
  <2>1. {} \in Word
    BY DEF Word
  <2> QED BY <2>1, Zenon DEF Load64, IsMemory
<1>2. Load32(mem, a) \in SUBSET (0 .. 31)
  BY DEF Load32, Bits
<1> QED BY <1>1, <1>2

\* x86_64_get_phys_l* and x86_64_get_next_pt take from an entry what the
\* processor takes, and the address of a page is never INVALID_PHYS_ADDR.
LEMMA EntryIsRead ==
  ASSUME NEW level \in Levels, NEW pte \in Word, NEW virt \in Word
  PROVE  /\ level = 12 \/ Huge(pte) =>
              /\ Phys(level, pte, virt) = Frame(pte, level) \cup Offset(virt, level)
              /\ Phys(level, pte, virt) # InvalidPhys
         /\ level # 12 /\ ~ Huge(pte) => Phys(level, pte, virt) = InvalidPhys
         /\ NextPt(pte) = Frame(pte, 12) /\ NextPt(pte) \in Word
<1>1. NextPt(pte) = Frame(pte, 12) /\ NextPt(pte) \in Word
  <2>1. ASSUME NEW b
        PROVE  b \in NextPt(pte) <=> b \in Frame(pte, 12)
    <3>1. b \in pte => b \in 0 .. 63
      BY DEF Word
    <3> QED BY <3>1 DEF NextPt, Frame, Bits
  <2>2. NextPt(pte) \subseteq pte
    BY Zenon DEF NextPt
  <2> QED BY <2>1, <2>2, Zenon DEF Word
<1>2. ASSUME level # 12, ~ Huge(pte)
      PROVE  Phys(level, pte, virt) = InvalidPhys
  BY <1>2 DEF Huge, HugePage, Phys
<1>3. ASSUME level = 12 \/ Huge(pte)
      PROVE  /\ Phys(level, pte, virt) = Frame(pte, level) \cup Offset(virt, level)
             /\ Phys(level, pte, virt) # InvalidPhys
  <2>1. Phys(level, pte, virt)
          = (pte \cap Bits(51, level)) \cup (virt \cap Bits(level - 1, 0))
    BY <1>3, Zenon DEF Huge, HugePage, Phys
  <2>2. pte \cap Bits(51, level) = Frame(pte, level)
    <3>1. ASSUME NEW b
          PROVE  b \in pte \cap Bits(51, level) <=> b \in Frame(pte, level)
      <4>1. b \in pte => b \in 0 .. 63
        BY DEF Word
      <4> QED BY <4>1 DEF Levels, Bits, Frame
    <3> QED BY <3>1, Zenon
  <2>3. virt \cap Bits(level - 1, 0) = Offset(virt, level)
    <3>1. ASSUME NEW b
          PROVE  b \in virt \cap Bits(level - 1, 0) <=> b \in Offset(virt, level)
      <4>1. b \in virt => b \in 0 .. 63
        BY DEF Word
      <4> QED BY <4>1 DEF Levels, Bits, Offset
    <3> QED BY <3>1, Zenon
  <2>4. 63 \notin Frame(pte, level) /\ 63 \notin Offset(virt, level)
    BY DEF Levels, Frame, Offset
  <2>5. 63 \in InvalidPhys
    BY DEF InvalidPhys
  <2> QED BY <2>1, <2>2, <2>3, <2>4, <2>5, Zenon
<1> QED BY <1>1, <1>2, <1>3, Zenon

Level == [level : Nat, n : Nat, leaf : BOOLEAN]

\* The arrays x86_64_paging and pae_paging, level by level.
LEMMA LongArray ==
  /\ x86_64_paging[1] = [level |-> 39, n |-> 9, leaf |-> FALSE]
  /\ x86_64_paging[2] = [level |-> 30, n |-> 9, leaf |-> TRUE]
  /\ x86_64_paging[3] = [level |-> 21, n |-> 9, leaf |-> TRUE]
  /\ x86_64_paging[4] = [level |-> 12, n |-> 9, leaf |-> TRUE]
BY DEF x86_64_paging

\* See LongArray.
LEMMA PaeArray ==
  /\ pae_paging[1] = [level |-> 30, n |-> 2, leaf |-> FALSE]
  /\ pae_paging[2] = [level |-> 21, n |-> 9, leaf |-> TRUE]
  /\ pae_paging[3] = [level |-> 12, n |-> 9, leaf |-> TRUE]
BY DEF pae_paging

\* A level of the walk that cannot end it.
LEMMA UpperLevel ==
  ASSUME NEW paging, NEW k, ~ (k > Len(paging)), ~ paging[k].leaf,
         NEW pte, NEW virt, NEW below
  PROVE  Until(paging, k, pte, virt, below)
           = IF 0 \notin pte THEN Fault ELSE below
<1>1. EntryValid(pte, Present) <=> 0 \in pte
  BY DEF EntryValid, Present
<1> QED BY <1>1, Zenon DEF Until, GetPhys, Fault

\* A level that can.
LEMMA LowerLevel ==
  ASSUME NEW paging, Wide(paging), NEW k, ~ (k > Len(paging)),
         NEW level \in Levels, paging[k].leaf, paging[k].level = level,
         NEW pte \in Word, NEW virt \in Word, NEW below
  PROVE  Until(paging, k, pte, virt, below)
           = IF 0 \notin pte THEN Fault
             ELSE IF level = 12 \/ Huge(pte)
             THEN Frame(pte, level) \cup Offset(virt, level)
             ELSE below
<1>1. EntryValid(pte, Present) <=> 0 \in pte
  BY DEF EntryValid, Present
<1>2. GetPhys(paging, k, pte, virt) = Phys(level, pte, virt)
  BY Zenon DEF GetPhys
<1>3. Until(paging, k, pte, virt, below)
        = IF 0 \notin pte THEN InvalidPhys
          ELSE IF Phys(level, pte, virt) # InvalidPhys
          THEN Phys(level, pte, virt) ELSE below
  BY <1>1, <1>2, Zenon DEF Until
<1> QED BY <1>3, EntryIsRead, Zenon DEF Fault

\* The fields of the linear address by which the levels are indexed.
LEMMA LongFields ==
  ASSUME NEW virt \in Word
  PROVE  /\ Index(x86_64_paging[1], virt) = Field(virt, 47, 39)
         /\ Index(x86_64_paging[2], virt) = Field(virt, 38, 30)
         /\ Index(x86_64_paging[3], virt) = Field(virt, 29, 21)
         /\ Index(x86_64_paging[4], virt) = Field(virt, 20, 12)
<1>1. /\ x86_64_paging[1] \in Level
      /\ x86_64_paging[2] \in Level
      /\ x86_64_paging[3] \in Level
      /\ x86_64_paging[4] \in Level
  BY LongArray DEF Level
<1>2. \A l \in Level :
        Index(l, virt) = Field(virt, l.level + l.n - 1, l.level)
  BY IndexIsField, Zenon DEF Level
<1>3. /\ 39 + 9 - 1 = 47 /\ 30 + 9 - 1 = 38 /\ 21 + 9 - 1 = 29
      /\ 12 + 9 - 1 = 20 /\ 30 + 2 - 1 = 31
  OBVIOUS
<1> QED BY <1>1, <1>2, <1>3, LongArray

\* See LongFields.
LEMMA PaeFields ==
  ASSUME NEW virt \in Word
  PROVE  /\ Index(pae_paging[1], virt) = Field(virt, 31, 30)
         /\ Index(pae_paging[2], virt) = Field(virt, 29, 21)
         /\ Index(pae_paging[3], virt) = Field(virt, 20, 12)
<1>1. /\ pae_paging[1] \in Level
      /\ pae_paging[2] \in Level
      /\ pae_paging[3] \in Level
  BY PaeArray DEF Level
<1>2. \A l \in Level :
        Index(l, virt) = Field(virt, l.level + l.n - 1, l.level)
  BY IndexIsField, Zenon DEF Level
<1>3. /\ 39 + 9 - 1 = 47 /\ 30 + 9 - 1 = 38 /\ 21 + 9 - 1 = 29
      /\ 12 + 9 - 1 = 20 /\ 30 + 2 - 1 = 31
  OBVIOUS
<1> QED BY <1>1, <1>2, <1>3, PaeArray

-----------------------------------------------------------------------------
(***************************************************************************)
(* The walks.                                                              *)
(***************************************************************************)
\* vcpu_map_inst in long mode (x86_64_paging): for every memory and root table,
\* the walk finds the page in which the processor finds its code.
THEOREM LongWalk ==
  ASSUME NEW mem, IsMemory(mem), NEW root \in Word, NEW cr3,
         root = Frame(cr3, 12), NEW pdptes, NEW virt \in Word
  PROVE  WalkResult(mem, x86_64_paging, root, pdptes, virt)
           = LongLookup(mem, cr3, virt)
<1> DEFINE P == x86_64_paging
           E(k, table) == Entry(mem, P, pdptes, virt, k, table)
           p1 == Load64(mem, root \cup Up(Field(virt, 47, 39), 3))
           p2 == Load64(mem, Frame(p1, 12) \cup Up(Field(virt, 38, 30), 3))
           p3 == Load64(mem, Frame(p2, 12) \cup Up(Field(virt, 29, 21), 3))
           p4 == Load64(mem, Frame(p3, 12) \cup Up(Field(virt, 20, 12), 3))
           w4 == Until(P, 4, p4, virt, InvalidPhys)
           w3 == Until(P, 3, p3, virt, w4)
           w2 == Until(P, 2, p2, virt, w3)
           w1 == Until(P, 1, p1, virt, w2)
<1>1. p1 \in Word /\ p2 \in Word /\ p3 \in Word /\ p4 \in Word
  BY LoadedWords, Zenon
<1>2. /\ NextPt(p1) = Frame(p1, 12) /\ NextPt(p2) = Frame(p2, 12)
      /\ NextPt(p3) = Frame(p3, 12)
  BY <1>1, EntryIsRead, Zenon DEF Levels
<1>3. /\ P # << >> /\ Wide(P)
      /\ \A k : ~ (P = pae_paging /\ k = 1)
      /\ \A pte : NextTableOf(P, pte) = NextPt(pte)
  BY LevelsOfPaging, Zenon DEF NextTableOf
<1>4. \A table : E(1, table) = Load64(mem, table \cup Up(Field(virt, 47, 39), 3))
  BY <1>3, LongFields, Zenon DEF Entry
<1>5. \A table : E(2, table) = Load64(mem, table \cup Up(Field(virt, 38, 30), 3))
  BY <1>3, LongFields, Zenon DEF Entry
<1>6. \A table : E(3, table) = Load64(mem, table \cup Up(Field(virt, 29, 21), 3))
  BY <1>3, LongFields, Zenon DEF Entry
<1>7. \A table : E(4, table) = Load64(mem, table \cup Up(Field(virt, 20, 12), 3))
  BY <1>3, LongFields, Zenon DEF Entry
<1> HIDE DEF E
<1>8. WalkResult(mem, P, root, pdptes, virt) = w1
  <2>1. WalkResult(mem, P, root, pdptes, virt)
          = LET q1 == E(1, root)
                q2 == E(2, NextPt(q1))
                q3 == E(3, NextPt(q2))
                q4 == E(4, NextPt(q3))
            IN Until(P, 1, q1, virt, Until(P, 2, q2, virt,
                 Until(P, 3, q3, virt, Until(P, 4, q4, virt, InvalidPhys))))
    BY <1>3, Zenon DEF WalkResult, E
  <2>2. E(1, root) = p1 /\ E(2, NextPt(p1)) = p2
    BY <1>2, <1>4, <1>5, Zenon
  <2>3. E(3, NextPt(p2)) = p3 /\ E(4, NextPt(p3)) = p4
    BY <1>2, <1>6, <1>7, Zenon
  <2> HIDE DEF p1, p2, p3, p4
  <2> QED BY <2>1, <2>2, <2>3, Zenon
<1>9. ~ (1 > Len(P)) /\ ~ (2 > Len(P)) /\ ~ (3 > Len(P)) /\ ~ (4 > Len(P))
  BY LevelsOfPaging
<1> HIDE DEF P, p1, p2, p3, p4
<1>10. w1 = IF 0 \notin p1 THEN Fault ELSE w2
  <2>1. ~ P[1].leaf
    BY LongArray DEF P
  <2> HIDE DEF w2
  <2> QED BY <1>9, <2>1, UpperLevel
<1>11. w2 = IF 0 \notin p2 THEN Fault
            ELSE IF Huge(p2) THEN Frame(p2, 30) \cup Offset(virt, 30) ELSE w3
  <2>1. P[2].leaf /\ P[2].level = 30 /\ 30 \in Levels /\ 30 # 12
    BY LongArray DEF P, Levels
  <2> HIDE DEF w3
  <2> QED BY <1>1, <1>3, <1>9, <2>1, LowerLevel
<1>12. w3 = IF 0 \notin p3 THEN Fault
            ELSE IF Huge(p3) THEN Frame(p3, 21) \cup Offset(virt, 21) ELSE w4
  <2>1. P[3].leaf /\ P[3].level = 21 /\ 21 \in Levels /\ 21 # 12
    BY LongArray DEF P, Levels
  <2> HIDE DEF w4
  <2> QED BY <1>1, <1>3, <1>9, <2>1, LowerLevel
<1>13. w4 = IF 0 \notin p4 THEN Fault ELSE Frame(p4, 12) \cup Offset(virt, 12)
  <2>1. P[4].leaf /\ P[4].level = 12 /\ 12 \in Levels
    BY LongArray DEF P, Levels
  <2> QED BY <1>1, <1>3, <1>9, <2>1, LowerLevel
<1>14. PdLookup(mem, Frame(p2, 12), virt) = w3
  BY <1>12, <1>13, Zenon DEF PdLookup, PtLookup, p3, p4
<1>15. LongLookup(mem, cr3, virt)
         = IF 0 \notin p1 \/ 0 \notin p2 THEN Fault
           ELSE IF Huge(p2) THEN Frame(p2, 30) \cup Offset(virt, 30)
           ELSE PdLookup(mem, Frame(p2, 12), virt)
  BY Zenon DEF LongLookup, p1, p2
<1> HIDE DEF w1, w2, w3, w4
<1> QED BY <1>8, <1>10, <1>11, <1>14, <1>15, Zenon DEF P

\* vcpu_map_inst under PAE paging (pae_paging): for every memory and whatever
\* the PDPTE fields of the VMCS hold (vcpu_pae_get_pdpte).
THEOREM PaeWalk ==
  ASSUME NEW mem, IsMemory(mem), NEW root,
         NEW pdptes \in [SUBSET {0, 1} -> Word], NEW virt \in Word
  PROVE  WalkResult(mem, pae_paging, root, pdptes, virt)
           = PaeLookup(mem, pdptes, virt)
<1> DEFINE P == pae_paging
           E(k, table) == Entry(mem, P, pdptes, virt, k, table)
           p1 == pdptes[Field(virt, 31, 30)]
           p2 == Load64(mem, Frame(p1, 12) \cup Up(Field(virt, 29, 21), 3))
           p3 == Load64(mem, Frame(p2, 12) \cup Up(Field(virt, 20, 12), 3))
           p4 == E(4, NextPt(p3))
           w4 == Until(P, 4, p4, virt, InvalidPhys)
           w3 == Until(P, 3, p3, virt, w4)
           w2 == Until(P, 2, p2, virt, w3)
           w1 == Until(P, 1, p1, virt, w2)
<1>1. p1 \in Word /\ p2 \in Word /\ p3 \in Word
  <2>1. Field(virt, 31, 30) \in SUBSET {0, 1}
    BY DEF Field
  <2> QED BY <2>1, LoadedWords
<1>2. NextPt(p1) = Frame(p1, 12) /\ NextPt(p2) = Frame(p2, 12)
  BY <1>1, EntryIsRead, Zenon DEF Levels
<1>3. /\ P # << >> /\ Wide(P)
      /\ \A pte : NextTableOf(P, pte) = NextPt(pte)
  BY LevelsOfPaging, Zenon DEF NextTableOf
<1>4. E(1, root) = p1
  BY PaeFields, Zenon DEF Entry
<1>5. \A table : E(2, table) = Load64(mem, table \cup Up(Field(virt, 29, 21), 3))
  <2>1. ~ (2 = 1)
    OBVIOUS
  <2> QED BY <1>3, <2>1, PaeFields, Zenon DEF Entry
<1>6. \A table : E(3, table) = Load64(mem, table \cup Up(Field(virt, 20, 12), 3))
  <2>1. ~ (3 = 1)
    OBVIOUS
  <2> QED BY <1>3, <2>1, PaeFields, Zenon DEF Entry
<1> HIDE DEF E
<1>7. WalkResult(mem, P, root, pdptes, virt) = w1
  <2>1. WalkResult(mem, P, root, pdptes, virt)
          = LET q1 == E(1, root)
                q2 == E(2, NextPt(q1))
                q3 == E(3, NextPt(q2))
                q4 == E(4, NextPt(q3))
            IN Until(P, 1, q1, virt, Until(P, 2, q2, virt,
                 Until(P, 3, q3, virt, Until(P, 4, q4, virt, InvalidPhys))))
    BY <1>3, Zenon DEF WalkResult, E
  <2>2. E(1, root) = p1 /\ E(2, NextPt(p1)) = p2 /\ E(3, NextPt(p2)) = p3
    BY <1>2, <1>4, <1>5, <1>6, Zenon
  <2> HIDE DEF p1, p2, p3
  <2> QED BY <2>1, <2>2, Zenon
<1>8. ~ (1 > Len(P)) /\ ~ (2 > Len(P)) /\ ~ (3 > Len(P)) /\ 4 > Len(P)
  BY LevelsOfPaging
<1> HIDE DEF P, p1, p2, p3, p4
<1>9. w1 = IF 0 \notin p1 THEN Fault ELSE w2
  <2>1. ~ P[1].leaf
    BY PaeArray DEF P
  <2> HIDE DEF w2
  <2> QED BY <1>8, <2>1, UpperLevel
<1>10. w2 = IF 0 \notin p2 THEN Fault
            ELSE IF Huge(p2) THEN Frame(p2, 21) \cup Offset(virt, 21) ELSE w3
  <2>1. P[2].leaf /\ P[2].level = 21 /\ 21 \in Levels /\ 21 # 12
    BY PaeArray DEF P, Levels
  <2> HIDE DEF w3
  <2> QED BY <1>1, <1>3, <1>8, <2>1, LowerLevel
<1>11. w3 = IF 0 \notin p3 THEN Fault ELSE Frame(p3, 12) \cup Offset(virt, 12)
  <2>1. P[3].leaf /\ P[3].level = 12 /\ 12 \in Levels
    BY PaeArray DEF P, Levels
  <2> HIDE DEF w4
  <2> QED BY <1>1, <1>3, <1>8, <2>1, LowerLevel
<1>12. PdLookup(mem, Frame(p1, 12), virt) = w2
  BY <1>10, <1>11, Zenon DEF PdLookup, PtLookup, p2, p3
<1>13. PaeLookup(mem, pdptes, virt)
         = IF 0 \notin p1 THEN Fault ELSE PdLookup(mem, Frame(p1, 12), virt)
  BY Zenon DEF PaeLookup, p1
<1> HIDE DEF w1, w2
<1> QED BY <1>7, <1>9, <1>12, <1>13, Zenon DEF P

-----------------------------------------------------------------------------
(***************************************************************************)
(* The 32-bit walk.                                                        *)
(***************************************************************************)
\* The array i386_paging.
LEMMA Array32 ==
  /\ i386_paging[1] = [level |-> 22, n |-> 10, leaf |-> TRUE]
  /\ i386_paging[2] = [level |-> 12, n |-> 10, leaf |-> TRUE]
BY DEF i386_paging

\* The fields of the linear address by which its levels are indexed.
LEMMA Fields32 ==
  ASSUME NEW virt \in Word
  PROVE  /\ Index(i386_paging[1], virt) = Field(virt, 31, 22)
         /\ Index(i386_paging[2], virt) = Field(virt, 21, 12)
<1>1. i386_paging[1] \in Level /\ i386_paging[2] \in Level
  BY Array32 DEF Level
<1>2. \A l \in Level :
        Index(l, virt) = Field(virt, l.level + l.n - 1, l.level)
  BY IndexIsField, Zenon DEF Level
<1>3. 22 + 10 - 1 = 31 /\ 12 + 10 - 1 = 21
  OBVIOUS
<1> QED BY <1>1, <1>2, <1>3, Array32

\* What i386_get_phys_l* and i386_get_next_pt take from a 32-bit entry.
LEMMA EntryIsRead32 ==
  ASSUME NEW pte \in SUBSET (0 .. 31), NEW virt \in Word
  PROVE  /\ Phys32(12, pte, virt) = Frame(pte, 12) \cup Offset(virt, 12)
         /\ Phys32(12, pte, virt) # InvalidPhys
         /\ Huge(pte) =>
              /\ Phys32(22, pte, virt)
                   = Frame(pte, 22) \cup {b + 19 : b \in pte \cap 13 .. 16}
                       \cup Offset(virt, 22)
              /\ Phys32(22, pte, virt) # InvalidPhys
         /\ ~ Huge(pte) => Phys32(22, pte, virt) = InvalidPhys
         /\ NextPt32(pte) = Frame(pte, 12)
<1>1. \A first \in {12, 22} : pte \cap Bits(31, first) = Frame(pte, first)
  <2>1. ASSUME NEW first \in {12, 22}, NEW b
        PROVE  b \in pte \cap Bits(31, first) <=> b \in Frame(pte, first)
    <3>1. b \in pte => b \in 0 .. 31
      OBVIOUS
    <3> QED BY <3>1 DEF Bits, Frame
  <2> QED BY <2>1, Zenon
<1>2. \A first \in {12, 22} : virt \cap Bits(first - 1, 0) = Offset(virt, first)
  <2>1. ASSUME NEW first \in {12, 22}, NEW b
        PROVE  b \in virt \cap Bits(first - 1, 0) <=> b \in Offset(virt, first)
    <3>1. b \in virt => b \in 0 .. 63
      BY DEF Word
    <3> QED BY <3>1 DEF Bits, Offset
  <2> QED BY <2>1, Zenon
<1>3. Up(pte \cap Bits(16, 13), 32 - 13) = {b + 19 : b \in pte \cap 13 .. 16}
  BY DEF Up, Bits
<1>4. \A first \in {12, 22} : 63 \notin Frame(pte, first) /\ 63 \notin Offset(virt, first)
  BY DEF Frame, Offset
<1>5. 63 \notin {b + 19 : b \in pte \cap 13 .. 16} /\ 63 \in InvalidPhys
  BY DEF InvalidPhys
<1>6. 12 - 1 = 11 /\ 22 - 1 = 21 /\ 22 # 12
  OBVIOUS
<1>7. Phys32(12, pte, virt) = Frame(pte, 12) \cup Offset(virt, 12)
  BY <1>1, <1>2, <1>6, Zenon DEF Phys32
<1>8. ASSUME Huge(pte)
      PROVE  Phys32(22, pte, virt)
               = Frame(pte, 22) \cup {b + 19 : b \in pte \cap 13 .. 16}
                   \cup Offset(virt, 22)
  <2>1. pte \cap HugePage # {}
    BY <1>8 DEF Huge, HugePage
  <2>2. Phys32(22, pte, virt)
          = {b + 19 : b \in pte \cap 13 .. 16} \cup Frame(pte, 22)
              \cup Offset(virt, 22)
    BY <1>1, <1>2, <1>3, <1>6, <2>1, Zenon DEF Phys32
  <2> QED BY <2>2, Zenon
<1>9. ASSUME ~ Huge(pte)
      PROVE  Phys32(22, pte, virt) = InvalidPhys
  <2>1. pte \cap HugePage = {}
    BY <1>9 DEF Huge, HugePage
  <2> QED BY <1>6, <2>1, Zenon DEF Phys32
<1>10. NextPt32(pte) = Frame(pte, 12)
  BY <1>1, Zenon DEF NextPt32
<1> QED BY <1>4, <1>5, <1>7, <1>8, <1>9, <1>10, Zenon

\* vcpu_map_inst under 32-bit paging (i386_paging).  The walk does not ask for
\* CR4.PSE: it finds what the processor finds unless a guest without PSE has
\* the bit PS in the entry of its page directory.
THEOREM Walk32 ==
  ASSUME NEW mem, IsMemory(mem), NEW cr3, NEW root,
         root = {b \in cr3 : b \in 12 .. 31}, NEW pdptes, NEW virt \in Word,
         NEW pse \in BOOLEAN, pse \/ ~ Huge(Pde32(mem, cr3, virt))
  PROVE  WalkResult(mem, i386_paging, root, pdptes, virt)
           = Lookup32(mem, cr3, pse, virt)
<1> DEFINE P == i386_paging
           E(k, table) == Entry(mem, P, pdptes, virt, k, table)
           p1 == Load32(mem, root \cup Up(Field(virt, 31, 22), 2))
           p2 == Load32(mem, Frame(p1, 12) \cup Up(Field(virt, 21, 12), 2))
           p3 == E(3, NextPt32(p2))
           p4 == E(4, NextPt32(p3))
           w4 == Until(P, 4, p4, virt, InvalidPhys)
           w3 == Until(P, 3, p3, virt, w4)
           w2 == Until(P, 2, p2, virt, w3)
           w1 == Until(P, 1, p1, virt, w2)
<1>1. p1 \in SUBSET (0 .. 31) /\ p2 \in SUBSET (0 .. 31)
  BY LoadedWords, Zenon
<1>2. NextPt32(p1) = Frame(p1, 12)
  BY <1>1, EntryIsRead32, Zenon
<1>3. /\ P # << >> /\ ~ Wide(P) /\ P # pae_paging
      /\ \A pte : NextTableOf(P, pte) = NextPt32(pte)
  BY LevelsOfPaging, Zenon DEF NextTableOf
<1>4. \A table : E(1, table) = Load32(mem, table \cup Up(Field(virt, 31, 22), 2))
  BY <1>3, Fields32, Zenon DEF Entry
<1>5. \A table : E(2, table) = Load32(mem, table \cup Up(Field(virt, 21, 12), 2))
  BY <1>3, Fields32, Zenon DEF Entry
<1> HIDE DEF E
<1>6. WalkResult(mem, P, root, pdptes, virt) = w1
  <2>1. WalkResult(mem, P, root, pdptes, virt)
          = LET q1 == E(1, root)
                q2 == E(2, NextPt32(q1))
                q3 == E(3, NextPt32(q2))
                q4 == E(4, NextPt32(q3))
            IN Until(P, 1, q1, virt, Until(P, 2, q2, virt,
                 Until(P, 3, q3, virt, Until(P, 4, q4, virt, InvalidPhys))))
    BY <1>3, Zenon DEF WalkResult, E
  <2>2. E(1, root) = p1 /\ E(2, NextPt32(p1)) = p2
    BY <1>2, <1>4, <1>5, Zenon
  <2> HIDE DEF p1, p2
  <2> QED BY <2>1, <2>2, Zenon
<1>7. ~ (1 > Len(P)) /\ ~ (2 > Len(P))
  BY LevelsOfPaging
<1>8. /\ P[1].leaf /\ P[1].level = 22 /\ P[2].leaf /\ P[2].level = 12
  BY Array32
<1> HIDE DEF P, p1, p2, p3, p4, w3
<1>9. \A pte : EntryValid(pte, Present) <=> 0 \in pte
  BY DEF EntryValid, Present
<1>10. w2 = IF 0 \notin p2 THEN Fault ELSE Frame(p2, 12) \cup Offset(virt, 12)
  <2>1. GetPhys(P, 2, p2, virt) = Phys32(12, p2, virt)
    BY <1>3, <1>8, Zenon DEF GetPhys
  <2>2. Phys32(12, p2, virt) = Frame(p2, 12) \cup Offset(virt, 12)
    BY <1>1, EntryIsRead32, Zenon
  <2>3. Phys32(12, p2, virt) # InvalidPhys
    BY <1>1, EntryIsRead32, Zenon
  <2> QED BY <1>7, <1>9, <2>1, <2>2, <2>3, Zenon DEF Until, Fault
<1> HIDE DEF w2
<1>11. w1 = IF 0 \notin p1 THEN Fault
            ELSE IF Huge(p1)
            THEN Frame(p1, 22) \cup {b + 19 : b \in p1 \cap 13 .. 16}
                   \cup Offset(virt, 22)
            ELSE w2
  <2>1. GetPhys(P, 1, p1, virt) = Phys32(22, p1, virt)
    BY <1>3, <1>8, Zenon DEF GetPhys
  <2>2. w1 = IF 0 \notin p1 THEN Fault
             ELSE IF Phys32(22, p1, virt) # InvalidPhys
             THEN Phys32(22, p1, virt) ELSE w2
    BY <1>7, <1>9, <2>1, Zenon DEF Until, Fault
  <2> HIDE DEF w1
  <2>3. CASE Huge(p1)
    BY <1>1, <2>2, <2>3, EntryIsRead32, Zenon
  <2>4. CASE ~ Huge(p1)
    BY <1>1, <2>2, <2>4, EntryIsRead32, Zenon
  <2> QED BY <2>3, <2>4
<1>12. Pde32(mem, cr3, virt) = p1
  BY Zenon DEF Pde32, p1
<1>13. Lookup32(mem, cr3, pse, virt)
         = IF 0 \notin p1 THEN Fault
           ELSE IF pse /\ Huge(p1)
           THEN Frame(p1, 22) \cup {b + 19 : b \in p1 \cap 13 .. 16}
                  \cup Offset(virt, 22)
           ELSE IF 0 \notin p2 THEN Fault
           ELSE Frame(p2, 12) \cup Offset(virt, 12)
  BY <1>12, Zenon DEF Lookup32, p2
<1>14. pse \/ ~ Huge(p1)
  BY <1>12, Zenon
<1> HIDE DEF w1
<1> QED BY <1>6, <1>10, <1>11, <1>13, <1>14, Zenon DEF P

-----------------------------------------------------------------------------
(***************************************************************************)
(* The guest's processor.                                                  *)
(***************************************************************************)
\* The bits of CR0 and CR4 that are the hypervisor's have the values that VMX
\* operation asks for, and the guest cannot change them: they are masked, or
\* (CR4 between vmcs_setup and the first reset) a move is checked by the
\* processor itself.
HostBits(v) ==
  /\ v.cr0_mask = cr0_host_mask
  /\ v.cr4_mask \in {{}, cr4_host_mask}
  /\ cr0_required1 \subseteq v.cr0 /\ v.cr0 \subseteq cr0_maybe1
  /\ cr4_required1 \subseteq v.cr4 /\ v.cr4 \subseteq cr4_maybe1
  /\ v.cr4_mask = {} \/ "VMXE" \in v.cr4_shadow

\* The modes in which a guest can run.
GuestMode(v) ==
  /\ "PG" \in v.cr0 => "PE" \in v.cr0
  /\ Long(v) => "PG" \in v.cr0 /\ "PAE" \in v.cr4
  /\ "PG" \in v.cr0 => (Long(v) <=> "LME" \in v.efer)

\* An instruction is in progress until the guest has executed it or a handler
\* is done with it.
Progress ==
  /\ insn # None =>
       /\ phase \in {"guest", "exit"}
       /\ vmcs.rip = "at" /\ reg = None /\ vmcs.inject = None
  /\ phase = "exit" => insn # None /\ Exits(insn)
  /\ phase = "guest" => vmcs.inject = None
  /\ phase \in {"guest", "exit", "check"} => GuestMode(vmcs)
  /\ phase = "failed entry" => ~ Enterable(vmcs)

\* What a VM exit has saved for the handlers to read.
SavedState ==
  /\ phase # "guest" => (vmcs.ia32e <=> Long(vmcs))
  /\ phase = "exit" /\ ~ PaePaging(vmcs) => vmcs.pdptes = "undefined"

\* A parked CPU is in the state after a reset, caching is off with MTRRs, and an
\* exception that waits for the VM entry is one that the guest caused.
Rest ==
  /\ vmcs.ept = Parking =>
       insn = None /\ vmcs.inject = None /\ vmcs.efer = {} /\ "PG" \notin vmcs.cr0
  /\ ~ mtrr => vmcs.pat = "UC"
  /\ vmcs.inject # None => [op |-> "exception", arg |-> vmcs.inject] \in Insns

\* The inductive invariant.
GuestInv == TypeOK /\ OwnTables /\ HostBits(vmcs) /\ Progress /\ SavedState /\ Rest

-----------------------------------------------------------------------------
(***************************************************************************)
(* The registers.                                                          *)
(***************************************************************************)
\* What vmx_check_features takes from the processor.
LEMMA HostMasks ==
  /\ cr0_required1 \subseteq cr0_maybe1 /\ cr0_maybe1 \subseteq Cr0Bits
  /\ cr4_required1 \subseteq cr4_maybe1 /\ cr4_maybe1 \subseteq Cr4Bits
  /\ cr0_host_mask \subseteq Cr0Bits /\ cr4_host_mask \subseteq Cr4Bits
  /\ cr0_required1 \subseteq cr0_host_mask /\ cr4_required1 \subseteq cr4_host_mask
  /\ Cr0Bits \ cr0_maybe1 \subseteq cr0_host_mask
  /\ Cr4Bits \ cr4_maybe1 \subseteq cr4_host_mask
  /\ "PE" \notin cr0_host_mask /\ "PG" \notin cr0_host_mask
  /\ "VMXE" \in cr4_host_mask /\ "PAE" \notin cr4_host_mask
  /\ "OSXSAVE" \notin cr4_host_mask /\ "VMXE" \in cr4_required1
BY GuestAssumption DEF GuestAssumption, cr0_required1, cr0_maybe1,
   cr4_required1, cr4_maybe1, cr0_host_mask, cr4_host_mask, Cr0Bits, Cr4Bits

\* vmx_set_guest_cr, for CR0: the guest reads what it wrote, and the processor
\* has the bits it must have.
THEOREM GuestReadsCr0 ==
  ASSUME NEW v \in Vmcs, NEW val \in SUBSET Cr0Bits
  PROVE  LET w == SetGuestCr0(v, val) IN
         /\ w \in Vmcs /\ ReadCr0(w) = val
         /\ cr0_required1 \subseteq w.cr0 /\ w.cr0 \subseteq cr0_maybe1
         /\ HostBits(v) => HostBits(w)
         /\ \A f \in DOMAIN v \ {"cr0", "cr0_shadow", "cr0_mask"} : w[f] = v[f]
<1> DEFINE w == SetGuestCr0(v, val)
<1>1. /\ w.cr0 = (val \cap cr0_maybe1) \cup cr0_required1
      /\ w.cr0_shadow = val /\ w.cr0_mask = cr0_host_mask
      /\ w.cr4 = v.cr4 /\ w.cr4_mask = v.cr4_mask /\ w.cr4_shadow = v.cr4_shadow
  BY DEF SetGuestCr0, Vmcs
<1>2. w \in Vmcs
  <2>1. (val \cap cr0_maybe1) \cup cr0_required1 \in SUBSET Cr0Bits
    BY HostMasks
  <2>2. cr0_host_mask \in SUBSET Cr0Bits
    BY HostMasks
  <2> QED BY <2>1, <2>2 DEF SetGuestCr0, Vmcs
<1>3. \A f \in DOMAIN v \ {"cr0", "cr0_shadow", "cr0_mask"} : w[f] = v[f]
  BY DEF SetGuestCr0, Vmcs
<1> HIDE DEF w
<1>4. cr0_required1 \subseteq w.cr0 /\ w.cr0 \subseteq cr0_maybe1
  BY <1>1, HostMasks
<1>5. ReadCr0(w) = val
  BY <1>1, HostMasks DEF ReadCr0
<1> QED BY <1>1, <1>2, <1>3, <1>4, <1>5, Zenon DEF HostBits, w

\* vmx_set_guest_cr, for CR4: the same, with VMXE always read as one.
THEOREM GuestReadsCr4 ==
  ASSUME NEW v \in Vmcs, NEW val \in SUBSET Cr4Bits
  PROVE  LET w == SetGuestCr4(v, val) IN
         /\ w \in Vmcs
         /\ ReadCr4(w) = val \cup {"VMXE"} /\ GetGuestCr4(w) = val \cup {"VMXE"}
         /\ cr4_required1 \subseteq w.cr4 /\ w.cr4 \subseteq cr4_maybe1
         /\ w.cr4_mask = cr4_host_mask
         /\ HostBits(v) => HostBits(w)
         /\ \A f \in DOMAIN v \ {"cr4", "cr4_shadow", "cr4_mask"} : w[f] = v[f]
<1> DEFINE w == SetGuestCr4(v, val)
           visible == val \cup {"VMXE"}
<1>1. /\ w.cr4 = (visible \cap cr4_maybe1) \cup cr4_required1
      /\ w.cr4_shadow = visible /\ w.cr4_mask = cr4_host_mask
      /\ w.cr0 = v.cr0 /\ w.cr0_mask = v.cr0_mask
  BY DEF SetGuestCr4, Vmcs
<1>2. w \in Vmcs
  <2>1. (visible \cap cr4_maybe1) \cup cr4_required1 \in SUBSET Cr4Bits
    BY HostMasks
  <2>2. cr4_host_mask \in SUBSET Cr4Bits /\ visible \in SUBSET Cr4Bits
    BY HostMasks DEF Cr4Bits
  <2> QED BY <2>1, <2>2 DEF SetGuestCr4, Vmcs
<1>3. \A f \in DOMAIN v \ {"cr4", "cr4_shadow", "cr4_mask"} : w[f] = v[f]
  BY DEF SetGuestCr4, Vmcs
<1>4. visible \subseteq Cr4Bits
  BY DEF Cr4Bits
<1> HIDE DEF w, visible
<1>5. cr4_required1 \subseteq w.cr4 /\ w.cr4 \subseteq cr4_maybe1
  BY <1>1, HostMasks
<1>6. ReadCr4(w) = visible /\ GetGuestCr4(w) = visible
  BY <1>1, <1>4, HostMasks DEF ReadCr4, GetGuestCr4
<1>7. "VMXE" \in visible
  BY DEF visible
<1>8. HostBits(v) => HostBits(w)
  BY <1>1, <1>5, <1>7, Zenon DEF HostBits
<1> QED BY <1>1, <1>2, <1>3, <1>5, <1>6, <1>8, Zenon DEF w, visible

\* vcpu_vendor_reset and vcpu_park: the state after a reset and the tables.
LEMMA ResetVmcs ==
  ASSUME NEW v \in Vmcs, HostBits(v), NEW t \in Targets
  PROVE  LET w == VendorReset(v, t) IN
         /\ w \in Vmcs /\ HostBits(w)
         /\ w.cr4_mask = cr4_host_mask /\ w.efer = {} /\ w.ia32e = FALSE
         /\ ReadCr0(w) = {"CD"} /\ ReadCr4(w) = {"VMXE"}
         /\ "PG" \notin w.cr0
         /\ w.io_bitmap = t /\ w.ept = t /\ w.inject = None /\ w.rip = "at"
         /\ w.pat = v.pat
<1> DEFINE u == SetGuestCr0(v, {"CD"})
           c == SetGuestCr4(u, {})
           w == VendorReset(v, t)
<1>1. u \in Vmcs /\ HostBits(u) /\ ReadCr0(u) = {"CD"} /\ u.pat = v.pat
      /\ "PG" \notin u.cr0
  <2>1. {"CD"} \in SUBSET Cr0Bits
    BY DEF Cr0Bits
  <2>2. u \in Vmcs /\ HostBits(u) /\ ReadCr0(u) = {"CD"}
    BY <2>1, GuestReadsCr0, Zenon
  <2>3. u.pat = v.pat
    BY DEF SetGuestCr0, Vmcs
  <2>4. "PG" \notin u.cr0
    BY HostMasks DEF SetGuestCr0, Vmcs
  <2> QED BY <2>2, <2>3, <2>4
<1> HIDE DEF u
<1>2. c \in Vmcs /\ HostBits(c) /\ ReadCr4(c) = {} \cup {"VMXE"}
        /\ c.cr4_mask = cr4_host_mask
  <2>1. {} \in SUBSET Cr4Bits
    BY DEF Cr4Bits
  <2> QED BY <1>1, <2>1, GuestReadsCr4, Zenon
<1>3. /\ c.pat = u.pat /\ c.cr0 = u.cr0 /\ c.cr0_shadow = u.cr0_shadow
      /\ c.cr0_mask = u.cr0_mask
  BY <1>1 DEF SetGuestCr4, Vmcs
<1>4. w = [c EXCEPT !.cr3 = {}, !.rip = "at", !.efer = {}, !.inject = None,
                    !.ia32e = FALSE, !.io_bitmap = t, !.ept = t]
  <2>1. w = [[c EXCEPT !.cr3 = {}, !.rip = "at", !.efer = {}, !.inject = None,
                    !.ia32e = FALSE] EXCEPT !.io_bitmap = t, !.ept = t]
    BY Zenon DEF VendorReset, SetTargetConfig, u
  <2> HIDE DEF w, c
  <2> QED BY <1>2, <2>1 DEF Vmcs
<1> HIDE DEF w, c
<1>5. w \in Vmcs
  BY <1>2, <1>4 DEF Vmcs
<1>6. /\ w.cr0 = c.cr0 /\ w.cr0_shadow = c.cr0_shadow /\ w.cr0_mask = c.cr0_mask
      /\ w.cr4 = c.cr4 /\ w.cr4_shadow = c.cr4_shadow /\ w.cr4_mask = c.cr4_mask
      /\ w.pat = c.pat /\ w.io_bitmap = t /\ w.ept = t /\ w.inject = None
      /\ w.rip = "at" /\ w.efer = {} /\ w.ia32e = FALSE
  BY <1>2, <1>4 DEF Vmcs
<1>7. HostBits(w) /\ ReadCr0(w) = {"CD"} /\ ReadCr4(w) = {"VMXE"}
  BY <1>1, <1>2, <1>3, <1>6 DEF HostBits, ReadCr0, ReadCr4
<1> QED BY <1>1, <1>2, <1>3, <1>5, <1>6, <1>7 DEF w

\* vcpu_park, which resets the CPU first.
LEMMA ParkVmcs ==
  ASSUME NEW v \in Vmcs, HostBits(v), NEW t \in Targets
  PROVE  LET w == VcpuPark(v, t) IN
         /\ w \in Vmcs /\ HostBits(w)
         /\ w.cr4_mask = cr4_host_mask /\ w.efer = {} /\ w.ia32e = FALSE
         /\ ReadCr0(w) = {"CD"} /\ ReadCr4(w) = {"VMXE"}
         /\ "PG" \notin w.cr0
         /\ w.io_bitmap = t /\ w.ept = Parking /\ w.inject = None /\ w.rip = "at"
         /\ w.pat = v.pat
<1> DEFINE u == VendorReset(v, t)
           w == VcpuPark(v, t)
<1>1. /\ u \in Vmcs /\ HostBits(u)
      /\ u.cr4_mask = cr4_host_mask /\ u.efer = {} /\ u.ia32e = FALSE
      /\ ReadCr0(u) = {"CD"} /\ ReadCr4(u) = {"VMXE"}
      /\ "PG" \notin u.cr0
      /\ u.io_bitmap = t /\ u.inject = None /\ u.rip = "at" /\ u.pat = v.pat
  BY ResetVmcs, ZenonT(40)
<1>2. w = [u EXCEPT !.ept = Parking]
  BY Zenon DEF VcpuPark
<1> HIDE DEF u, w
<1>3. w \in Vmcs /\ w.ept = Parking
  BY <1>1, <1>2 DEF Vmcs
<1>4. /\ w.cr0 = u.cr0 /\ w.cr0_shadow = u.cr0_shadow /\ w.cr0_mask = u.cr0_mask
      /\ w.cr4 = u.cr4 /\ w.cr4_shadow = u.cr4_shadow /\ w.cr4_mask = u.cr4_mask
      /\ w.pat = u.pat /\ w.io_bitmap = u.io_bitmap /\ w.inject = u.inject
      /\ w.rip = u.rip /\ w.efer = u.efer /\ w.ia32e = u.ia32e
  BY <1>1, <1>2 DEF Vmcs
<1>5. HostBits(w) /\ ReadCr0(w) = {"CD"} /\ ReadCr4(w) = {"VMXE"}
  BY <1>1, <1>4 DEF HostBits, ReadCr0, ReadCr4
<1> QED BY <1>1, <1>3, <1>4, <1>5 DEF w

-----------------------------------------------------------------------------
(***************************************************************************)
(* The inductive invariant.                                                *)
(***************************************************************************)
\* vmcs_setup takes Linux's registers over and gives the CPU to the root target.
LEMMA GuestInit == Init => GuestInv
<1> SUFFICES ASSUME Init PROVE GuestInv
  OBVIOUS
<1>1. PICK c0 \in LinuxCr0s, c4 \in LinuxCr4s : vmcs = VmcsSetup(c0, c4)
  BY DEF Init
<1>2. c0 \in SUBSET Cr0Bits /\ c4 \in SUBSET Cr4Bits
  BY GuestAssumption, HostMasks DEF GuestAssumption
<1> DEFINE m0 == (c0 \cap cr0_maybe1) \cup cr0_required1
           m4 == ((c4 \cup {"VMXE"}) \cap cr4_maybe1) \cup cr4_required1
<1>3. vmcs = [cr0 |-> m0, cr0_shadow |-> c0, cr0_mask |-> cr0_host_mask,
              cr4 |-> m4, cr4_shadow |-> c4 \cup {"VMXE"}, cr4_mask |-> {},
              cr3 |-> Cr3, rip |-> "past", pdptes |-> "undefined",
              efer |-> {"LME", "LMA"}, ia32e |-> TRUE, inject |-> None,
              pat |-> LinuxPat, io_bitmap |-> Root, ept |-> Root]
  BY <1>1 DEF VmcsSetup, SetTargetConfig, SetGuestCr0, SetGuestCr4
<1>4. /\ m0 \in SUBSET Cr0Bits /\ cr0_required1 \subseteq m0 /\ m0 \subseteq cr0_maybe1
      /\ m4 \in SUBSET Cr4Bits /\ cr4_required1 \subseteq m4 /\ m4 \subseteq cr4_maybe1
      /\ c4 \cup {"VMXE"} \in SUBSET Cr4Bits
  BY <1>2, HostMasks DEF Cr4Bits
<1> HIDE DEF m0, m4
<1>5. vmcs \in Vmcs
  BY <1>2, <1>3, <1>4, GuestAssumption, HostMasks DEF GuestAssumption, Vmcs
<1>6. vmcs.io_bitmap = Root /\ vmcs.ept = Root
  BY <1>3
<1>7. HostBits(vmcs)
  BY <1>3, <1>4 DEF HostBits
<1>8. TypeOK /\ OwnTables
  BY <1>5, <1>6, GuestAssumption DEF Init, TypeOK, OwnTables, GuestAssumption
<1>9. Progress
  BY DEF Init, Progress
<1>10. SavedState /\ Rest
  BY <1>3, GuestAssumption DEF Init, SavedState, Rest, Long, GuestAssumption
<1> QED BY <1>7, <1>8, <1>9, <1>10 DEF GuestInv

\* A handler that succeeds leaves the tables and the host's bits as they are.
LEMMA ResumeKeepsInv ==
  ASSUME GuestInv, NEW v \in Vmcs, Resume(v), HostBits(v), v.inject = None,
         v.io_bitmap = vmcs.io_bitmap, v.ept = vmcs.ept, vmcs.ept # Parking,
         v.ia32e <=> Long(v), mtrr' \/ v.pat = "UC",
         pat' \in Pats, mtrr' \in BOOLEAN
  PROVE  GuestInv'
<1>1. vmcs' = v /\ phase' = "entry" /\ insn' = None
        /\ target' = target /\ failed' = failed
  BY DEF Resume
<1>2. TypeOK'
  BY <1>1 DEF GuestInv, TypeOK
<1>3. OwnTables' /\ HostBits(vmcs)'
  BY <1>1 DEF GuestInv, OwnTables, HostBits
<1>4. Progress'
  BY <1>1 DEF Progress
<1>5. SavedState' /\ Rest'
  BY <1>1 DEF SavedState, Rest, Long
<1> QED BY <1>2, <1>3, <1>4, <1>5 DEF GuestInv

\* panic_park fails the CPU and parks it.
LEMMA PanicKeepsInv ==
  ASSUME GuestInv, PanicPark
  PROVE  GuestInv'
<1>1. /\ vmcs' = VcpuPark(vmcs, target) /\ phase' = "entry" /\ insn' = None
      /\ failed' = TRUE /\ target' = target /\ pat' = pat /\ mtrr' = mtrr
  BY DEF PanicPark
<1>2. vmcs' \in Vmcs /\ HostBits(vmcs') /\ vmcs'.io_bitmap = target
        /\ vmcs'.ept = Parking /\ vmcs'.inject = None /\ vmcs'.efer = {}
        /\ "PG" \notin vmcs'.cr0 /\ vmcs'.ia32e = FALSE /\ vmcs'.pat = vmcs.pat
  BY <1>1, ParkVmcs, Zenon DEF GuestInv, TypeOK
<1>3. TypeOK' /\ OwnTables'
  BY <1>1, <1>2 DEF GuestInv, TypeOK, OwnTables
<1>4. Progress'
  BY <1>1 DEF Progress
<1>5. SavedState' /\ Rest'
  BY <1>1, <1>2 DEF GuestInv, SavedState, Rest, Long
<1> QED BY <1>2, <1>3, <1>4, <1>5 DEF GuestInv

\* The guest alone changes only registers and bits that are its own.
LEMMA FetchKeepsInv ==
  ASSUME GuestInv, NEW i \in Insns, Fetch(i)
  PROVE  GuestInv'
<1>1. /\ vmcs' = [vmcs EXCEPT !.rip = "at"] /\ insn' = i /\ phase = "guest"
      /\ reg' = None
      /\ vmcs.ept # Parking
      /\ UNCHANGED <<target, failed, phase, pat, mtrr>>
  BY DEF Fetch
<1>2. /\ vmcs' \in Vmcs /\ vmcs'.rip = "at"
      /\ vmcs'.cr0 = vmcs.cr0 /\ vmcs'.cr4 = vmcs.cr4 /\ vmcs'.efer = vmcs.efer
      /\ vmcs'.cr0_mask = vmcs.cr0_mask /\ vmcs'.cr4_mask = vmcs.cr4_mask
      /\ vmcs'.io_bitmap = vmcs.io_bitmap /\ vmcs'.ept = vmcs.ept
      /\ vmcs'.inject = vmcs.inject /\ vmcs'.cr4_shadow = vmcs.cr4_shadow
      /\ vmcs'.pat = vmcs.pat
  BY <1>1 DEF GuestInv, TypeOK, Vmcs
<1>3. TypeOK' /\ OwnTables' /\ HostBits(vmcs)'
  BY <1>1, <1>2 DEF GuestInv, TypeOK, OwnTables, HostBits
<1>4. Progress'
  BY <1>1, <1>2 DEF GuestInv, Progress, GuestMode, Long, OwnTables
<1>5. SavedState' /\ Rest'
  BY <1>1, <1>2 DEF GuestInv, SavedState, Rest
<1> QED BY <1>3, <1>4, <1>5 DEF GuestInv

\* See FetchKeepsInv.
LEMMA ExecuteKeepsInv ==
  ASSUME GuestInv, phase = "guest", insn # None, NEW v \in Vmcs, Execute(v), HostBits(v),
         v.io_bitmap = vmcs.io_bitmap, v.ept = vmcs.ept,
         v.inject = vmcs.inject, v.pat = vmcs.pat, GuestMode(v)
  PROVE  GuestInv'
<1>1. /\ vmcs' = [v EXCEPT !.rip = "past"] /\ insn' = None
      /\ UNCHANGED <<target, failed, phase, pat, mtrr>>
  BY DEF Execute
<1>2. /\ vmcs' \in Vmcs
      /\ vmcs'.cr0 = v.cr0 /\ vmcs'.cr4 = v.cr4 /\ vmcs'.efer = v.efer
      /\ vmcs'.cr0_mask = v.cr0_mask /\ vmcs'.cr4_mask = v.cr4_mask
      /\ vmcs'.io_bitmap = v.io_bitmap /\ vmcs'.ept = v.ept
      /\ vmcs'.inject = v.inject /\ vmcs'.cr4_shadow = v.cr4_shadow
      /\ vmcs'.pat = v.pat
  BY <1>1 DEF Vmcs
<1>3. TypeOK' /\ OwnTables' /\ HostBits(vmcs)'
  BY <1>1, <1>2 DEF GuestInv, TypeOK, OwnTables, HostBits
<1>4. Progress'
  BY <1>1, <1>2 DEF GuestInv, Progress, GuestMode, Long
<1>5. SavedState' /\ Rest'
  BY <1>1, <1>2 DEF GuestInv, SavedState, Rest
<1> QED BY <1>3, <1>4, <1>5 DEF GuestInv

\* See FetchKeepsInv.
LEMMA RaiseKeepsInv ==
  ASSUME GuestInv, phase = "guest", NEW vector, Raise(vector)
  PROVE  GuestInv'
<1>1. insn' = None /\ UNCHANGED <<target, failed, vmcs, phase, pat, mtrr>>
  BY DEF Raise
<1> QED BY <1>1 DEF GuestInv, TypeOK, OwnTables, HostBits, Progress, GuestMode,
                    Long, SavedState, Rest

\* Loading the PDPTEs changes nothing else.
LEMMA ReloadedVmcs ==
  ASSUME NEW w \in Vmcs, NEW v
  PROVE  LET r == Reloaded(v, w) IN
         /\ r \in Vmcs /\ r.cr0 = w.cr0 /\ r.cr4 = w.cr4 /\ r.efer = w.efer
         /\ r.cr0_mask = w.cr0_mask /\ r.cr4_mask = w.cr4_mask
         /\ r.cr0_shadow = w.cr0_shadow /\ r.cr4_shadow = w.cr4_shadow
         /\ r.io_bitmap = w.io_bitmap /\ r.ept = w.ept /\ r.inject = w.inject
         /\ r.pat = w.pat /\ r.rip = w.rip /\ r.cr3 = w.cr3
BY DEF Reloaded, Vmcs

\* A move to CR0 that does not exit.
LEMMA MovCr0KeepsInv ==
  ASSUME GuestInv, phase = "guest", insn # None, NEW val \in SUBSET Cr0Bits, GuestMovCr0(val)
  PROVE  GuestInv'
<1> DEFINE new == (val \ vmcs.cr0_mask) \cup (vmcs.cr0 \cap vmcs.cr0_mask)
           lma == "LME" \in vmcs.efer /\ "PG" \in new
           efer == IF lma THEN vmcs.efer \cup {"LMA"} ELSE vmcs.efer \ {"LMA"}
           w == [vmcs EXCEPT !.cr0 = new, !.efer = efer]
           v == Reloaded(vmcs, w)
           illegal == \/ "PG" \in new /\ "PE" \notin new
                      \/ "PG" \in new \ vmcs.cr0 /\ lma /\ "PAE" \notin vmcs.cr4
<1>1. CASE illegal
  <2>1. Raise("GP")
    BY <1>1, Zenon DEF GuestMovCr0
  <2> QED BY <2>1, RaiseKeepsInv
<1>2. CASE ~ illegal
  <2>1. Execute(v)
    BY <1>2, Zenon DEF GuestMovCr0
  <2>2. vmcs \in Vmcs /\ HostBits(vmcs) /\ GuestMode(vmcs)
    BY DEF GuestInv, TypeOK, Progress
  <2>3. new \in SUBSET Cr0Bits
    BY <2>2 DEF Vmcs
  <2>4. cr0_required1 \subseteq new /\ new \subseteq cr0_maybe1
    BY <2>2, HostMasks DEF HostBits, Vmcs
  <2>5. efer \in SUBSET {"LME", "LMA"}
    BY <2>2 DEF Vmcs
  <2>6. /\ "PG" \in new => "PE" \in new
        /\ "LMA" \in efer => "PG" \in new /\ "PAE" \in vmcs.cr4
        /\ "PG" \in new => ("LMA" \in efer <=> "LME" \in efer)
    BY <1>2, <2>2 DEF GuestMode, Long
  <2> HIDE DEF new, efer
  <2>7. /\ w \in Vmcs /\ w.cr0 = new /\ w.efer = efer /\ w.cr4 = vmcs.cr4
        /\ w.cr0_mask = vmcs.cr0_mask /\ w.cr4_mask = vmcs.cr4_mask
        /\ w.io_bitmap = vmcs.io_bitmap /\ w.ept = vmcs.ept /\ w.inject = vmcs.inject
        /\ w.pat = vmcs.pat /\ w.cr4_shadow = vmcs.cr4_shadow
    BY <2>2, <2>3, <2>5 DEF Vmcs
  <2> HIDE DEF w
  <2>8. /\ v \in Vmcs /\ v.cr0 = w.cr0 /\ v.efer = w.efer /\ v.cr4 = w.cr4
        /\ v.cr0_mask = w.cr0_mask /\ v.cr4_mask = w.cr4_mask
        /\ v.io_bitmap = w.io_bitmap /\ v.ept = w.ept /\ v.inject = w.inject
        /\ v.pat = w.pat /\ v.cr4_shadow = w.cr4_shadow
    BY <2>7, ReloadedVmcs, Zenon
  <2> HIDE DEF v
  <2>9. HostBits(v) /\ GuestMode(v)
    BY <2>2, <2>4, <2>6, <2>7, <2>8 DEF HostBits, GuestMode, Long
  <2> QED BY <2>1, <2>7, <2>8, <2>9, ExecuteKeepsInv
<1> QED BY <1>1, <1>2

\* A move to CR4 that does not exit.
LEMMA MovCr4KeepsInv ==
  ASSUME GuestInv, phase = "guest", insn # None, NEW val \in SUBSET Cr4Bits, GuestMovCr4(val)
  PROVE  GuestInv'
<1> DEFINE new == (val \ vmcs.cr4_mask) \cup (vmcs.cr4 \cap vmcs.cr4_mask)
           w == [vmcs EXCEPT !.cr4 = new]
           v == Reloaded(vmcs, w)
           illegal == \/ ~ (CR4_FIXED0 \subseteq new /\ new \subseteq CR4_FIXED1)
                      \/ Long(vmcs) /\ "PAE" \notin new
<1>1. CASE illegal
  <2>1. Raise("GP")
    BY <1>1, Zenon DEF GuestMovCr4
  <2> QED BY <2>1, RaiseKeepsInv
<1>2. CASE ~ illegal
  <2>1. Execute(v)
    BY <1>2, Zenon DEF GuestMovCr4
  <2>2. vmcs \in Vmcs /\ HostBits(vmcs) /\ GuestMode(vmcs)
    BY DEF GuestInv, TypeOK, Progress
  <2>3. new \in SUBSET Cr4Bits
    BY <2>2 DEF Vmcs
  <2>4. cr4_required1 \subseteq new /\ new \subseteq cr4_maybe1
    BY <1>2, Zenon DEF cr4_required1, cr4_maybe1
  <2>5. Long(vmcs) => "PAE" \in new
    BY <1>2
  <2> HIDE DEF new
  <2>6. /\ w \in Vmcs /\ w.cr4 = new /\ w.efer = vmcs.efer /\ w.cr0 = vmcs.cr0
        /\ w.cr0_mask = vmcs.cr0_mask /\ w.cr4_mask = vmcs.cr4_mask
        /\ w.io_bitmap = vmcs.io_bitmap /\ w.ept = vmcs.ept /\ w.inject = vmcs.inject
        /\ w.pat = vmcs.pat /\ w.cr4_shadow = vmcs.cr4_shadow
    BY <2>2, <2>3 DEF Vmcs
  <2> HIDE DEF w
  <2>7. /\ v \in Vmcs /\ v.cr0 = w.cr0 /\ v.efer = w.efer /\ v.cr4 = w.cr4
        /\ v.cr0_mask = w.cr0_mask /\ v.cr4_mask = w.cr4_mask
        /\ v.io_bitmap = w.io_bitmap /\ v.ept = w.ept /\ v.inject = w.inject
        /\ v.pat = w.pat /\ v.cr4_shadow = w.cr4_shadow
    BY <2>6, ReloadedVmcs, Zenon
  <2> HIDE DEF v
  <2>8. HostBits(v) /\ GuestMode(v)
    BY <2>2, <2>4, <2>5, <2>6, <2>7 DEF HostBits, GuestMode, Long
  <2> QED BY <2>1, <2>6, <2>7, <2>8, ExecuteKeepsInv
<1> QED BY <1>1, <1>2

\* Instructions that the guest executes without the hypervisor.
LEMMA GuestExecuteKeepsInv ==
  ASSUME GuestInv, GuestExecute
  PROVE  GuestInv'
<1>1. phase = "guest" /\ insn \in Insns /\ insn # None
  BY DEF GuestExecute, GuestInv, TypeOK
<1>2. vmcs \in Vmcs /\ HostBits(vmcs) /\ GuestMode(vmcs)
  BY <1>1 DEF GuestInv, TypeOK, Progress
<1>3. CASE insn.op = "mov cr0" /\ GuestMovCr0(insn.arg)
  BY <1>1, <1>3, MovCr0KeepsInv, InsnsAssumption DEF InsnsAssumption
<1>4. CASE insn.op = "mov cr4" /\ GuestMovCr4(insn.arg)
  BY <1>1, <1>4, MovCr4KeepsInv, InsnsAssumption DEF InsnsAssumption
<1>5. CASE insn.op = "mov cr3" /\ GuestMovCr3
  <2> DEFINE v == [vmcs EXCEPT !.cr3 = Cr3,
                     !.pdptes = IF PaePaging(vmcs) THEN "loaded" ELSE @]
  <2>1. Execute(v)
    BY <1>5, Zenon DEF GuestMovCr3
  <2>2. /\ v \in Vmcs /\ v.cr0 = vmcs.cr0 /\ v.efer = vmcs.efer /\ v.cr4 = vmcs.cr4
        /\ v.cr0_mask = vmcs.cr0_mask /\ v.cr4_mask = vmcs.cr4_mask
        /\ v.io_bitmap = vmcs.io_bitmap /\ v.ept = vmcs.ept /\ v.inject = vmcs.inject
        /\ v.pat = vmcs.pat /\ v.cr4_shadow = vmcs.cr4_shadow
    BY <1>2 DEF Vmcs
  <2> HIDE DEF v
  <2>3. HostBits(v) /\ GuestMode(v)
    BY <1>2, <2>2 DEF HostBits, GuestMode, Long
  <2> QED BY <1>1, <2>1, <2>2, <2>3, ExecuteKeepsInv
<1>6. CASE insn.op = "wrmsr efer" /\ GuestWriteEfer(insn.arg)
  <2> DEFINE lme == insn.arg
             v == [vmcs EXCEPT !.efer = IF lme THEN @ \cup {"LME"} ELSE @ \ {"LME"}]
  <2>1. CASE "PG" \in vmcs.cr0 /\ lme # ("LME" \in vmcs.efer)
    <3>1. Raise("GP")
      BY <1>6, <2>1, Zenon DEF GuestWriteEfer
    <3> QED BY <1>1, <3>1, RaiseKeepsInv
  <2>2. CASE ~ ("PG" \in vmcs.cr0 /\ lme # ("LME" \in vmcs.efer))
    <3>1. Execute(v)
      BY <1>6, <2>2, Zenon DEF GuestWriteEfer
    <3>2. lme \in BOOLEAN
      BY <1>1, <1>6, InsnsAssumption DEF InsnsAssumption
    <3>3. /\ v \in Vmcs /\ v.cr0 = vmcs.cr0 /\ v.cr4 = vmcs.cr4
          /\ v.efer = IF lme THEN vmcs.efer \cup {"LME"} ELSE vmcs.efer \ {"LME"}
          /\ v.cr0_mask = vmcs.cr0_mask /\ v.cr4_mask = vmcs.cr4_mask
          /\ v.io_bitmap = vmcs.io_bitmap /\ v.ept = vmcs.ept /\ v.inject = vmcs.inject
          /\ v.pat = vmcs.pat /\ v.cr4_shadow = vmcs.cr4_shadow
      BY <1>2 DEF Vmcs
    <3>4. "PG" \in vmcs.cr0 => (lme <=> "LME" \in vmcs.efer)
      BY <2>2, <3>2
    <3> HIDE DEF v
    <3>5. GuestMode(v)
      BY <1>2, <3>2, <3>3, <3>4 DEF GuestMode, Long
    <3>6. HostBits(v)
      BY <1>2, <3>3 DEF HostBits
    <3> QED BY <1>1, <3>1, <3>3, <3>5, <3>6, ExecuteKeepsInv
  <2> QED BY <2>1, <2>2
<1>7. CASE insn.op = "xsetbv" /\ Raise("UD")
  BY <1>1, <1>7, RaiseKeepsInv
<1> QED BY <1>3, <1>4, <1>5, <1>6, <1>7 DEF GuestExecute

\* What a VM exit saves.
LEMMA SavedVmcs ==
  ASSUME vmcs \in Vmcs
  PROVE  /\ Saved \in Vmcs /\ Saved.ia32e = Long(vmcs)
         /\ Saved.cr0 = vmcs.cr0 /\ Saved.cr4 = vmcs.cr4 /\ Saved.efer = vmcs.efer
         /\ Saved.cr0_mask = vmcs.cr0_mask /\ Saved.cr4_mask = vmcs.cr4_mask
         /\ Saved.cr0_shadow = vmcs.cr0_shadow /\ Saved.cr4_shadow = vmcs.cr4_shadow
         /\ Saved.io_bitmap = vmcs.io_bitmap /\ Saved.ept = vmcs.ept
         /\ Saved.inject = vmcs.inject /\ Saved.rip = vmcs.rip
         /\ Saved.pat = vmcs.pat /\ Saved.cr3 = vmcs.cr3
<1>1. Long(vmcs) \in BOOLEAN
  BY DEF Long
<1> QED BY <1>1 DEF Saved, Vmcs

\* A VM exit, to an exit handler or for an event.
LEMMA ExitKeepsInv ==
  ASSUME GuestInv, VmExit \/ Interrupted
  PROVE  GuestInv'
<1>1. /\ vmcs' = Saved /\ phase = "guest" /\ phase' \in {"exit", "check"}
      /\ phase' = "exit" => insn # None /\ Exits(insn)
      /\ phase' = "check" => insn = None
      /\ UNCHANGED <<target, failed, insn, reg, pat, mtrr>>
  BY DEF VmExit, Interrupted
<1>2. vmcs \in Vmcs
  BY DEF GuestInv, TypeOK
<1>3. /\ vmcs' \in Vmcs /\ vmcs'.ia32e = Long(vmcs)
      /\ vmcs'.cr0 = vmcs.cr0 /\ vmcs'.cr4 = vmcs.cr4 /\ vmcs'.efer = vmcs.efer
      /\ vmcs'.cr0_mask = vmcs.cr0_mask /\ vmcs'.cr4_mask = vmcs.cr4_mask
      /\ vmcs'.io_bitmap = vmcs.io_bitmap /\ vmcs'.ept = vmcs.ept
      /\ vmcs'.cr0_shadow = vmcs.cr0_shadow /\ vmcs'.cr4_shadow = vmcs.cr4_shadow
      /\ vmcs'.rip = vmcs.rip /\ vmcs'.inject = vmcs.inject /\ vmcs'.pat = vmcs.pat
      /\ ~ PaePaging(vmcs) => vmcs'.pdptes = "undefined"
  <2>1. ~ PaePaging(vmcs) => Saved.pdptes = "undefined"
    BY <1>2 DEF Saved, Vmcs
  <2> QED BY <1>1, <1>2, <2>1, SavedVmcs
<1>4. TypeOK' /\ OwnTables' /\ HostBits(vmcs)'
  BY <1>1, <1>3 DEF GuestInv, TypeOK, OwnTables, HostBits
<1>5. Progress'
  <2>1. Exits(insn)' <=> Exits(insn)
    BY <1>1, <1>3 DEF Exits, ReadCr4
  <2> QED BY <1>1, <1>3, <2>1 DEF GuestInv, Progress, GuestMode, Long
<1>6. SavedState'
  BY <1>1, <1>3 DEF SavedState, Long, PaePaging
<1>7. Rest'
  BY <1>1, <1>3 DEF GuestInv, Rest
<1> QED BY <1>4, <1>5, <1>6, <1>7 DEF GuestInv

\* A VM entry is made with a guest in a mode of its own, or fails.
LEMMA EntryKeepsInv ==
  ASSUME GuestInv, VmEntry
  PROVE  GuestInv'
<1>1. vmcs \in Vmcs /\ phase = "entry" /\ insn = None
        /\ UNCHANGED <<target, failed, insn, pat, mtrr>>
  BY DEF GuestInv, TypeOK, Progress, VmEntry
<1>2. CASE Enterable(vmcs)
  <2>1. phase' = "guest" /\ vmcs' = [vmcs EXCEPT !.inject = None]
    BY <1>2 DEF VmEntry
  <2>2. /\ vmcs' \in Vmcs /\ vmcs'.inject = None
        /\ vmcs'.cr0 = vmcs.cr0 /\ vmcs'.cr4 = vmcs.cr4 /\ vmcs'.efer = vmcs.efer
        /\ vmcs'.cr0_mask = vmcs.cr0_mask /\ vmcs'.cr4_mask = vmcs.cr4_mask
        /\ vmcs'.io_bitmap = vmcs.io_bitmap /\ vmcs'.ept = vmcs.ept
        /\ vmcs'.cr4_shadow = vmcs.cr4_shadow /\ vmcs'.pat = vmcs.pat
    BY <1>1, <2>1 DEF Vmcs
  <2>3. GuestMode(vmcs')
    BY <1>2, <2>2 DEF Enterable, GuestMode, Long
  <2>4. TypeOK' /\ OwnTables' /\ HostBits(vmcs)'
    BY <1>1, <2>1, <2>2 DEF GuestInv, TypeOK, OwnTables, HostBits
  <2>5. Progress'
    BY <1>1, <2>1, <2>2, <2>3 DEF Progress, GuestMode, Long
  <2>6. SavedState' /\ Rest'
    BY <1>1, <2>1, <2>2 DEF GuestInv, SavedState, Rest
  <2> QED BY <2>4, <2>5, <2>6 DEF GuestInv
<1>3. CASE ~ Enterable(vmcs)
  <2>1. phase' = "failed entry" /\ vmcs' = vmcs
    BY <1>3 DEF VmEntry
  <2>2. TypeOK' /\ OwnTables' /\ HostBits(vmcs)' /\ Rest'
    BY <1>1, <2>1 DEF GuestInv, TypeOK, OwnTables, HostBits, Rest
  <2>3. Enterable(vmcs)' <=> Enterable(vmcs)
    BY <2>1 DEF Enterable, Long
  <2>4. Progress' /\ SavedState'
    BY <1>1, <1>3, <2>1, <2>3 DEF GuestInv, Progress, SavedState, Long
  <2> QED BY <2>2, <2>4 DEF GuestInv
<1> QED BY <1>2, <1>3

\* vcpu_skip_emulated_instruction at an exit.
LEMMA SkippedVmcs ==
  ASSUME NEW v \in Vmcs, v.rip = "at"
  PROVE  /\ Skip(v) \in Vmcs /\ Skip(v).rip = "past"
         /\ Skip(v).cr0 = v.cr0 /\ Skip(v).cr4 = v.cr4 /\ Skip(v).efer = v.efer
         /\ Skip(v).cr0_mask = v.cr0_mask /\ Skip(v).cr4_mask = v.cr4_mask
         /\ Skip(v).cr0_shadow = v.cr0_shadow /\ Skip(v).cr4_shadow = v.cr4_shadow
         /\ Skip(v).io_bitmap = v.io_bitmap /\ Skip(v).ept = v.ept
         /\ Skip(v).inject = v.inject /\ Skip(v).pat = v.pat /\ Skip(v).ia32e = v.ia32e
         /\ Skip(v).pdptes = v.pdptes /\ Skip(v).cr3 = v.cr3
         /\ HostBits(v) => HostBits(Skip(v))
BY DEF Skip, Vmcs, HostBits

\* update_efer touches EFER and the entry control only.
LEMMA UpdatedEfer ==
  ASSUME NEW v \in Vmcs
  PROVE  LET w == UpdateEfer(v) IN
         /\ w \in Vmcs
         /\ w.cr0 = v.cr0 /\ w.cr4 = v.cr4
         /\ w.cr0_mask = v.cr0_mask /\ w.cr4_mask = v.cr4_mask
         /\ w.cr0_shadow = v.cr0_shadow /\ w.cr4_shadow = v.cr4_shadow
         /\ w.io_bitmap = v.io_bitmap /\ w.ept = v.ept
         /\ w.inject = v.inject /\ w.pat = v.pat /\ w.rip = v.rip
         /\ w.pdptes = v.pdptes /\ w.cr3 = v.cr3
         /\ IF v.efer = {"LME"} THEN w.efer = {"LME", "LMA"} /\ w.ia32e = TRUE
            ELSE w.efer = v.efer /\ w.ia32e = v.ia32e
<1>1. v.efer \cap {"LME", "LMA"} = {"LME"} <=> v.efer = {"LME"}
  BY DEF Vmcs
<1>2. CASE v.efer = {"LME"}
  BY <1>1, <1>2 DEF UpdateEfer, Vmcs
<1>3. CASE v.efer # {"LME"}
  BY <1>1, <1>3 DEF UpdateEfer, Vmcs
<1> QED BY <1>2, <1>3

\* vmx_handle_cr leaves the guest with the CR0 that it wrote.
LEMMA EmulatedCr0 ==
  ASSUME NEW v \in Vmcs, HostBits(v), v.rip = "at", NEW val \in SUBSET Cr0Bits
  PROVE  LET w == EmulateCr0(v, val) IN
         /\ w \in Vmcs /\ HostBits(w) /\ ReadCr0(w) = val
         /\ w.cr0_mask = cr0_host_mask
         /\ w.rip = "past" /\ w.cr4 = v.cr4
         /\ w.cr4_shadow = v.cr4_shadow /\ w.cr4_mask = v.cr4_mask
         /\ w.io_bitmap = v.io_bitmap /\ w.ept = v.ept
         /\ w.inject = v.inject /\ w.pat = v.pat /\ w.pdptes = v.pdptes
         /\ IF "PG" \in val /\ v.efer = {"LME"} THEN w.efer = {"LME", "LMA"}
            ELSE w.efer = v.efer
         /\ (v.ia32e <=> Long(v)) => (w.ia32e <=> Long(w))
<1> DEFINE s == Skip(v)
           c == SetGuestCr0(s, val)
           w == EmulateCr0(v, val)
<1>1. s \in Vmcs /\ HostBits(s) /\ s.rip = "past"
        /\ s.cr4 = v.cr4 /\ s.efer = v.efer
        /\ s.cr4_shadow = v.cr4_shadow /\ s.cr4_mask = v.cr4_mask
        /\ s.io_bitmap = v.io_bitmap /\ s.ept = v.ept
        /\ s.inject = v.inject /\ s.pat = v.pat /\ s.pdptes = v.pdptes
        /\ s.ia32e = v.ia32e
  BY SkippedVmcs, Zenon
<1>2. w = IF "PG" \in val THEN UpdateEfer(c) ELSE c
  BY Zenon DEF EmulateCr0
<1> HIDE DEF s, w
<1>3. c \in Vmcs /\ HostBits(c) /\ ReadCr0(c) = val
  BY <1>1, GuestReadsCr0, Zenon
<1>4. /\ c.rip = s.rip /\ c.cr4 = s.cr4 /\ c.efer = s.efer
      /\ c.cr4_shadow = s.cr4_shadow /\ c.cr4_mask = s.cr4_mask
      /\ c.io_bitmap = s.io_bitmap /\ c.ept = s.ept
      /\ c.inject = s.inject /\ c.pat = s.pat /\ c.pdptes = s.pdptes
      /\ c.ia32e = s.ia32e
  BY <1>1 DEF SetGuestCr0, Vmcs
<1> HIDE DEF c
<1>5. CASE "PG" \notin val
  BY <1>1, <1>2, <1>3, <1>4, <1>5 DEF HostBits, Long, w
<1>6. CASE "PG" \in val
  <2>1. w = UpdateEfer(c)
    BY <1>2, <1>6
  <2>2. /\ w \in Vmcs
        /\ w.cr0 = c.cr0 /\ w.cr4 = c.cr4
        /\ w.cr0_mask = c.cr0_mask /\ w.cr4_mask = c.cr4_mask
        /\ w.cr0_shadow = c.cr0_shadow /\ w.cr4_shadow = c.cr4_shadow
        /\ w.io_bitmap = c.io_bitmap /\ w.ept = c.ept
        /\ w.inject = c.inject /\ w.pat = c.pat /\ w.rip = c.rip
        /\ w.pdptes = c.pdptes
        /\ IF c.efer = {"LME"} THEN w.efer = {"LME", "LMA"} /\ w.ia32e = TRUE
           ELSE w.efer = c.efer /\ w.ia32e = c.ia32e
    BY <1>3, <2>1, UpdatedEfer, Zenon
  <2>3. HostBits(w) /\ ReadCr0(w) = val
    BY <1>3, <2>2 DEF HostBits, ReadCr0
  <2> QED BY <1>1, <1>4, <1>6, <2>2, <2>3 DEF HostBits, Long, w
<1> QED BY <1>5, <1>6

\* vmx_handle_cr leaves the guest with the CR4 that it wrote, and VMXE.
LEMMA EmulatedCr4 ==
  ASSUME NEW v \in Vmcs, HostBits(v), v.rip = "at", NEW val \in SUBSET Cr4Bits
  PROVE  LET w == EmulateCr4(v, val) IN
         /\ w \in Vmcs /\ HostBits(w) /\ ReadCr4(w) = val \cup {"VMXE"}
         /\ w.cr4_mask = cr4_host_mask
         /\ w.rip = "past" /\ w.cr0 = v.cr0
         /\ w.cr0_shadow = v.cr0_shadow /\ w.cr0_mask = v.cr0_mask
         /\ w.io_bitmap = v.io_bitmap /\ w.ept = v.ept
         /\ w.inject = v.inject /\ w.pat = v.pat /\ w.pdptes = v.pdptes
         /\ w.efer = v.efer /\ w.ia32e = v.ia32e
<1> DEFINE s == Skip(v)
           w == SetGuestCr4(s, val)
<1>1. s \in Vmcs /\ HostBits(s) /\ s.rip = "past"
        /\ s.cr0 = v.cr0 /\ s.efer = v.efer
        /\ s.cr0_shadow = v.cr0_shadow /\ s.cr0_mask = v.cr0_mask
        /\ s.io_bitmap = v.io_bitmap /\ s.ept = v.ept
        /\ s.inject = v.inject /\ s.pat = v.pat /\ s.pdptes = v.pdptes
        /\ s.ia32e = v.ia32e
  BY SkippedVmcs, Zenon
<1>2. EmulateCr4(v, val) = w
  BY Zenon DEF EmulateCr4
<1> HIDE DEF s
<1>3. w \in Vmcs /\ HostBits(w) /\ ReadCr4(w) = val \cup {"VMXE"}
        /\ w.cr4_mask = cr4_host_mask
  BY <1>1, GuestReadsCr4, Zenon
<1>4. /\ w.rip = s.rip /\ w.cr0 = s.cr0 /\ w.efer = s.efer
      /\ w.cr0_shadow = s.cr0_shadow /\ w.cr0_mask = s.cr0_mask
      /\ w.io_bitmap = s.io_bitmap /\ w.ept = s.ept
      /\ w.inject = s.inject /\ w.pat = s.pat /\ w.pdptes = s.pdptes
      /\ w.ia32e = s.ia32e
  BY <1>1 DEF SetGuestCr4, Vmcs
<1> HIDE DEF w
<1> QED BY <1>1, <1>2, <1>3, <1>4

\* At an exit, skipping the instruction and going on is harmless.
LEMMA SkipKeepsInv ==
  ASSUME GuestInv, phase = "exit", NEW v \in Vmcs, v.rip = "at", HostBits(v), v.inject = None,
         v.io_bitmap = vmcs.io_bitmap, v.ept = vmcs.ept, vmcs.ept # Parking,
         v.ia32e <=> Long(v), mtrr' \/ v.pat = "UC",
         Resume(Skip(v)), pat' \in Pats, mtrr' \in BOOLEAN
  PROVE  GuestInv'
<1>1. /\ Skip(v) \in Vmcs /\ HostBits(Skip(v))
      /\ Skip(v).io_bitmap = vmcs.io_bitmap /\ Skip(v).ept = vmcs.ept
      /\ Skip(v).inject = None
      /\ Skip(v).pat = v.pat /\ (Skip(v).ia32e <=> Long(Skip(v)))
  BY SkippedVmcs DEF Long
<1> QED BY <1>1, ResumeKeepsInv

\* The exit handlers.
LEMMA HandleExitKeepsInv ==
  ASSUME GuestInv, HandleExit
  PROVE  GuestInv'
<1>1. /\ phase = "exit" /\ insn \in Insns /\ vmcs.rip = "at" /\ vmcs.ept # Parking
      /\ GuestMode(vmcs) /\ (vmcs.ia32e <=> Long(vmcs))
      /\ mtrr \/ vmcs.pat = "UC"
      /\ vmcs.inject = None
  BY DEF HandleExit, GuestInv, TypeOK, Progress, SavedState, Rest
<1>2. vmcs \in Vmcs /\ HostBits(vmcs) /\ pat \in Pats /\ mtrr \in BOOLEAN
  BY DEF GuestInv, TypeOK
<1>3. ASSUME Resume(Skip(vmcs)), pat' = pat, mtrr' = mtrr
      PROVE  GuestInv'
  BY <1>1, <1>2, <1>3, SkipKeepsInv
<1>4. CASE HandleCr
  <2>1. pat' = pat /\ mtrr' = mtrr
    BY <1>4 DEF HandleCr, Untouched
  <2>2. CASE insn.op = "mov cr0" /\ Resume(EmulateCr0(vmcs, insn.arg))
    <3> DEFINE w == EmulateCr0(vmcs, insn.arg)
    <3>1. insn.arg \in SUBSET Cr0Bits
      BY <1>1, <2>2, InsnsAssumption DEF InsnsAssumption
    <3>2. w \in Vmcs /\ HostBits(w) /\ w.io_bitmap = vmcs.io_bitmap /\ w.ept = vmcs.ept
        /\ w.pat = vmcs.pat /\ (w.ia32e <=> Long(w)) /\ w.inject = None
      BY <1>1, <1>2, <3>1, EmulatedCr0, Zenon
    <3> HIDE DEF w
    <3> QED BY <1>1, <1>2, <2>1, <2>2, <3>2, ResumeKeepsInv DEF w
  <2>3. CASE insn.op = "mov cr4" /\ Resume(EmulateCr4(vmcs, insn.arg))
    <3> DEFINE w == EmulateCr4(vmcs, insn.arg)
    <3>1. insn.arg \in SUBSET Cr4Bits
      BY <1>1, <2>3, InsnsAssumption DEF InsnsAssumption
    <3>2. w \in Vmcs /\ HostBits(w) /\ w.io_bitmap = vmcs.io_bitmap /\ w.ept = vmcs.ept
        /\ w.pat = vmcs.pat /\ w.ia32e = vmcs.ia32e /\ w.efer = vmcs.efer
        /\ w.inject = None
      BY <1>1, <1>2, <3>1, EmulatedCr4, Zenon
    <3> HIDE DEF w
    <3>3. w.ia32e <=> Long(w)
      BY <1>1, <3>2 DEF Long
    <3> QED BY <1>1, <1>2, <2>1, <2>3, <3>2, <3>3, ResumeKeepsInv DEF w
  <2> QED BY <1>4, <2>2, <2>3 DEF HandleCr
<1>5. CASE HandleCpuid \/ HandleHypercall \/ HandleMsrRead
  BY <1>2, <1>3, <1>5 DEF HandleCpuid, HandleHypercall, HandleMsrRead
<1>6. CASE HandleMsrWrite
  <2>1. CASE PanicPark
    BY <2>1, PanicKeepsInv
  <2>2. CASE /\ insn.arg \in Pats /\ pat' = insn.arg /\ mtrr' = mtrr
             /\ Resume(Skip([vmcs EXCEPT !.pat = PatInForce(insn.arg)]))
    <3> DEFINE v == [vmcs EXCEPT !.pat = PatInForce(insn.arg)]
    <3>1. PatInForce(insn.arg) \in Pats \cup {"UC"}
      BY <1>2, <2>2 DEF PatInForce, Vmcs
    <3>2. v \in Vmcs /\ HostBits(v) /\ v.rip = "at"
            /\ v.io_bitmap = vmcs.io_bitmap /\ v.ept = vmcs.ept
            /\ v.ia32e = vmcs.ia32e /\ v.efer = vmcs.efer /\ v.inject = None
            /\ v.pat = PatInForce(insn.arg)
      BY <1>1, <1>2, <3>1 DEF Vmcs, HostBits
    <3>3. (v.ia32e <=> Long(v)) /\ (mtrr' \/ v.pat = "UC")
      BY <1>1, <2>2, <3>2 DEF Long, PatInForce
    <3> HIDE DEF v
    <3> QED BY <1>1, <1>2, <2>2, <3>2, <3>3, SkipKeepsInv DEF v
  <2>3. CASE /\ insn.op = "wrmsr mtrr" /\ mtrr' = insn.arg /\ pat' = pat
             /\ Resume(Skip([vmcs EXCEPT !.pat = IF insn.arg THEN pat ELSE "UC"]))
    <3> DEFINE v == [vmcs EXCEPT !.pat = IF insn.arg THEN pat ELSE "UC"]
    <3>1. insn.arg \in BOOLEAN
      BY <1>1, <2>3, InsnsAssumption DEF InsnsAssumption
    <3>2. v \in Vmcs /\ HostBits(v) /\ v.rip = "at"
            /\ v.io_bitmap = vmcs.io_bitmap /\ v.ept = vmcs.ept
            /\ v.ia32e = vmcs.ia32e /\ v.efer = vmcs.efer /\ v.inject = None
            /\ v.pat = IF insn.arg THEN pat ELSE "UC"
      BY <1>1, <1>2 DEF Vmcs, HostBits
    <3>3. (v.ia32e <=> Long(v)) /\ (mtrr' \/ v.pat = "UC")
      BY <1>1, <2>3, <3>1, <3>2 DEF Long
    <3> HIDE DEF v
    <3> QED BY <1>1, <1>2, <2>3, <3>1, <3>2, <3>3, SkipKeepsInv DEF v
  <2> QED BY <1>6, <2>1, <2>2, <2>3 DEF HandleMsrWrite
<1>7. CASE HandleMsrOther \/ HandleXsetbv \/ HandleIo \/ HandleMemory
  <2>1. (Resume(Skip(vmcs)) /\ pat' = pat /\ mtrr' = mtrr) \/ PanicPark
    BY <1>7 DEF HandleMsrOther, HandleXsetbv, HandleIo, HandleMemory, Untouched
  <2> QED BY <1>2, <1>3, <2>1, PanicKeepsInv
<1>8. CASE HandleException
  <2>1. /\ vmcs' = [vmcs EXCEPT !.inject = insn.arg] /\ insn' = None
        /\ phase' = "check" /\ UNCHANGED <<target, failed, reg, pat, mtrr>>
    BY <1>8 DEF HandleException
  <2>2. insn.arg \in {"DB", "AC"}
    BY <1>1, <1>8, InsnsAssumption DEF HandleException, InsnsAssumption
  <2>3. /\ vmcs' \in Vmcs /\ vmcs'.ia32e = vmcs.ia32e
        /\ vmcs'.cr0 = vmcs.cr0 /\ vmcs'.cr4 = vmcs.cr4 /\ vmcs'.efer = vmcs.efer
        /\ vmcs'.cr0_mask = vmcs.cr0_mask /\ vmcs'.cr4_mask = vmcs.cr4_mask
        /\ vmcs'.io_bitmap = vmcs.io_bitmap /\ vmcs'.ept = vmcs.ept
        /\ vmcs'.cr4_shadow = vmcs.cr4_shadow /\ vmcs'.pat = vmcs.pat
    BY <1>2, <2>1, <2>2 DEF Vmcs
  <2>4. TypeOK' /\ OwnTables' /\ HostBits(vmcs)'
    BY <2>1, <2>3 DEF GuestInv, TypeOK, OwnTables, HostBits
  <2>5. Progress'
    BY <1>1, <2>1, <2>3 DEF GuestInv, Progress, GuestMode, Long
  <2>6. SavedState'
    BY <1>1, <2>1, <2>3 DEF SavedState, Long
  <2>7. vmcs'.inject = insn.arg /\ [op |-> "exception", arg |-> insn.arg] \in Insns
    BY <1>1, <1>2, <1>8, <2>1, InsnsAssumption
       DEF HandleException, InsnsAssumption, Vmcs
  <2>8. Rest'
    BY <1>1, <2>1, <2>3, <2>7 DEF Rest
  <2> QED BY <2>4, <2>5, <2>6, <2>8 DEF GuestInv
<1>9. CASE insn.op = "shutdown" /\ PanicPark
  BY <1>9, PanicKeepsInv
<1> QED BY <1>4, <1>5, <1>6, <1>7, <1>8, <1>9 DEF HandleExit

\* vcpu_reset revives the CPU with the tables of its target.
LEMMA ResetKeepsInv ==
  ASSUME GuestInv, NEW hard \in BOOLEAN, Reset(hard)
  PROVE  GuestInv'
<1> DEFINE w == VendorReset(vmcs, target)
<1>1. /\ phase' = "entry" /\ failed' = FALSE /\ insn' = None /\ target' = target
      /\ vmcs' = [w EXCEPT !.pat = IF hard THEN "UC" ELSE @]
      /\ pat' \in {pat, ResetPat} /\ mtrr' \in {mtrr, FALSE}
      /\ hard \/ mtrr' = mtrr
  BY DEF Reset
<1>2. w \in Vmcs /\ HostBits(w) /\ w.io_bitmap = target /\ w.ept = target
        /\ w.efer = {} /\ w.ia32e = FALSE /\ w.pat = vmcs.pat /\ w.inject = None
  <2>1. vmcs \in Vmcs /\ HostBits(vmcs) /\ target \in Targets
    BY DEF GuestInv, TypeOK
  <2> QED BY <2>1, ResetVmcs, Zenon
<1> HIDE DEF w
<1>3. /\ vmcs' \in Vmcs /\ HostBits(vmcs')
      /\ vmcs'.io_bitmap = target /\ vmcs'.ept = target
      /\ vmcs'.efer = {} /\ vmcs'.ia32e = FALSE /\ vmcs'.inject = None
      /\ vmcs'.pat = IF hard THEN "UC" ELSE vmcs.pat
  BY <1>1, <1>2 DEF Vmcs, HostBits
<1>4. TypeOK' /\ OwnTables'
  BY <1>1, <1>3, GuestAssumption DEF GuestInv, TypeOK, OwnTables, GuestAssumption
<1>5. Progress'
  BY <1>1 DEF Progress
<1>6. SavedState'
  BY <1>1, <1>3 DEF SavedState, Long
<1>7. Rest'
  <2>1. vmcs'.ept # Parking /\ vmcs'.inject = None
    BY <1>3, GuestAssumption DEF GuestInv, TypeOK, GuestAssumption
  <2>2. CASE hard
    BY <1>3, <2>1, <2>2 DEF Rest
  <2>3. CASE ~ hard
    <3>1. vmcs'.pat = vmcs.pat /\ mtrr' = mtrr
      BY <1>1, <1>3, <2>3
    <3> QED BY <2>1, <3>1 DEF GuestInv, Rest
  <2> QED BY <2>2, <2>3
<1> QED BY <1>3, <1>4, <1>5, <1>6, <1>7 DEF GuestInv

\* vcpu_park, for the CPU's own target or for the one it is given to.
LEMMA ParkKeepsInv ==
  ASSUME GuestInv, NEW t \in Targets, Park(t)
  PROVE  GuestInv'
<1>1. /\ phase' = "entry" /\ failed' \in BOOLEAN /\ insn' = None /\ target' = t
      /\ vmcs' = VcpuPark(vmcs, t) /\ pat' = pat /\ mtrr' = mtrr
  BY DEF Park, GuestInv, TypeOK
<1>2. vmcs' \in Vmcs /\ HostBits(vmcs') /\ vmcs'.io_bitmap = t /\ vmcs'.ept = Parking
        /\ vmcs'.inject = None /\ vmcs'.efer = {} /\ vmcs'.ia32e = FALSE
        /\ "PG" \notin vmcs'.cr0 /\ vmcs'.pat = vmcs.pat
  BY <1>1, ParkVmcs, Zenon DEF GuestInv, TypeOK
<1>3. TypeOK' /\ OwnTables'
  BY <1>1, <1>2 DEF GuestInv, TypeOK, OwnTables
<1>4. Progress'
  BY <1>1 DEF Progress
<1>5. SavedState' /\ Rest'
  BY <1>1, <1>2 DEF GuestInv, SavedState, Rest, Long
<1> QED BY <1>2, <1>3, <1>4, <1>5 DEF GuestInv

\* Every step preserves the invariant.
LEMMA GuestStep == GuestInv /\ [Next]_vars => GuestInv'
<1> SUFFICES ASSUME GuestInv, [Next]_vars PROVE GuestInv'
  OBVIOUS
<1>1. CASE \E i \in Insns : Fetch(i)
  BY <1>1, FetchKeepsInv
<1>2. CASE GuestExecute
  BY <1>2, GuestExecuteKeepsInv
<1>3. CASE VmExit \/ Interrupted
  BY <1>3, ExitKeepsInv
<1>4. CASE VmEntry
  BY <1>4, EntryKeepsInv
<1>5. CASE HandleExit
  BY <1>5, HandleExitKeepsInv
<1>6. CASE HandleFailedEntry
  BY <1>6, PanicKeepsInv DEF HandleFailedEntry
<1>7. CASE NoEvent
  <2>1. phase' = "entry" /\ phase = "check"
          /\ UNCHANGED <<target, failed, vmcs, insn, reg, pat, mtrr>>
    BY <1>7 DEF NoEvent
  <2> QED BY <2>1 DEF GuestInv, TypeOK, OwnTables, HostBits, Progress,
                      SavedState, Rest, Long
<1>8. CASE \E hard \in BOOLEAN : Reset(hard)
  BY <1>8, ResetKeepsInv
<1>9. CASE \E t \in Targets : Park(t)
  BY <1>9, ParkKeepsInv
<1>10. CASE UNCHANGED vars
  <2>1. UNCHANGED <<target, failed, vmcs, phase, insn, reg, pat, mtrr>>
    BY <1>10 DEF vars
  <2>2. (Exits(insn)' <=> Exits(insn)) /\ (Enterable(vmcs)' <=> Enterable(vmcs))
    BY <2>1 DEF Exits, ReadCr4, Enterable, Long
  <2> QED BY <2>1, <2>2, ZenonT(60) DEF GuestInv, TypeOK, OwnTables, HostBits, Progress,
                            GuestMode, Long, SavedState, Rest, PaePaging
<1> QED BY <1>1, <1>2, <1>3, <1>4, <1>5, <1>6, <1>7, <1>8, <1>9, <1>10 DEF Next

\* The invariant holds in every reachable state.
THEOREM GuestInvariant == Spec => []GuestInv
BY GuestInit, GuestStep, PTL DEF Spec

\* The fields of the VMCS keep their range, and no handler skips twice.
THEOREM GuestTyping == Spec => []TypeOK
<1>1. GuestInv => TypeOK
  BY DEF GuestInv
<1> QED BY <1>1, GuestInvariant, PTL

\* vmx_set_target_config and vcpu_park: no sequence of failures, resets and
\* changes of the target leaves a CPU with the tables of another target.
THEOREM TablesAreOwn == Spec => []OwnTables
<1>1. GuestInv => OwnTables
  BY DEF GuestInv
<1> QED BY <1>1, GuestInvariant, PTL

\* vmx_set_guest_cr, vmcs_setup: whatever the guest does, CR0 and CR4 have the
\* bits that VMX operation requires and none that it forbids.
THEOREM HostBitsAreHeld == Spec => []HostBits(vmcs)
<1>1. GuestInv => HostBits(vmcs)
  BY DEF GuestInv
<1> QED BY <1>1, GuestInvariant, PTL

\* vcpu_get_guest_paging_structs and paging.c: the hypervisor finds the
\* instruction that the guest executes, for every memory, but for an entry with
\* the bit PS that the processor does not heed (StrayPs).
THEOREM RightInstruction == Spec => []EmulatesWhatGuestExecutes
<1>1. GuestInv => EmulatesWhatGuestExecutes
  <2> SUFFICES ASSUME GuestInv, phase = "exit", NEW virt \in Addresses,
                      ~ StrayPs(virt)
               PROVE  FetchedFrom(virt) = ExecutedFrom(virt)
    BY Zenon DEF EmulatesWhatGuestExecutes
  <2>1. virt \in Word /\ IsMemory(Memory) /\ OldPdptes \in [SUBSET {0, 1} -> Word]
    BY MemoryAssumption DEF MemoryAssumption
  <2>2. vmcs \in Vmcs /\ vmcs.ia32e = Long(vmcs) /\ GuestMode(vmcs)
    <3>1. vmcs \in Vmcs /\ (vmcs.ia32e <=> Long(vmcs)) /\ GuestMode(vmcs)
      BY DEF GuestInv, TypeOK, Progress, SavedState
    <3> QED BY <3>1 DEF Vmcs, Long
  <2>3. vmcs.cr3 \in Word
    BY <2>2, GuestAssumption DEF GuestAssumption, Vmcs, Word
  <2>4. CASE Long(vmcs)
    <3> DEFINE root == vmcs.cr3 \cap Bits(51, 12)
    <3>1. "PG" \in vmcs.cr0
      BY <2>2, <2>4 DEF GuestMode
    <3>2. root \in Word /\ root = Frame(vmcs.cr3, 12)
      <4>1. 12 \in Levels
        BY DEF Levels
      <4>2. NextPt(vmcs.cr3) = Frame(vmcs.cr3, 12) /\ NextPt(vmcs.cr3) \in Word
        BY <2>1, <2>3, <4>1, EntryIsRead, Zenon
      <4> QED BY <4>2, Zenon DEF NextPt
    <3>3. FetchedFrom(virt) = WalkResult(Memory, x86_64_paging, root, Pdptes, virt)
      BY <2>2, <2>4 DEF FetchedFrom, GuestPagingStructs
    <3>4. ExecutedFrom(virt) = LongLookup(Memory, vmcs.cr3, virt)
      BY <2>4, <3>1, Zenon DEF ExecutedFrom
    <3> HIDE DEF root
    <3> QED BY <2>1, <3>2, <3>3, <3>4, LongWalk
  <2>5. CASE ~ Long(vmcs) /\ "PG" \notin vmcs.cr0
    <3>1. FetchedFrom(virt) = WalkResult(Memory, << >>, {}, Pdptes, virt)
      BY <2>2, <2>5 DEF FetchedFrom, GuestPagingStructs
    <3>2. ExecutedFrom(virt) = virt
      BY <2>5, Zenon DEF ExecutedFrom
    <3> QED BY <3>1, <3>2, Zenon DEF WalkResult
  <2>6. CASE ~ Long(vmcs) /\ "PG" \in vmcs.cr0 /\ "PAE" \in vmcs.cr4
    <3> DEFINE root == vmcs.cr3 \cap Bits(31, 5)
    <3>1. FetchedFrom(virt) = WalkResult(Memory, pae_paging, root, Pdptes, virt)
      BY <2>2, <2>6 DEF FetchedFrom, GuestPagingStructs
    <3>2. ExecutedFrom(virt) = PaeLookup(Memory, Pdptes, virt)
      BY <2>6, Zenon DEF ExecutedFrom, PaePaging
    <3>3. Pdptes \in [SUBSET {0, 1} -> Word]
      BY <2>1, LoadedWords DEF Pdptes
    <3> HIDE DEF root
    <3> QED BY <2>1, <3>1, <3>2, <3>3, PaeWalk
  <2>7. CASE ~ Long(vmcs) /\ "PG" \in vmcs.cr0 /\ "PAE" \notin vmcs.cr4
    <3> DEFINE root == vmcs.cr3 \cap Bits(31, 12)
               pse == "PSE" \in vmcs.cr4
    <3>1. FetchedFrom(virt) = WalkResult(Memory, i386_paging, root, Pdptes, virt)
      BY <2>2, <2>7 DEF FetchedFrom, GuestPagingStructs
    <3>2. ExecutedFrom(virt) = Lookup32(Memory, vmcs.cr3, pse, virt)
      BY <2>7, Zenon DEF ExecutedFrom, PaePaging
    <3>3. root = {b \in vmcs.cr3 : b \in 12 .. 31}
      BY DEF Bits
    <3>4. pse \/ ~ Huge(Pde32(Memory, vmcs.cr3, virt))
      BY <2>7, Zenon DEF StrayPs
    <3>5. pse \in BOOLEAN
      OBVIOUS
    <3> HIDE DEF root, pse
    <3> QED BY <2>1, <3>1, <3>2, <3>3, <3>4, <3>5, Walk32
  <2> QED BY <2>4, <2>5, <2>6, <2>7
<1> QED BY <1>1, GuestInvariant, PTL

-----------------------------------------------------------------------------
(***************************************************************************)
(* GuestCpu implements GuestProcessor: every step of the guest, of a VM    *)
(* exit, of a handler and of a VM entry is a step of the processor that    *)
(* the guest sees, or none at all.                                         *)
(***************************************************************************)
\* The bits that select the paging mode are the guest's: it reads what the
\* processor uses.
LEMMA GuestBits ==
  ASSUME NEW v \in Vmcs, HostBits(v)
  PROVE  /\ "PG" \in ReadCr0(v) <=> "PG" \in v.cr0
         /\ "PE" \in ReadCr0(v) <=> "PE" \in v.cr0
         /\ "PAE" \in ReadCr4(v) <=> "PAE" \in v.cr4
         /\ "OSXSAVE" \in ReadCr4(v) <=> "OSXSAVE" \in GetGuestCr4(v)
BY HostMasks DEF HostBits, ReadCr0, ReadCr4, GetGuestCr4

\* Long mode and PAE paging are the same for the guest and for the processor.
LEMMA SameMode ==
  ASSUME NEW v \in Vmcs, HostBits(v)
  PROVE  /\ Processor!Long(v.efer) <=> Long(v)
         /\ Processor!PaePaging(ReadCr0(v), ReadCr4(v), v.efer) <=> PaePaging(v)
BY GuestBits DEF Processor!Long, Processor!PaePaging, Long, PaePaging

\* A guest in one of its modes is in a state that the architecture knows.
LEMMA ModeIsConsistent ==
  ASSUME vmcs \in Vmcs, HostBits(vmcs)
  PROVE  GuestMode(vmcs) <=> Processor!Consistent
BY GuestBits DEF GuestMode, Long, Processor!Consistent, Processor!Long

\* While an instruction is in progress, the processor runs and is at it.
LEMMA AtInstruction ==
  ASSUME GuestInv, insn # None
  PROVE  ProcessorRun = "on" /\ ProcessorInsn = insn
BY DEF GuestInv, OwnTables, Progress, Rest, ProcessorRun, ProcessorInsn

\* A guest that runs has not failed and is not parked.
LEMMA Running ==
  ASSUME GuestInv, vmcs.ept # Parking
  PROVE  ProcessorRun = "on"
BY DEF GuestInv, OwnTables, ProcessorRun

\* Registers that the processor shares with the VMCS.
LEMMA SameRegisters ==
  ASSUME GuestInv, failed' = failed, vmcs'.ept = vmcs.ept,
         vmcs'.cr0 = vmcs.cr0, vmcs'.cr0_shadow = vmcs.cr0_shadow,
         vmcs'.cr0_mask = vmcs.cr0_mask,
         vmcs'.cr4 = vmcs.cr4, vmcs'.cr4_shadow = vmcs.cr4_shadow,
         vmcs'.cr4_mask = vmcs.cr4_mask, vmcs'.efer = vmcs.efer
  PROVE  /\ ProcessorRun' = ProcessorRun
         /\ ReadCr0(vmcs)' = ReadCr0(vmcs) /\ ReadCr4(vmcs)' = ReadCr4(vmcs)
         /\ PaePaging(vmcs)' <=> PaePaging(vmcs)
         /\ vmcs'.pdptes = vmcs.pdptes \/ ~ PaePaging(vmcs)
              => ProcessorPdptes' = ProcessorPdptes
<1>1. ProcessorRun' = ProcessorRun
  BY DEF ProcessorRun
<1>2. ReadCr0(vmcs)' = ReadCr0(vmcs) /\ ReadCr4(vmcs)' = ReadCr4(vmcs)
  BY DEF ReadCr0, ReadCr4
<1>3. PaePaging(vmcs)' <=> PaePaging(vmcs)
  BY DEF PaePaging, Long
<1> QED BY <1>1, <1>2, <1>3 DEF ProcessorPdptes

\* A step that the guest does not see.
LEMMA NoStep ==
  ASSUME GuestInv, failed' = failed, vmcs'.ept = vmcs.ept,
         vmcs'.cr0 = vmcs.cr0, vmcs'.cr0_shadow = vmcs.cr0_shadow,
         vmcs'.cr0_mask = vmcs.cr0_mask,
         vmcs'.cr4 = vmcs.cr4, vmcs'.cr4_shadow = vmcs.cr4_shadow,
         vmcs'.cr4_mask = vmcs.cr4_mask, vmcs'.efer = vmcs.efer,
         vmcs'.pdptes = vmcs.pdptes \/ ~ PaePaging(vmcs),
         vmcs'.pat = vmcs.pat, vmcs'.rip = vmcs.rip,
         ProcessorInsn' = ProcessorInsn,
         UNCHANGED <<target, reg, pat, mtrr, handling>>
  PROVE  UNCHANGED Processor!vars
BY SameRegisters DEF Processor!vars, Processor!registers

-----------------------------------------------------------------------------
(***************************************************************************)
(* The guest's own steps.                                                  *)
(***************************************************************************)
\* The next instruction of the guest is that of the processor.
LEMMA FetchRefines ==
  ASSUME GuestInv, NEW i \in Insns, Fetch(i)
  PROVE  Processor!Fetch(i)
<1>1. /\ vmcs' = [vmcs EXCEPT !.rip = "at"] /\ insn' = i /\ reg' = None
      /\ handling' = None /\ phase = "guest" /\ insn = None
      /\ vmcs.ept # Parking
      /\ UNCHANGED <<target, failed, phase, pat, mtrr>>
  BY DEF Fetch
<1>2. vmcs \in Vmcs /\ HostBits(vmcs) /\ GuestMode(vmcs) /\ vmcs.inject = None
  BY <1>1 DEF GuestInv, TypeOK, Progress
<1>3. /\ vmcs'.rip = "at" /\ vmcs'.inject = None
      /\ vmcs'.cr0 = vmcs.cr0 /\ vmcs'.cr0_shadow = vmcs.cr0_shadow
      /\ vmcs'.cr0_mask = vmcs.cr0_mask
      /\ vmcs'.cr4 = vmcs.cr4 /\ vmcs'.cr4_shadow = vmcs.cr4_shadow
      /\ vmcs'.cr4_mask = vmcs.cr4_mask /\ vmcs'.efer = vmcs.efer
      /\ vmcs'.pdptes = vmcs.pdptes /\ vmcs'.pat = vmcs.pat
      /\ vmcs'.ept = vmcs.ept
  BY <1>1, <1>2 DEF Vmcs
<1>4. ProcessorInsn = None /\ ProcessorInsn' = i
  BY <1>1, <1>2, <1>3 DEF ProcessorInsn
<1>5. Processor!Consistent /\ ProcessorRun = "on"
  BY <1>1, <1>2, ModeIsConsistent, Running
<1>6. /\ ProcessorRun' = ProcessorRun /\ ProcessorPdptes' = ProcessorPdptes
      /\ ReadCr0(vmcs)' = ReadCr0(vmcs) /\ ReadCr4(vmcs)' = ReadCr4(vmcs)
  BY <1>1, <1>3, SameRegisters
<1> QED BY <1>1, <1>3, <1>4, <1>5, <1>6
        DEF Processor!Fetch, Processor!registers

\* Instructions that the guest executes alone: what all of them do.
LEMMA ExecuteRetires ==
  ASSUME GuestInv, phase = "guest", insn # None, NEW v \in Vmcs, Execute(v),
         v.ept = vmcs.ept, v.inject = vmcs.inject
  PROVE  /\ Processor!Retire /\ UNCHANGED <<reg, pat, mtrr>>
         /\ vmcs'.pat = v.pat /\ vmcs'.efer = v.efer
         /\ ReadCr0(vmcs)' = ReadCr0(v) /\ ReadCr4(vmcs)' = ReadCr4(v)
         /\ ProcessorPdptes' = IF PaePaging(v) THEN v.pdptes ELSE "undefined"
<1>1. /\ vmcs' = [v EXCEPT !.rip = "past"] /\ insn' = None
      /\ UNCHANGED <<target, failed, phase, reg, pat, mtrr, handling>>
  BY DEF Execute
<1>2. /\ vmcs'.rip = "past"
      /\ vmcs'.cr0 = v.cr0 /\ vmcs'.cr0_shadow = v.cr0_shadow
      /\ vmcs'.cr0_mask = v.cr0_mask
      /\ vmcs'.cr4 = v.cr4 /\ vmcs'.cr4_shadow = v.cr4_shadow
      /\ vmcs'.cr4_mask = v.cr4_mask /\ vmcs'.efer = v.efer
      /\ vmcs'.pdptes = v.pdptes /\ vmcs'.pat = v.pat
      /\ vmcs'.ept = v.ept /\ vmcs'.inject = v.inject
  BY <1>1 DEF Vmcs
<1>3. vmcs.inject = None
  BY DEF GuestInv, Progress
<1>4. ProcessorInsn' = None
  BY <1>1, <1>2, <1>3 DEF ProcessorInsn
<1>5. ProcessorRun' = ProcessorRun
  BY <1>1, <1>2 DEF ProcessorRun
<1>6. ReadCr0(vmcs)' = ReadCr0(v) /\ ReadCr4(vmcs)' = ReadCr4(v)
  BY <1>2 DEF ReadCr0, ReadCr4
<1>7. PaePaging(vmcs)' <=> PaePaging(v)
  BY <1>2 DEF PaePaging, Long
<1>8. ProcessorPdptes' = IF PaePaging(v) THEN v.pdptes ELSE "undefined"
  BY <1>2, <1>7 DEF ProcessorPdptes
<1> QED BY <1>1, <1>2, <1>4, <1>5, <1>6, <1>8 DEF Processor!Retire

\* An instruction that raises an exception in the guest.
LEMMA RaiseRefines ==
  ASSUME GuestInv, phase = "guest", NEW vector, Raise(vector)
  PROVE  Processor!Raise(vector)
<1>1. /\ handling' = vector /\ insn' = None
      /\ UNCHANGED <<target, failed, vmcs, reg, pat, mtrr>>
  BY DEF Raise
<1>2. vmcs.inject = None
  BY DEF GuestInv, Progress
<1>3. ProcessorInsn' = None
  BY <1>1, <1>2 DEF ProcessorInsn
<1>4. ProcessorRun' = ProcessorRun /\ ProcessorPdptes' = ProcessorPdptes
  BY <1>1 DEF ProcessorRun, ProcessorPdptes, PaePaging, Long
<1>5. ReadCr0(vmcs)' = ReadCr0(vmcs) /\ ReadCr4(vmcs)' = ReadCr4(vmcs)
  BY <1>1 DEF ReadCr0, ReadCr4
<1> QED BY <1>1, <1>3, <1>4, <1>5 DEF Processor!Raise, Processor!registers

\* Reload of the processor, in terms of the VMCS.
LEMMA ReloadOfVmcs ==
  ASSUME vmcs \in Vmcs, HostBits(vmcs), NEW w \in Vmcs, HostBits(w)
  PROVE  Processor!Reload(ReadCr0(w), ReadCr4(w), w.efer)
           = IF ~ PaePaging(w) THEN "undefined"
             ELSE IF PaePaging(vmcs) THEN vmcs.pdptes ELSE "loaded"
BY SameMode, Zenon DEF Processor!Reload, ProcessorPdptes

\* Reloaded does the same.
LEMMA ReloadedPdptes ==
  ASSUME NEW v \in Vmcs, NEW w \in Vmcs, w.pdptes = v.pdptes
  PROVE  Reloaded(v, w).pdptes
           = IF ~ PaePaging(w) THEN "undefined"
             ELSE IF PaePaging(v) THEN v.pdptes ELSE "loaded"
BY DEF Reloaded, Vmcs

\* A move to CR0 without an exit is one that does not touch the hypervisor's bits.
LEMMA MovCr0Refines ==
  ASSUME GuestInv, phase = "guest", insn # None,
         NEW val \in SUBSET Cr0Bits, GuestMovCr0(val),
         ~ CrExits(val, vmcs.cr0_shadow, vmcs.cr0_mask)
  PROVE  Processor!MoveCR0(val)
<1> DEFINE mask == vmcs.cr0_mask
           new == (val \ mask) \cup (vmcs.cr0 \cap mask)
           lma == "LME" \in vmcs.efer /\ "PG" \in new
           efer == IF lma THEN vmcs.efer \cup {"LMA"} ELSE vmcs.efer \ {"LMA"}
           w == [vmcs EXCEPT !.cr0 = new, !.efer = efer]
           v == Reloaded(vmcs, w)
           illegal == \/ "PG" \in new /\ "PE" \notin new
                      \/ "PG" \in new \ vmcs.cr0 /\ lma /\ "PAE" \notin vmcs.cr4
           cr0 == ReadCr0(vmcs)
           cr4 == ReadCr4(vmcs)
<1>1. vmcs \in Vmcs /\ HostBits(vmcs) /\ GuestMode(vmcs) /\ mask = cr0_host_mask
  BY DEF GuestInv, TypeOK, Progress, HostBits
<1>2. val \cap mask = vmcs.cr0_shadow \cap mask
  BY DEF CrExits
<1>3. ~ Processor!Differ(val, cr0, cr0_host_mask)
  BY <1>1, <1>2 DEF Processor!Differ, ReadCr0
<1>4. "PG" \notin mask /\ "PE" \notin mask
  BY <1>1, HostMasks
<1>5. ("PG" \in new <=> "PG" \in val) /\ ("PE" \in new <=> "PE" \in val)
  BY <1>4
<1>6. Processor!Legal0(val) <=> ~ illegal
  BY <1>1, <1>5, GuestBits DEF Processor!Legal0
<1>7. efer = Processor!Efer(val)
  BY <1>5 DEF Processor!Efer
<1>8. CASE illegal
  <2>1. Raise("GP")
    BY <1>8, Zenon DEF GuestMovCr0
  <2>2. Processor!Raise("GP")
    BY <2>1, RaiseRefines
  <2> QED BY <1>6, <1>8, <2>2, Zenon DEF Processor!MoveCR0
<1>9. CASE ~ illegal
  <2>1. Execute(v)
    BY <1>9, Zenon DEF GuestMovCr0
  <2>2. new \in SUBSET Cr0Bits /\ efer \in SUBSET {"LME", "LMA"}
    BY <1>1 DEF Vmcs
  <2>3. ReadCr0([vmcs EXCEPT !.cr0 = new]) = val
    <3>1. (vmcs.cr0_shadow \cap mask) \cup (new \ mask) = val
      BY <1>2
    <3> HIDE DEF new, mask
    <3>2. /\ [vmcs EXCEPT !.cr0 = new].cr0 = new
          /\ [vmcs EXCEPT !.cr0 = new].cr0_shadow = vmcs.cr0_shadow
          /\ [vmcs EXCEPT !.cr0 = new].cr0_mask = vmcs.cr0_mask
      BY <1>1 DEF Vmcs
    <3> QED BY <3>1, <3>2, Zenon DEF ReadCr0, mask
  <2> HIDE DEF new, efer, mask, lma
  <2>4. /\ w \in Vmcs /\ w.cr0 = new /\ w.efer = efer /\ w.cr4 = vmcs.cr4
        /\ w.cr0_mask = vmcs.cr0_mask /\ w.cr4_mask = vmcs.cr4_mask
        /\ w.cr0_shadow = vmcs.cr0_shadow /\ w.cr4_shadow = vmcs.cr4_shadow
        /\ w.ept = vmcs.ept /\ w.inject = vmcs.inject
        /\ w.pat = vmcs.pat /\ w.pdptes = vmcs.pdptes
    BY <1>1, <2>2 DEF Vmcs
  <2>5. ReadCr0(w) = val /\ ReadCr4(w) = cr4 /\ HostBits(w)
    <3>1. ReadCr0(w) = val
      BY <2>3, <2>4, <1>1, <2>2 DEF ReadCr0, Vmcs
    <3>2. cr0_required1 \subseteq new /\ new \subseteq cr0_maybe1
      BY <1>1, HostMasks DEF HostBits, Vmcs, new, mask
    <3> QED BY <1>1, <2>4, <3>1, <3>2 DEF ReadCr4, HostBits
  <2> HIDE DEF w
  <2>6. v \in Vmcs /\ v.cr0 = w.cr0 /\ v.cr4 = w.cr4 /\ v.efer = w.efer
        /\ v.cr0_mask = w.cr0_mask /\ v.cr4_mask = w.cr4_mask
        /\ v.cr0_shadow = w.cr0_shadow /\ v.cr4_shadow = w.cr4_shadow
        /\ v.ept = w.ept /\ v.inject = w.inject /\ v.pat = w.pat
    BY <2>4, ReloadedVmcs, Zenon
  <2>7. v.pdptes = IF ~ PaePaging(w) THEN "undefined"
                   ELSE IF PaePaging(vmcs) THEN vmcs.pdptes ELSE "loaded"
    BY <1>1, <2>4, ReloadedPdptes
  <2> HIDE DEF v
  <2>8. (PaePaging(v) <=> PaePaging(w)) /\ ReadCr0(v) = val /\ ReadCr4(v) = cr4
    BY <2>5, <2>6 DEF PaePaging, Long, ReadCr0, ReadCr4
  <2>9. Processor!Reload(val, cr4, efer)
          = IF ~ PaePaging(w) THEN "undefined"
            ELSE IF PaePaging(vmcs) THEN vmcs.pdptes ELSE "loaded"
    BY <1>1, <2>4, <2>5, ReloadOfVmcs
  <2>10. /\ Processor!Retire /\ UNCHANGED <<reg, pat, mtrr>>
         /\ vmcs'.pat = vmcs.pat /\ vmcs'.efer = efer
         /\ ReadCr0(vmcs)' = val /\ ReadCr4(vmcs)' = cr4
         /\ ProcessorPdptes' = Processor!Reload(val, cr4, efer)
    BY <2>1, <2>4, <2>6, <2>7, <2>8, <2>9, ExecuteRetires
  <2>11. Processor!Legal0(val)
    BY <1>6, <1>9
  <2> QED BY <1>3, <1>7, <2>10, <2>11, Zenon DEF Processor!MoveCR0
<1> QED BY <1>8, <1>9

\* A move to CR4 without an exit: either no bit is masked (before the first
\* reset or emulated move), or it does not touch the hypervisor's bits.
LEMMA MovCr4Refines ==
  ASSUME GuestInv, phase = "guest", insn # None,
         NEW val \in SUBSET Cr4Bits, GuestMovCr4(val),
         ~ CrExits(val, vmcs.cr4_shadow, vmcs.cr4_mask)
  PROVE  Processor!MoveCR4(val)
<1> DEFINE mask == vmcs.cr4_mask
           new == (val \ mask) \cup (vmcs.cr4 \cap mask)
           w == [vmcs EXCEPT !.cr4 = new]
           v == Reloaded(vmcs, w)
           illegal == \/ ~ (CR4_FIXED0 \subseteq new /\ new \subseteq CR4_FIXED1)
                      \/ Long(vmcs) /\ "PAE" \notin new
           cr0 == ReadCr0(vmcs)
           cr4 == ReadCr4(vmcs)
<1>1. vmcs \in Vmcs /\ HostBits(vmcs) /\ GuestMode(vmcs)
  BY DEF GuestInv, TypeOK, Progress
<1>2. /\ mask \in {{}, cr4_host_mask}
      /\ cr4_required1 \subseteq vmcs.cr4 /\ vmcs.cr4 \subseteq cr4_maybe1
      /\ mask = {} \/ "VMXE" \in vmcs.cr4_shadow
      /\ vmcs.cr4 \in SUBSET Cr4Bits /\ vmcs.cr4_shadow \in SUBSET Cr4Bits
  BY <1>1 DEF HostBits, Vmcs
<1>3. val \cap mask = vmcs.cr4_shadow \cap mask
  BY DEF CrExits
<1>4. "PAE" \in new <=> "PAE" \in val
  BY <1>2, HostMasks
<1>5. Processor!Long(vmcs.efer) <=> Long(vmcs)
  BY <1>1, SameMode
<1>6. CR4_FIXED0 = {"VMXE"} /\ CR4_FIXED1 = cr4_maybe1 /\ cr4_required1 = {"VMXE"}
  BY FixedAssumption DEF FixedAssumption, cr4_maybe1, cr4_required1
<1>7. illegal => ~ Processor!Legal4(val) \/ "VMXE" \notin val
  <2>1. CASE mask = {}
    <3>1. new = val /\ cr4 = vmcs.cr4
      BY <2>1 DEF ReadCr4
    <3> QED BY <1>2, <1>4, <1>5, <1>6, <3>1 DEF Processor!Legal4
  <2>2. CASE mask = cr4_host_mask
    <3>1. CR4_FIXED0 \subseteq new /\ new \subseteq CR4_FIXED1
      BY <1>2, <1>6, <2>2, HostMasks
    <3> QED BY <1>4, <1>5, <3>1 DEF Processor!Legal4
  <2> QED BY <1>2, <2>1, <2>2
<1>8. ~ illegal => Processor!Legal4(val) /\ "VMXE" \in val
  <2>1. CASE mask = {}
    <3>1. new = val
      BY <2>1
    <3> QED BY <1>4, <1>5, <1>6, <3>1 DEF Processor!Legal4
  <2>2. CASE mask = cr4_host_mask
    <3>1. "VMXE" \in val
      BY <1>2, <1>3, <2>2, HostMasks
    <3>2. val \subseteq cr4_maybe1 \cup cr4
      BY <1>2, <1>3, <2>2, HostMasks DEF ReadCr4
    <3> QED BY <1>4, <1>5, <3>1, <3>2 DEF Processor!Legal4
  <2> QED BY <1>2, <2>1, <2>2
<1>9. CASE illegal
  <2>1. Raise("GP")
    BY <1>9, Zenon DEF GuestMovCr4
  <2>2. Processor!Raise("GP")
    BY <2>1, RaiseRefines
  <2> QED BY <1>7, <1>9, <2>2, Zenon DEF Processor!MoveCR4
<1>10. CASE ~ illegal
  <2>1. Execute(v)
    BY <1>10, Zenon DEF GuestMovCr4
  <2>2. new \in SUBSET Cr4Bits /\ cr4_required1 \subseteq new /\ new \subseteq cr4_maybe1
    BY <1>2, <1>6, <1>10
  <2>3. (vmcs.cr4_shadow \cap mask) \cup (new \ mask) = val
    BY <1>3
  <2> HIDE DEF new, mask
  <2>4. /\ w \in Vmcs /\ w.cr4 = new /\ w.efer = vmcs.efer /\ w.cr0 = vmcs.cr0
        /\ w.cr0_mask = vmcs.cr0_mask /\ w.cr4_mask = mask
        /\ w.cr0_shadow = vmcs.cr0_shadow /\ w.cr4_shadow = vmcs.cr4_shadow
        /\ w.ept = vmcs.ept /\ w.inject = vmcs.inject
        /\ w.pat = vmcs.pat /\ w.pdptes = vmcs.pdptes
    BY <1>1, <2>2 DEF Vmcs, mask
  <2>5. ReadCr4(w) = val /\ ReadCr0(w) = cr0 /\ HostBits(w)
    <3>1. HostBits(w)
      BY <1>1, <1>2, <2>2, <2>4 DEF HostBits
    <3> QED BY <2>3, <2>4, <3>1 DEF ReadCr0, ReadCr4
  <2> HIDE DEF w
  <2>6. v \in Vmcs /\ v.cr0 = w.cr0 /\ v.cr4 = w.cr4 /\ v.efer = w.efer
        /\ v.cr0_mask = w.cr0_mask /\ v.cr4_mask = w.cr4_mask
        /\ v.cr0_shadow = w.cr0_shadow /\ v.cr4_shadow = w.cr4_shadow
        /\ v.ept = w.ept /\ v.inject = w.inject /\ v.pat = w.pat
    BY <2>4, ReloadedVmcs, Zenon
  <2>7. v.pdptes = IF ~ PaePaging(w) THEN "undefined"
                   ELSE IF PaePaging(vmcs) THEN vmcs.pdptes ELSE "loaded"
    BY <1>1, <2>4, ReloadedPdptes
  <2> HIDE DEF v
  <2>8. (PaePaging(v) <=> PaePaging(w)) /\ ReadCr0(v) = cr0 /\ ReadCr4(v) = val
    BY <2>5, <2>6 DEF PaePaging, Long, ReadCr0, ReadCr4
  <2>9. Processor!Reload(cr0, val, vmcs.efer)
          = IF ~ PaePaging(w) THEN "undefined"
            ELSE IF PaePaging(vmcs) THEN vmcs.pdptes ELSE "loaded"
    BY <1>1, <2>4, <2>5, ReloadOfVmcs
  <2>10. /\ Processor!Retire /\ UNCHANGED <<reg, pat, mtrr>>
         /\ vmcs'.pat = vmcs.pat /\ vmcs'.efer = vmcs.efer
         /\ ReadCr0(vmcs)' = cr0 /\ ReadCr4(vmcs)' = val
         /\ ProcessorPdptes' = Processor!Reload(cr0, val, vmcs.efer)
    BY <2>1, <2>4, <2>6, <2>7, <2>8, <2>9, ExecuteRetires
  <2>11. Processor!Legal4(val) /\ val \cup {"VMXE"} = val
    BY <1>8, <1>10
  <2> QED BY <2>10, <2>11, Zenon DEF Processor!MoveCR4
<1> QED BY <1>9, <1>10

\* The instructions that the guest executes without an exit.
LEMMA GuestExecuteRefines ==
  ASSUME GuestInv, GuestExecute
  PROVE  Processor!Execute
<1>1. phase = "guest" /\ insn \in Insns /\ insn # None /\ ~ Exits(insn)
  BY DEF GuestExecute, GuestInv, TypeOK
<1>2. vmcs \in Vmcs /\ HostBits(vmcs) /\ GuestMode(vmcs)
  BY <1>1 DEF GuestInv, TypeOK, Progress
<1>3. ProcessorRun = "on" /\ ProcessorInsn = insn
  BY <1>1, AtInstruction
<1>4. CASE insn.op = "mov cr0" /\ GuestMovCr0(insn.arg)
  <2>1. insn.arg \in SUBSET Cr0Bits
    BY <1>1, <1>4, InsnsAssumption DEF InsnsAssumption
  <2>2. Processor!MoveCR0(insn.arg)
    BY <1>1, <1>4, <2>1, MovCr0Refines DEF Exits
  <2> QED BY <1>1, <1>3, <1>4, <2>2, Zenon DEF Processor!Execute
<1>5. CASE insn.op = "mov cr4" /\ GuestMovCr4(insn.arg)
  <2>1. insn.arg \in SUBSET Cr4Bits
    BY <1>1, <1>5, InsnsAssumption DEF InsnsAssumption
  <2>2. Processor!MoveCR4(insn.arg)
    BY <1>1, <1>5, <2>1, MovCr4Refines DEF Exits
  <2> QED BY <1>1, <1>3, <1>5, <2>2, Zenon DEF Processor!Execute
<1>6. CASE insn.op = "mov cr3" /\ GuestMovCr3
  <2> DEFINE v == [vmcs EXCEPT !.cr3 = Cr3,
                     !.pdptes = IF PaePaging(vmcs) THEN "loaded" ELSE @]
  <2>1. Execute(v)
    BY <1>6, Zenon DEF GuestMovCr3
  <2>2. /\ v \in Vmcs /\ v.cr0 = vmcs.cr0 /\ v.efer = vmcs.efer /\ v.cr4 = vmcs.cr4
        /\ v.cr0_mask = vmcs.cr0_mask /\ v.cr4_mask = vmcs.cr4_mask
        /\ v.cr0_shadow = vmcs.cr0_shadow /\ v.cr4_shadow = vmcs.cr4_shadow
        /\ v.ept = vmcs.ept /\ v.inject = vmcs.inject /\ v.pat = vmcs.pat
        /\ PaePaging(vmcs) => v.pdptes = "loaded"
    BY <1>2 DEF Vmcs
  <2> HIDE DEF v
  <2>3. /\ (PaePaging(v) <=> PaePaging(vmcs))
        /\ ReadCr0(v) = ReadCr0(vmcs) /\ ReadCr4(v) = ReadCr4(vmcs)
    BY <2>2 DEF PaePaging, Long, ReadCr0, ReadCr4
  <2>4. Processor!PaePaging(ReadCr0(vmcs), ReadCr4(vmcs), vmcs.efer)
          <=> PaePaging(vmcs)
    BY <1>2, SameMode
  <2>5. Processor!MoveCR3
    BY <1>1, <2>1, <2>2, <2>3, <2>4, ExecuteRetires DEF Processor!MoveCR3
  <2> QED BY <1>1, <1>3, <1>6, <2>5, Zenon DEF Processor!Execute
<1>7. CASE insn.op = "wrmsr efer" /\ GuestWriteEfer(insn.arg)
  <2> DEFINE lme == insn.arg
             e == IF lme THEN vmcs.efer \cup {"LME"} ELSE vmcs.efer \ {"LME"}
             v == [vmcs EXCEPT !.efer = IF lme THEN @ \cup {"LME"} ELSE @ \ {"LME"}]
  <2>1. "PG" \in ReadCr0(vmcs) <=> "PG" \in vmcs.cr0
    BY <1>2, GuestBits
  <2>2. CASE "PG" \in vmcs.cr0 /\ lme # ("LME" \in vmcs.efer)
    <3>1. Raise("GP")
      BY <1>7, <2>2, Zenon DEF GuestWriteEfer
    <3>2. Processor!Raise("GP")
      BY <1>1, <3>1, RaiseRefines
    <3>3. Processor!WriteEfer(lme)
      BY <2>1, <2>2, <3>2, Zenon DEF Processor!WriteEfer
    <3> QED BY <1>1, <1>3, <1>7, <3>3, Zenon DEF Processor!Execute
  <2>3. CASE ~ ("PG" \in vmcs.cr0 /\ lme # ("LME" \in vmcs.efer))
    <3>1. Execute(v)
      BY <1>7, <2>3, Zenon DEF GuestWriteEfer
    <3>2. /\ v \in Vmcs /\ v.cr0 = vmcs.cr0 /\ v.efer = e /\ v.cr4 = vmcs.cr4
          /\ v.cr0_mask = vmcs.cr0_mask /\ v.cr4_mask = vmcs.cr4_mask
          /\ v.cr0_shadow = vmcs.cr0_shadow /\ v.cr4_shadow = vmcs.cr4_shadow
          /\ v.ept = vmcs.ept /\ v.inject = vmcs.inject /\ v.pat = vmcs.pat
          /\ v.pdptes = vmcs.pdptes
          /\ "LMA" \in v.efer <=> "LMA" \in vmcs.efer
      BY <1>2 DEF Vmcs
    <3> HIDE DEF v, e
    <3>3. /\ (PaePaging(v) <=> PaePaging(vmcs))
          /\ ReadCr0(v) = ReadCr0(vmcs) /\ ReadCr4(v) = ReadCr4(vmcs)
      BY <3>2 DEF PaePaging, Long, ReadCr0, ReadCr4
    <3>4. /\ Processor!Retire /\ UNCHANGED <<reg, pat, mtrr>>
          /\ vmcs'.pat = vmcs.pat /\ vmcs'.efer = e
          /\ ReadCr0(vmcs)' = ReadCr0(vmcs) /\ ReadCr4(vmcs)' = ReadCr4(vmcs)
          /\ ProcessorPdptes' = ProcessorPdptes
      BY <1>1, <3>1, <3>2, <3>3, ExecuteRetires DEF ProcessorPdptes
    <3>5. Processor!WriteEfer(lme)
      BY <2>1, <2>3, <3>4, Zenon DEF Processor!WriteEfer, e
    <3> QED BY <1>1, <1>3, <1>7, <3>5, Zenon DEF Processor!Execute
  <2> QED BY <2>2, <2>3
<1>8. CASE insn.op = "xsetbv" /\ Raise("UD")
  <2>1. Processor!Raise("UD") /\ "OSXSAVE" \notin ReadCr4(vmcs)
    BY <1>1, <1>8, RaiseRefines DEF Exits
  <2>2. Processor!Xsetbv(insn.arg)
    BY <2>1, Zenon DEF Processor!Xsetbv
  <2> QED BY <1>1, <1>3, <1>8, <2>2, Zenon DEF Processor!Execute
<1> QED BY <1>4, <1>5, <1>6, <1>7, <1>8 DEF GuestExecute

\* A VM exit is no step of the guest.
LEMMA ExitRefines ==
  ASSUME GuestInv, VmExit \/ Interrupted
  PROVE  UNCHANGED Processor!vars
<1>1. /\ vmcs' = Saved
      /\ UNCHANGED <<target, failed, insn, reg, pat, mtrr, handling>>
  BY DEF VmExit, Interrupted
<1>2. vmcs \in Vmcs
  BY DEF GuestInv, TypeOK
<1>3. /\ vmcs'.cr0 = vmcs.cr0 /\ vmcs'.cr4 = vmcs.cr4 /\ vmcs'.efer = vmcs.efer
      /\ vmcs'.cr0_mask = vmcs.cr0_mask /\ vmcs'.cr4_mask = vmcs.cr4_mask
      /\ vmcs'.cr0_shadow = vmcs.cr0_shadow /\ vmcs'.cr4_shadow = vmcs.cr4_shadow
      /\ vmcs'.rip = vmcs.rip /\ vmcs'.inject = vmcs.inject
      /\ vmcs'.pat = vmcs.pat /\ vmcs'.ept = vmcs.ept
      /\ vmcs'.pdptes = vmcs.pdptes \/ ~ PaePaging(vmcs)
  BY <1>1, <1>2 DEF Saved, Vmcs
<1>4. ProcessorInsn' = ProcessorInsn
  BY <1>1, <1>3 DEF ProcessorInsn
<1> QED BY <1>1, <1>3, <1>4, NoStep

\* A VM entry delivers the exception that waits for it, and is no step of the
\* guest otherwise.
LEMMA EntryRefines ==
  ASSUME GuestInv, VmEntry
  PROVE  Processor!Execute \/ UNCHANGED Processor!vars
<1>1. vmcs \in Vmcs /\ insn = None /\ UNCHANGED <<target, failed, insn, reg, pat, mtrr>>
  BY DEF GuestInv, TypeOK, Progress, VmEntry
<1>2. CASE Enterable(vmcs)
  <2>1. /\ vmcs' = [vmcs EXCEPT !.inject = None]
        /\ handling' = IF vmcs.inject # None THEN vmcs.inject ELSE handling
    BY <1>2 DEF VmEntry
  <2>2. /\ vmcs'.inject = None
        /\ vmcs'.cr0 = vmcs.cr0 /\ vmcs'.cr4 = vmcs.cr4 /\ vmcs'.efer = vmcs.efer
        /\ vmcs'.cr0_mask = vmcs.cr0_mask /\ vmcs'.cr4_mask = vmcs.cr4_mask
        /\ vmcs'.cr0_shadow = vmcs.cr0_shadow
        /\ vmcs'.cr4_shadow = vmcs.cr4_shadow
        /\ vmcs'.rip = vmcs.rip /\ vmcs'.pdptes = vmcs.pdptes
        /\ vmcs'.pat = vmcs.pat /\ vmcs'.ept = vmcs.ept
    BY <1>1, <2>1 DEF Vmcs
  <2>3. CASE vmcs.inject = None
    <3>1. ProcessorInsn' = ProcessorInsn /\ handling' = handling
      BY <1>1, <2>1, <2>2, <2>3 DEF ProcessorInsn
    <3> QED BY <1>1, <2>2, <3>1, NoStep
  <2>4. CASE vmcs.inject # None
    <3> DEFINE exception == [op |-> "exception", arg |-> vmcs.inject]
    <3>1. exception \in Insns /\ vmcs.ept # Parking
      BY <2>4 DEF GuestInv, Rest
    <3>2. ProcessorInsn = exception /\ exception # None /\ ProcessorInsn' = None
      BY <1>1, <2>2, <2>4, <3>1, InsnsAssumption DEF ProcessorInsn, InsnsAssumption
    <3>3. ProcessorRun = "on"
      BY <3>1, Running
    <3>4. /\ ProcessorRun' = ProcessorRun /\ ProcessorPdptes' = ProcessorPdptes
          /\ ReadCr0(vmcs)' = ReadCr0(vmcs) /\ ReadCr4(vmcs)' = ReadCr4(vmcs)
      BY <1>1, <2>2, SameRegisters
    <3>5. Processor!Raise(vmcs.inject)
      BY <1>1, <2>1, <2>2, <2>4, <3>2, <3>4
         DEF Processor!Raise, Processor!registers
    <3>6. exception.op = "exception" /\ exception.arg = vmcs.inject
      OBVIOUS
    <3> HIDE DEF exception
    <3> QED BY <3>2, <3>3, <3>5, <3>6, Zenon DEF Processor!Execute
  <2> QED BY <2>3, <2>4
<1>3. CASE ~ Enterable(vmcs)
  <2>1. vmcs' = vmcs /\ handling' = handling
    BY <1>3 DEF VmEntry
  <2>2. ProcessorInsn' = ProcessorInsn
    BY <1>1, <2>1 DEF ProcessorInsn
  <2> QED BY <1>1, <2>1, <2>2, NoStep
<1> QED BY <1>2, <1>3

-----------------------------------------------------------------------------
(***************************************************************************)
(* The exit handlers.                                                      *)
(***************************************************************************)
\* A handler that skips the instruction and goes on has executed it.
LEMMA ResumeRetires ==
  ASSUME GuestInv, NEW v \in Vmcs, Resume(v), v.rip = "past", v.inject = None,
         v.ept = vmcs.ept, handling' = handling
  PROVE  /\ Processor!Retire
         /\ vmcs'.pat = v.pat /\ vmcs'.efer = v.efer
         /\ ReadCr0(vmcs)' = ReadCr0(v) /\ ReadCr4(vmcs)' = ReadCr4(v)
         /\ ProcessorPdptes' = IF PaePaging(v) THEN v.pdptes ELSE "undefined"
<1>1. vmcs' = v /\ insn' = None /\ target' = target /\ failed' = failed
  BY DEF Resume
<1>2. ProcessorInsn' = None
  BY <1>1 DEF ProcessorInsn
<1>3. ProcessorRun' = ProcessorRun
  BY <1>1 DEF ProcessorRun
<1>4. ReadCr0(vmcs)' = ReadCr0(v) /\ ReadCr4(vmcs)' = ReadCr4(v)
  BY <1>1 DEF ReadCr0, ReadCr4
<1>5. ProcessorPdptes' = IF PaePaging(v) THEN v.pdptes ELSE "undefined"
  BY <1>1 DEF ProcessorPdptes, PaePaging, Long
<1> QED BY <1>1, <1>2, <1>3, <1>4, <1>5 DEF Processor!Retire

\* The same, for a handler that changes at most the PAT of the VMCS.
LEMMA SkipRetires ==
  ASSUME GuestInv, phase = "exit", NEW p \in Pats \cup {"UC"},
         Resume(Skip([vmcs EXCEPT !.pat = p])), handling' = handling
  PROVE  /\ Processor!Retire
         /\ vmcs'.pat = p /\ vmcs'.efer = vmcs.efer
         /\ ReadCr0(vmcs)' = ReadCr0(vmcs) /\ ReadCr4(vmcs)' = ReadCr4(vmcs)
         /\ ProcessorPdptes' = ProcessorPdptes
<1> DEFINE v == [vmcs EXCEPT !.pat = p]
           w == Skip(v)
<1>1. vmcs \in Vmcs /\ vmcs.rip = "at" /\ vmcs.inject = None
  BY DEF GuestInv, TypeOK, Progress
<1>2. /\ v \in Vmcs /\ v.rip = "at" /\ v.inject = None /\ v.pat = p
      /\ v.cr0 = vmcs.cr0 /\ v.cr4 = vmcs.cr4 /\ v.efer = vmcs.efer
      /\ v.cr0_mask = vmcs.cr0_mask /\ v.cr4_mask = vmcs.cr4_mask
      /\ v.cr0_shadow = vmcs.cr0_shadow /\ v.cr4_shadow = vmcs.cr4_shadow
      /\ v.pdptes = vmcs.pdptes /\ v.ept = vmcs.ept
  BY <1>1 DEF Vmcs
<1> HIDE DEF v
<1>3. /\ w \in Vmcs /\ w.rip = "past" /\ w.inject = None /\ w.pat = p
      /\ w.cr0 = vmcs.cr0 /\ w.cr4 = vmcs.cr4 /\ w.efer = vmcs.efer
      /\ w.cr0_mask = vmcs.cr0_mask /\ w.cr4_mask = vmcs.cr4_mask
      /\ w.cr0_shadow = vmcs.cr0_shadow /\ w.cr4_shadow = vmcs.cr4_shadow
      /\ w.pdptes = vmcs.pdptes /\ w.ept = vmcs.ept
  BY <1>2, SkippedVmcs
<1>4. Resume(w)
  BY DEF v
<1> HIDE DEF w
<1>5. /\ ReadCr0(w) = ReadCr0(vmcs) /\ ReadCr4(w) = ReadCr4(vmcs)
      /\ PaePaging(w) <=> PaePaging(vmcs)
  BY <1>3 DEF ReadCr0, ReadCr4, PaePaging, Long
<1> QED BY <1>3, <1>4, <1>5, ResumeRetires DEF ProcessorPdptes

\* panic_park, at an access that may be refused or in an impossible state.
LEMMA PanicRefines ==
  ASSUME GuestInv, PanicPark, ProcessorRun = "on",
         ~ Processor!Consistent \/ (insn # None /\ Processor!Refusable(insn))
  PROVE  Processor!Stop
<1>1. /\ vmcs' = VcpuPark(vmcs, target) /\ failed' = TRUE
      /\ insn' = None /\ handling' = None
      /\ UNCHANGED <<target, reg, pat, mtrr>>
  BY DEF PanicPark
<1>2. vmcs \in Vmcs /\ HostBits(vmcs) /\ target \in Targets
  BY DEF GuestInv, TypeOK
<1>3. /\ vmcs'.efer = {} /\ ReadCr0(vmcs') = {"CD"} /\ ReadCr4(vmcs') = {"VMXE"}
      /\ "PG" \notin vmcs'.cr0 /\ vmcs'.ept = Parking /\ vmcs'.inject = None
      /\ vmcs'.rip = "at" /\ vmcs'.pat = vmcs.pat
  BY <1>1, <1>2, ParkVmcs, Zenon
<1>4. ProcessorRun' = "failed" /\ ProcessorInsn' = None
  BY <1>1, <1>3 DEF ProcessorRun, ProcessorInsn
<1>5. ProcessorPdptes' = "undefined"
  BY <1>3 DEF ProcessorPdptes, PaePaging
<1>6. ReadCr0(vmcs)' = {"CD"} /\ ReadCr4(vmcs)' = {"VMXE"}
  BY <1>3 DEF ReadCr0, ReadCr4
<1>7. insn # None => ProcessorInsn = insn
  BY AtInstruction
<1>8. Processor!Cleared
  BY <1>1, <1>3, <1>4, <1>5, <1>6 DEF Processor!Cleared
<1> QED BY <1>1, <1>3, <1>4, <1>7, <1>8, Zenon DEF Processor!Stop

\* vmx_handle_cr, CR0: the move takes effect, with the deviations that
\* GuestProcessor names.
LEMMA EmulateCr0Refines ==
  ASSUME GuestInv, phase = "exit", NEW val \in SUBSET Cr0Bits,
         CrExits(val, vmcs.cr0_shadow, vmcs.cr0_mask),
         Resume(EmulateCr0(vmcs, val)), Untouched
  PROVE  Processor!MoveCR0(val)
<1> DEFINE w == EmulateCr0(vmcs, val)
           cr0 == ReadCr0(vmcs)
           cr4 == ReadCr4(vmcs)
           e == Processor!Efer(val)
           leaves == Processor!Long(vmcs.efer) /\ "PG" \notin val
           enters == /\ Processor!PaePaging(val, cr4, e)
                     /\ ~ Processor!PaePaging(cr0, cr4, vmcs.efer)
<1>1. /\ vmcs \in Vmcs /\ HostBits(vmcs) /\ GuestMode(vmcs) /\ vmcs.rip = "at"
      /\ vmcs.inject = None
      /\ ~ PaePaging(vmcs) => vmcs.pdptes = "undefined"
      /\ vmcs.cr0_mask = cr0_host_mask
  BY DEF GuestInv, TypeOK, Progress, SavedState, HostBits
<1>2. /\ w \in Vmcs /\ HostBits(w) /\ ReadCr0(w) = val /\ w.rip = "past"
      /\ w.cr4 = vmcs.cr4 /\ w.cr4_shadow = vmcs.cr4_shadow
      /\ w.cr4_mask = vmcs.cr4_mask /\ w.ept = vmcs.ept
      /\ w.inject = vmcs.inject /\ w.pat = vmcs.pat /\ w.pdptes = vmcs.pdptes
      /\ w.efer = IF "PG" \in val /\ vmcs.efer = {"LME"} THEN {"LME", "LMA"}
                  ELSE vmcs.efer
  BY <1>1, EmulatedCr0, Zenon
<1>3. Resume(w) /\ UNCHANGED <<reg, pat, mtrr, handling>>
  BY DEF Untouched
<1> HIDE DEF w
<1>4. ReadCr4(w) = cr4
  BY <1>2 DEF ReadCr4
<1>5. /\ Processor!Retire
      /\ vmcs'.pat = vmcs.pat /\ vmcs'.efer = w.efer
      /\ ReadCr0(vmcs)' = val /\ ReadCr4(vmcs)' = cr4
      /\ ProcessorPdptes' = IF PaePaging(w) THEN vmcs.pdptes ELSE "undefined"
  BY <1>1, <1>2, <1>3, <1>4, ResumeRetires
<1>6. Processor!Differ(val, cr0, cr0_host_mask)
  BY <1>1 DEF CrExits, Processor!Differ, ReadCr0
<1>7. w.efer = IF leaves THEN vmcs.efer ELSE e
  <2>1. vmcs.efer \in SUBSET {"LME", "LMA"}
    BY <1>1 DEF Vmcs
  <2>2. "LMA" \in vmcs.efer => "LME" \in vmcs.efer
    BY <1>1 DEF GuestMode, Long
  <2> QED BY <1>2, <2>1, <2>2 DEF Processor!Efer, Processor!Long
<1>8. PaePaging(w) <=> Processor!PaePaging(val, cr4, w.efer)
  BY <1>2, <1>4, SameMode
<1>9. PaePaging(vmcs) <=> Processor!PaePaging(cr0, cr4, vmcs.efer)
  BY <1>1, SameMode
<1>10. Processor!Reload(val, cr4, w.efer)
         = IF ~ PaePaging(w) THEN "undefined"
           ELSE IF PaePaging(vmcs) THEN vmcs.pdptes ELSE "loaded"
  BY <1>1, <1>2, <1>4, ReloadOfVmcs
<1>11. PaePaging(w) /\ ~ PaePaging(vmcs) => enters
  <2>1. leaves => ~ PaePaging(w)
    BY <1>8 DEF Processor!PaePaging
  <2> QED BY <1>7, <1>8, <1>9, <2>1, Zenon
<1>12. ProcessorPdptes' = IF enters THEN "undefined"
                          ELSE Processor!Reload(val, cr4, w.efer)
  <2>1. CASE enters
    BY <1>1, <1>5, <1>9, <2>1
  <2>2. CASE ~ enters
    BY <1>5, <1>10, <1>11, <2>2
  <2> QED BY <2>1, <2>2
<1>13. CASE Processor!Legal0(val) /\ ~ leaves /\ ~ enters
  <2>1. ProcessorPdptes' = Processor!Reload(val, cr4, vmcs'.efer) /\ vmcs'.efer = e
    BY <1>5, <1>7, <1>12, <1>13, Zenon
  <2> QED BY <1>3, <1>5, <1>13, <2>1, Zenon DEF Processor!MoveCR0
<1>14. CASE ~ Processor!Legal0(val) \/ leaves \/ enters
  <2>1. /\ vmcs'.efer = IF leaves THEN vmcs.efer ELSE e
        /\ ProcessorPdptes' = IF enters THEN "undefined"
                              ELSE Processor!Reload(val, cr4, vmcs'.efer)
    BY <1>5, <1>7, <1>12, Zenon
  <2> QED BY <1>3, <1>5, <1>6, <1>14, <2>1, Zenon DEF Processor!MoveCR0
<1> QED BY <1>13, <1>14, Zenon

\* vmx_handle_cr, CR4.
LEMMA EmulateCr4Refines ==
  ASSUME GuestInv, phase = "exit", NEW val \in SUBSET Cr4Bits,
         CrExits(val, vmcs.cr4_shadow, vmcs.cr4_mask),
         Resume(EmulateCr4(vmcs, val)), Untouched
  PROVE  Processor!MoveCR4(val)
<1> DEFINE w == EmulateCr4(vmcs, val)
           new == val \cup {"VMXE"}
           cr0 == ReadCr0(vmcs)
           cr4 == ReadCr4(vmcs)
           enters == /\ Processor!PaePaging(cr0, new, vmcs.efer)
                     /\ ~ Processor!PaePaging(cr0, cr4, vmcs.efer)
<1>1. /\ vmcs \in Vmcs /\ HostBits(vmcs) /\ vmcs.rip = "at"
      /\ vmcs.inject = None
      /\ ~ PaePaging(vmcs) => vmcs.pdptes = "undefined"
      /\ vmcs.cr4_mask \in {{}, cr4_host_mask}
  BY DEF GuestInv, TypeOK, Progress, SavedState, HostBits
<1>2. /\ w \in Vmcs /\ HostBits(w) /\ ReadCr4(w) = new /\ w.rip = "past"
      /\ w.cr0 = vmcs.cr0 /\ w.cr0_shadow = vmcs.cr0_shadow
      /\ w.cr0_mask = vmcs.cr0_mask /\ w.ept = vmcs.ept
      /\ w.inject = vmcs.inject /\ w.pat = vmcs.pat /\ w.pdptes = vmcs.pdptes
      /\ w.efer = vmcs.efer
  BY <1>1, EmulatedCr4, Zenon
<1>3. Resume(w) /\ UNCHANGED <<reg, pat, mtrr, handling>>
  BY DEF Untouched
<1> HIDE DEF w, new
<1>4. ReadCr0(w) = cr0
  BY <1>2 DEF ReadCr0
<1>5. /\ Processor!Retire
      /\ vmcs'.pat = vmcs.pat /\ vmcs'.efer = vmcs.efer
      /\ ReadCr0(vmcs)' = cr0 /\ ReadCr4(vmcs)' = new
      /\ ProcessorPdptes' = IF PaePaging(w) THEN vmcs.pdptes ELSE "undefined"
  BY <1>1, <1>2, <1>3, <1>4, ResumeRetires
<1>6. Processor!Differ(val, cr4, cr4_host_mask)
  BY <1>1 DEF CrExits, Processor!Differ, ReadCr4
<1>7. PaePaging(w) <=> Processor!PaePaging(cr0, new, vmcs.efer)
  BY <1>2, <1>4, SameMode
<1>8. PaePaging(vmcs) <=> Processor!PaePaging(cr0, cr4, vmcs.efer)
  BY <1>1, SameMode
<1>9. Processor!Reload(cr0, new, vmcs.efer)
        = IF ~ PaePaging(w) THEN "undefined"
          ELSE IF PaePaging(vmcs) THEN vmcs.pdptes ELSE "loaded"
  BY <1>1, <1>2, <1>4, ReloadOfVmcs
<1>10. CASE enters
  <2>1. ProcessorPdptes' = "undefined"
    BY <1>1, <1>5, <1>8, <1>10
  <2> QED BY <1>3, <1>5, <1>6, <1>10, <2>1, Zenon DEF Processor!MoveCR4, new
<1>11. CASE ~ enters
  <2>1. ProcessorPdptes' = Processor!Reload(cr0, new, vmcs.efer)
    BY <1>5, <1>7, <1>8, <1>9, <1>11
  <2> QED BY <1>3, <1>5, <1>6, <1>11, <2>1, Zenon DEF Processor!MoveCR4, new
<1> QED BY <1>10, <1>11

\* The handlers of instructions that only return a value, or nothing.
LEMMA ReturnRefines ==
  ASSUME GuestInv, phase = "exit", Resume(Skip(vmcs)),
         UNCHANGED <<pat, mtrr, handling>>
  PROVE  Processor!Return(reg')
<1>1. vmcs \in Vmcs
  BY DEF GuestInv, TypeOK
<1>2. vmcs = [vmcs EXCEPT !.pat = vmcs.pat] /\ vmcs.pat \in Pats \cup {"UC"}
  BY <1>1 DEF Vmcs
<1>3. Resume(Skip([vmcs EXCEPT !.pat = vmcs.pat]))
  BY <1>2, Zenon
<1>4. /\ Processor!Retire
      /\ vmcs'.pat = vmcs.pat /\ vmcs'.efer = vmcs.efer
      /\ ReadCr0(vmcs)' = ReadCr0(vmcs) /\ ReadCr4(vmcs)' = ReadCr4(vmcs)
      /\ ProcessorPdptes' = ProcessorPdptes
  BY <1>2, <1>3, SkipRetires, Zenon
<1> QED BY <1>4, Zenon DEF Processor!Return, Processor!registers

\* vcpu_handle_msr_write.
LEMMA HandleMsrWriteRefines ==
  ASSUME GuestInv, phase = "exit", HandleMsrWrite, ~ PanicPark
  PROVE  \/ insn.op = "wrmsr pat" /\ Processor!WritePat(insn.arg)
         \/ insn.op = "wrmsr mtrr" /\ Processor!WriteMtrr(insn.arg)
<1>1. /\ insn \in Insns /\ vmcs \in Vmcs /\ pat \in Pats /\ mtrr \in BOOLEAN
      /\ mtrr \/ vmcs.pat = "UC"
  <2>1. phase # "guest" /\ insn # None
    BY DEF GuestInv, Progress
  <2> QED BY <2>1 DEF GuestInv, TypeOK, Rest
<1>2. CASE insn.op = "wrmsr pat"
  <2>1. /\ insn.arg \in Pats /\ pat' = insn.arg
        /\ Resume(Skip([vmcs EXCEPT !.pat = PatInForce(insn.arg)]))
        /\ UNCHANGED <<reg, mtrr, handling>>
    BY <1>2 DEF HandleMsrWrite
  <2>2. PatInForce(insn.arg) = IF mtrr' THEN pat' ELSE "UC"
    BY <1>1, <2>1 DEF PatInForce
  <2>3. PatInForce(insn.arg) \in Pats \cup {"UC"}
    BY <2>1, <2>2
  <2>4. /\ Processor!Retire
        /\ vmcs'.pat = PatInForce(insn.arg) /\ vmcs'.efer = vmcs.efer
        /\ ReadCr0(vmcs)' = ReadCr0(vmcs) /\ ReadCr4(vmcs)' = ReadCr4(vmcs)
        /\ ProcessorPdptes' = ProcessorPdptes
    BY <2>1, <2>3, SkipRetires
  <2> QED BY <1>2, <2>1, <2>2, <2>4, Zenon
          DEF Processor!WritePat, Processor!MemType
<1>3. CASE insn.op = "wrmsr mtrr"
  <2> DEFINE p == IF insn.arg THEN pat ELSE "UC"
  <2>1. /\ mtrr' = insn.arg /\ Resume(Skip([vmcs EXCEPT !.pat = p]))
        /\ UNCHANGED <<reg, pat, handling>>
    BY <1>3 DEF HandleMsrWrite
  <2>2. p = IF mtrr' THEN pat' ELSE "UC"
    BY <2>1
  <2>3. p \in Pats \cup {"UC"}
    BY <1>1
  <2> HIDE DEF p
  <2>4. /\ Processor!Retire
        /\ vmcs'.pat = p /\ vmcs'.efer = vmcs.efer
        /\ ReadCr0(vmcs)' = ReadCr0(vmcs) /\ ReadCr4(vmcs)' = ReadCr4(vmcs)
        /\ ProcessorPdptes' = ProcessorPdptes
    BY <2>1, <2>3, SkipRetires
  <2> QED BY <1>3, <2>1, <2>2, <2>4, Zenon
          DEF Processor!WriteMtrr, Processor!MemType
<1> QED BY <1>2, <1>3 DEF HandleMsrWrite

\* vmx_handle_exception_nmi: the exception is still in progress.
LEMMA HandleExceptionRefines ==
  ASSUME GuestInv, phase = "exit", HandleException
  PROVE  UNCHANGED Processor!vars
<1>1. /\ vmcs' = [vmcs EXCEPT !.inject = insn.arg] /\ insn' = None
      /\ insn.op = "exception"
      /\ UNCHANGED <<target, failed, reg, pat, mtrr, handling>>
  BY DEF HandleException
<1>2. vmcs \in Vmcs /\ insn \in Insns /\ insn # None
  BY DEF GuestInv, TypeOK, Progress
<1>3. insn = [op |-> "exception", arg |-> insn.arg] /\ insn.arg # None
  <2>1. insn = [op |-> insn.op, arg |-> insn.arg] /\ insn.arg \in {"DB", "AC"}
    BY <1>1, <1>2, InsnsAssumption DEF InsnsAssumption
  <2> QED BY <1>1, <2>1, InsnsAssumption DEF InsnsAssumption
<1>4. /\ vmcs'.inject = insn.arg
      /\ vmcs'.cr0 = vmcs.cr0 /\ vmcs'.cr4 = vmcs.cr4 /\ vmcs'.efer = vmcs.efer
      /\ vmcs'.cr0_mask = vmcs.cr0_mask /\ vmcs'.cr4_mask = vmcs.cr4_mask
      /\ vmcs'.cr0_shadow = vmcs.cr0_shadow /\ vmcs'.cr4_shadow = vmcs.cr4_shadow
      /\ vmcs'.rip = vmcs.rip /\ vmcs'.pdptes = vmcs.pdptes
      /\ vmcs'.pat = vmcs.pat /\ vmcs'.ept = vmcs.ept
  BY <1>1, <1>2 DEF Vmcs
<1>5. ProcessorInsn = insn
  BY <1>2, AtInstruction
<1>6. ProcessorInsn' = insn
  BY <1>3, <1>4, Zenon DEF ProcessorInsn
<1> QED BY <1>1, <1>4, <1>5, <1>6, NoStep

\* An exit handler executes the instruction or stops the CPU.
LEMMA HandleExitRefines ==
  ASSUME GuestInv, HandleExit
  PROVE  Processor!Next \/ UNCHANGED Processor!vars
<1>1. /\ phase = "exit" /\ insn \in Insns /\ insn # None /\ Exits(insn)
      /\ reg = None
  BY DEF HandleExit, GuestInv, TypeOK, Progress
<1>2. vmcs \in Vmcs /\ HostBits(vmcs)
  BY DEF GuestInv, TypeOK
<1>3. ProcessorRun = "on" /\ ProcessorInsn = insn
  BY <1>1, AtInstruction
<1>4. ASSUME PanicPark, Processor!Refusable(insn)
      PROVE  Processor!Next
  <2>1. Processor!Stop
    BY <1>1, <1>3, <1>4, PanicRefines
  <2> QED BY <2>1, Zenon DEF Processor!Next
<1>5. ASSUME Processor!Execute PROVE Processor!Next
  BY <1>5, Zenon DEF Processor!Next
<1>6. ASSUME Resume(Skip(vmcs)), UNCHANGED <<pat, mtrr, handling>>
      PROVE  Processor!Return(reg')
  BY <1>1, <1>6, ReturnRefines
<1>7. CASE HandleCr
  <2>1. CASE insn.op = "mov cr0" /\ Resume(EmulateCr0(vmcs, insn.arg))
    <3>1. /\ insn.arg \in SUBSET Cr0Bits
          /\ CrExits(insn.arg, vmcs.cr0_shadow, vmcs.cr0_mask)
      BY <1>1, <2>1, InsnsAssumption
         DEF InsnsAssumption, Exits, ReadIntercepted, WriteIntercepted
    <3>2. Processor!MoveCR0(insn.arg)
      BY <1>1, <1>7, <2>1, <3>1, EmulateCr0Refines, Zenon DEF HandleCr
    <3>3. Processor!Execute
      BY <1>1, <1>3, <2>1, <3>2, Zenon DEF Processor!Execute
    <3> QED BY <1>5, <3>3
  <2>2. CASE insn.op = "mov cr4" /\ Resume(EmulateCr4(vmcs, insn.arg))
    <3>1. /\ insn.arg \in SUBSET Cr4Bits
          /\ CrExits(insn.arg, vmcs.cr4_shadow, vmcs.cr4_mask)
      BY <1>1, <2>2, InsnsAssumption
         DEF InsnsAssumption, Exits, ReadIntercepted, WriteIntercepted
    <3>2. Processor!MoveCR4(insn.arg)
      BY <1>1, <1>7, <2>2, <3>1, EmulateCr4Refines, Zenon DEF HandleCr
    <3>3. Processor!Execute
      BY <1>1, <1>3, <2>2, <3>2, Zenon DEF Processor!Execute
    <3> QED BY <1>5, <3>3
  <2> QED BY <1>7, <2>1, <2>2 DEF HandleCr
<1>8. CASE HandleCpuid
  <2>1. (GetGuestCr4(vmcs) \cap {"OSXSAVE"}) = ReadCr4(vmcs) \cap {"OSXSAVE"}
    BY <1>2, GuestBits
  <2>2. reg' = Processor!Features
    BY <1>8, <2>1, Zenon DEF HandleCpuid, Processor!Features
  <2>3. Processor!Return(Processor!Features) /\ insn.op = "cpuid"
    BY <1>6, <1>8, <2>2, Zenon DEF HandleCpuid
  <2>4. Processor!Execute
    BY <1>1, <1>3, <2>3, Zenon DEF Processor!Execute
  <2> QED BY <1>5, <2>4
<1>9. CASE HandleHypercall
  <2>1. /\ Processor!Return(IF insn.arg = "user" THEN "EPERM" ELSE "result")
        /\ insn.op = "vmcall"
    BY <1>6, <1>9, Zenon DEF HandleHypercall
  <2>2. Processor!Execute
    BY <1>1, <1>3, <2>1, Zenon DEF Processor!Execute
  <2> QED BY <1>5, <2>2
<1>10. CASE HandleMsrRead
  <2>1. \/ insn.op = "rdmsr pat" /\ Processor!Return(pat)
        \/ insn.op = "rdmsr mtrr" /\ Processor!Return(mtrr)
    BY <1>6, <1>10, Zenon DEF HandleMsrRead
  <2>2. Processor!Execute
    BY <1>1, <1>3, <2>1, Zenon DEF Processor!Execute
  <2> QED BY <1>5, <2>2
<1>11. CASE HandleMsrWrite
  <2>1. CASE PanicPark
    <3>1. failed = FALSE
      BY <1>1 DEF GuestInv, TypeOK, OwnTables, Rest
    <3>2. ~ \E v : Resume(v)
      BY <2>1, <3>1 DEF PanicPark, Resume
    <3>3. insn.op = "wrmsr pat" /\ insn.arg \notin Pats
      BY <1>11, <3>2, Zenon DEF HandleMsrWrite
    <3> QED BY <1>4, <2>1, <3>3, Zenon DEF Processor!Refusable
  <2>2. CASE ~ PanicPark
    <3>1. \/ insn.op = "wrmsr pat" /\ Processor!WritePat(insn.arg)
          \/ insn.op = "wrmsr mtrr" /\ Processor!WriteMtrr(insn.arg)
      BY <1>1, <1>11, <2>2, HandleMsrWriteRefines
    <3>2. Processor!Execute
      BY <1>1, <1>3, <3>1, Zenon DEF Processor!Execute
    <3> QED BY <1>5, <3>2
  <2> QED BY <2>1, <2>2
<1>12. CASE HandleMsrOther \/ HandleIo \/ HandleMemory
  <2>1. insn.op \in {"msr", "io", "memory"}
    BY <1>12 DEF HandleMsrOther, HandleIo, HandleMemory
  <2>2. CASE Resume(Skip(vmcs)) /\ Untouched
    <3>1. reg' = None /\ UNCHANGED <<pat, mtrr, handling>>
      BY <1>1, <2>2 DEF Untouched
    <3>2. Processor!Return(None)
      BY <1>6, <2>2, <3>1, Zenon
    <3>3. insn.op \in {"io", "memory", "msr"}
      BY <2>1
    <3>4. Processor!Execute
      BY <1>1, <1>3, <3>2, <3>3, Zenon DEF Processor!Execute
    <3> QED BY <1>5, <3>4
  <2>3. CASE PanicPark /\ Processor!Refusable(insn)
    BY <1>4, <2>3
  <2>4. \/ Resume(Skip(vmcs)) /\ Untouched
        \/ PanicPark /\ Processor!Refusable(insn)
    BY <1>12 DEF HandleMsrOther, HandleIo, HandleMemory, Processor!Refusable
  <2> QED BY <2>2, <2>3, <2>4
<1>13. CASE HandleXsetbv
  <2>1. "OSXSAVE" \in ReadCr4(vmcs) /\ insn.op = "xsetbv"
    BY <1>1, <1>13 DEF HandleXsetbv, Exits, ReadIntercepted, WriteIntercepted
  <2>2. "OSXSAVE" \in GetGuestCr4(vmcs)
    BY <1>2, <2>1, GuestBits
  <2>3. CASE insn.arg = "valid"
    <3>1. Resume(Skip(vmcs)) /\ Untouched
      BY <1>13, <2>2, <2>3, Zenon DEF HandleXsetbv
    <3>2. reg' = None /\ UNCHANGED <<pat, mtrr, handling>>
      BY <1>1, <3>1 DEF Untouched
    <3>3. Processor!Return(None)
      BY <1>6, <3>1, <3>2, Zenon
    <3>4. Processor!Xsetbv(insn.arg)
      BY <2>1, <2>3, <3>3, Zenon DEF Processor!Xsetbv
    <3>5. Processor!Execute
      BY <1>1, <1>3, <2>1, <3>4, Zenon DEF Processor!Execute
    <3> QED BY <1>5, <3>5
  <2>4. CASE insn.arg # "valid"
    <3>1. PanicPark /\ Processor!Refusable(insn)
      BY <1>13, <2>1, <2>4, Zenon DEF HandleXsetbv, Processor!Refusable
    <3> QED BY <1>4, <3>1
  <2> QED BY <2>3, <2>4
<1>14. CASE HandleException
  BY <1>1, <1>14, HandleExceptionRefines
<1>15. CASE insn.op = "shutdown" /\ PanicPark
  <2>1. Processor!Refusable(insn)
    BY <1>15, Zenon DEF Processor!Refusable
  <2> QED BY <1>4, <1>15, <2>1
<1> QED BY <1>7, <1>8, <1>9, <1>10, <1>11, <1>12, <1>13, <1>14, <1>15
        DEF HandleExit

\* A VM entry fails only if no processor could be in the state of the guest.
LEMMA FailedEntryRefines ==
  ASSUME GuestInv, HandleFailedEntry
  PROVE  Processor!Stop
<1>1. /\ phase = "failed entry" /\ PanicPark /\ insn = None
      /\ vmcs \in Vmcs /\ HostBits(vmcs) /\ ~ Enterable(vmcs)
      /\ vmcs.ia32e <=> Long(vmcs)
  BY DEF HandleFailedEntry, GuestInv, TypeOK, Progress, SavedState
<1>2. /\ CR0_FIXED0 \ {"PE", "PG"} \subseteq vmcs.cr0 /\ vmcs.cr0 \subseteq CR0_FIXED1
      /\ CR4_FIXED0 \subseteq vmcs.cr4 /\ vmcs.cr4 \subseteq CR4_FIXED1
  BY <1>1 DEF HostBits, cr0_required1, cr0_maybe1, cr4_required1, cr4_maybe1
<1>3. ~ GuestMode(vmcs)
  BY <1>1, <1>2 DEF Enterable, GuestMode
<1>4. ~ Processor!Consistent
  BY <1>1, <1>3, ModeIsConsistent
<1>5. vmcs.ept # Parking
  BY <1>3 DEF GuestInv, Rest, GuestMode, Long
<1>6. ProcessorRun = "on"
  BY <1>5, Running
<1> QED BY <1>1, <1>4, <1>6, PanicRefines

-----------------------------------------------------------------------------
(***************************************************************************)
(* Resets and parking.                                                     *)
(***************************************************************************)
\* vmx_check_events runs between two instructions.
LEMMA CheckIsBoundary ==
  ASSUME GuestInv, phase = "check"
  PROVE  Processor!Boundary /\ Processor!Consistent
<1>1. insn = None /\ vmcs \in Vmcs /\ HostBits(vmcs) /\ GuestMode(vmcs)
  BY DEF GuestInv, TypeOK, Progress
<1>2. ProcessorInsn # None => ProcessorInsn.op = "exception"
  BY <1>1 DEF ProcessorInsn
<1> QED BY <1>1, <1>2, ModeIsConsistent, Zenon DEF Processor!Boundary

\* vcpu_reset.
LEMMA ResetRefines ==
  ASSUME GuestInv, NEW hard \in BOOLEAN, Reset(hard)
  PROVE  Processor!Reset(hard)
<1> DEFINE w == VendorReset(vmcs, target)
<1>1. /\ phase = "check" /\ failed' = FALSE /\ insn' = None /\ target' = target
      /\ failed => hard
      /\ vmcs' = [w EXCEPT !.pat = IF hard THEN "UC" ELSE @]
      /\ reg' = Zero /\ handling' = None
      /\ IF hard THEN pat' = ResetPat /\ mtrr' = FALSE
         ELSE UNCHANGED <<pat, mtrr>>
  BY DEF Reset
<1>2. vmcs \in Vmcs /\ HostBits(vmcs) /\ target \in Targets /\ target # Parking
  BY GuestAssumption DEF GuestInv, TypeOK, GuestAssumption
<1>3. /\ w \in Vmcs /\ ReadCr0(w) = {"CD"} /\ ReadCr4(w) = {"VMXE"}
      /\ w.efer = {} /\ "PG" \notin w.cr0 /\ w.ept = target /\ w.inject = None
      /\ w.rip = "at" /\ w.pat = vmcs.pat
  BY <1>2, ResetVmcs, Zenon
<1> HIDE DEF w
<1>4. /\ vmcs'.efer = {} /\ "PG" \notin vmcs'.cr0 /\ vmcs'.ept = target
      /\ vmcs'.inject = None /\ vmcs'.rip = "at"
      /\ vmcs'.cr0 = w.cr0 /\ vmcs'.cr0_shadow = w.cr0_shadow
      /\ vmcs'.cr0_mask = w.cr0_mask
      /\ vmcs'.cr4 = w.cr4 /\ vmcs'.cr4_shadow = w.cr4_shadow
      /\ vmcs'.cr4_mask = w.cr4_mask
      /\ vmcs'.pat = IF hard THEN "UC" ELSE vmcs.pat
  BY <1>1, <1>3 DEF Vmcs
<1>5. ProcessorRun' = "on" /\ ProcessorInsn' = None
  BY <1>1, <1>2, <1>4 DEF ProcessorRun, ProcessorInsn
<1>6. ProcessorPdptes' = "undefined"
  BY <1>4 DEF ProcessorPdptes, PaePaging
<1>7. ReadCr0(vmcs)' = {"CD"} /\ ReadCr4(vmcs)' = {"VMXE"}
  BY <1>3, <1>4 DEF ReadCr0, ReadCr4
<1>8. Processor!Cleared
  BY <1>1, <1>4, <1>5, <1>6, <1>7 DEF Processor!Cleared
<1>9. ProcessorRun = "failed" => hard
  BY <1>1 DEF ProcessorRun
<1>10. IF hard THEN pat' = ResetPat /\ mtrr' = FALSE /\ vmcs'.pat = "UC"
       ELSE pat' = pat /\ mtrr' = mtrr /\ vmcs'.pat = vmcs.pat
  BY <1>1, <1>4
<1> QED BY <1>1, <1>5, <1>8, <1>9, <1>10, CheckIsBoundary, Zenon
        DEF Processor!Reset

\* vcpu_park at an event.
LEMMA ParkRefines ==
  ASSUME GuestInv, NEW t \in Targets, Park(t)
  PROVE  Processor!Park(t)
<1>1. /\ phase = "check" /\ target' = t /\ failed' = (failed /\ t = target)
      /\ vmcs' = VcpuPark(vmcs, t) /\ insn' = None /\ handling' = None
      /\ UNCHANGED <<reg, pat, mtrr>>
  BY DEF Park
<1>2. vmcs \in Vmcs /\ HostBits(vmcs)
  BY DEF GuestInv, TypeOK
<1>3. /\ vmcs'.efer = {} /\ ReadCr0(vmcs') = {"CD"} /\ ReadCr4(vmcs') = {"VMXE"}
      /\ "PG" \notin vmcs'.cr0 /\ vmcs'.ept = Parking /\ vmcs'.inject = None
      /\ vmcs'.rip = "at" /\ vmcs'.pat = vmcs.pat
  BY <1>1, <1>2, ParkVmcs, Zenon
<1>4. ProcessorInsn' = None
  BY <1>1, <1>3 DEF ProcessorInsn
<1>5. ProcessorPdptes' = "undefined"
  BY <1>3 DEF ProcessorPdptes, PaePaging
<1>6. ReadCr0(vmcs)' = {"CD"} /\ ReadCr4(vmcs)' = {"VMXE"}
  BY <1>3 DEF ReadCr0, ReadCr4
<1>7. Processor!Cleared
  BY <1>1, <1>3, <1>4, <1>5, <1>6 DEF Processor!Cleared
<1>8. ProcessorRun' = IF failed /\ t = target THEN "failed" ELSE "parked"
  BY <1>1, <1>3 DEF ProcessorRun
<1>9. ProcessorRun = "failed" <=> failed
  BY DEF ProcessorRun
<1>10. ProcessorRun' = IF ProcessorRun = "failed" /\ t = target
                       THEN "failed" ELSE "parked"
  BY <1>8, <1>9
<1> QED BY <1>1, <1>3, <1>7, <1>10, CheckIsBoundary, Zenon DEF Processor!Park

-----------------------------------------------------------------------------
(***************************************************************************)
(* The theorem.                                                            *)
(***************************************************************************)
\* vmcs_setup: the guest goes on with Linux's registers.
LEMMA InitRefines == Init => ProcessorInit
<1> SUFFICES ASSUME Init PROVE ProcessorInit
  OBVIOUS
<1>1. PICK c0 \in LinuxCr0s, c4 \in LinuxCr4s : vmcs = VmcsSetup(c0, c4)
  BY DEF Init
<1>2. c0 \subseteq cr0_maybe1 /\ c4 \subseteq cr4_maybe1
  BY GuestAssumption DEF GuestAssumption
<1> DEFINE m0 == (c0 \cap cr0_maybe1) \cup cr0_required1
           m4 == ((c4 \cup {"VMXE"}) \cap cr4_maybe1) \cup cr4_required1
<1>3. /\ vmcs.cr0 = m0 /\ vmcs.cr0_shadow = c0 /\ vmcs.cr0_mask = cr0_host_mask
      /\ vmcs.cr4 = m4 /\ vmcs.cr4_mask = {} /\ vmcs.rip = "past"
      /\ vmcs.pdptes = "undefined" /\ vmcs.efer = {"LME", "LMA"}
      /\ vmcs.inject = None /\ vmcs.pat = LinuxPat /\ vmcs.ept = Root
  BY <1>1 DEF VmcsSetup, SetTargetConfig, SetGuestCr0, SetGuestCr4
<1>4. ReadCr0(vmcs) = c0
  BY <1>2, <1>3, HostMasks DEF ReadCr0
<1>5. ReadCr4(vmcs) = c4 \cup {"VMXE"}
  <2>1. m4 = c4 \cup {"VMXE"}
    BY <1>2, HostMasks, FixedAssumption DEF FixedAssumption, cr4_required1
  <2> QED BY <1>3, <2>1 DEF ReadCr4
<1>6. ProcessorRun = "on" /\ ProcessorInsn = None
  BY <1>3, GuestAssumption DEF Init, ProcessorRun, ProcessorInsn, GuestAssumption
<1>7. ProcessorPdptes = "undefined"
  BY <1>3 DEF ProcessorPdptes
<1>8. /\ target = Root /\ reg = None /\ handling = None
      /\ pat = LinuxPat /\ mtrr = TRUE
  BY DEF Init
<1>9. ReadCr4(vmcs) \in {c \cup {"VMXE"} : c \in LinuxCr4s}
  BY <1>1, <1>5
<1> QED BY <1>1, <1>3, <1>4, <1>6, <1>7, <1>8, <1>9, Zenon
        DEF ProcessorInit, Processor!InitCpu

\* Every step of GuestCpu is one of the processor, or none.
LEMMA StepRefines ==
  GuestInv /\ [Next]_vars => [Processor!Next]_(Processor!vars)
<1> SUFFICES ASSUME GuestInv, [Next]_vars
             PROVE  Processor!Next \/ UNCHANGED Processor!vars
  BY Zenon
<1>1. CASE \E i \in Insns : Fetch(i)
  BY <1>1, FetchRefines, Zenon DEF Processor!Next
<1>2. CASE GuestExecute
  BY <1>2, GuestExecuteRefines, Zenon DEF Processor!Next
<1>3. CASE VmExit \/ Interrupted
  BY <1>3, ExitRefines
<1>4. CASE VmEntry
  BY <1>4, EntryRefines, Zenon DEF Processor!Next
<1>5. CASE HandleExit
  BY <1>5, HandleExitRefines
<1>6. CASE HandleFailedEntry
  BY <1>6, FailedEntryRefines, Zenon DEF Processor!Next
<1>7. CASE NoEvent \/ UNCHANGED vars
  <2>1. UNCHANGED <<target, failed, vmcs, insn, reg, pat, mtrr, handling>>
    BY <1>7 DEF NoEvent, vars
  <2>2. ProcessorInsn' = ProcessorInsn
    BY <2>1 DEF ProcessorInsn
  <2> QED BY <2>1, <2>2, NoStep
<1>8. CASE \E hard \in BOOLEAN : Reset(hard)
  BY <1>8, ResetRefines, Zenon DEF Processor!Next
<1>9. CASE \E t \in Targets : Park(t)
  BY <1>9, ParkRefines, Zenon DEF Processor!Next
<1> QED BY <1>1, <1>2, <1>3, <1>4, <1>5, <1>6, <1>7, <1>8, <1>9 DEF Next

\* The VMCS, the exit handlers, resets and parking together give the guest a
\* processor: every behaviour of GuestCpu is one of GuestProcessor.
THEOREM GuestImplementsProcessor == Spec => ImplementsProcessor
<1>1. GuestInv /\ [Next]_vars => [Processor!Next]_(Processor!vars)
  BY StepRefines
<1> QED BY <1>1, InitRefines, GuestInvariant, PTL DEF Spec, ImplementsProcessor

=============================================================================
