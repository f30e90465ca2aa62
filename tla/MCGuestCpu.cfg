SPECIFICATION Spec
CONSTANTS
  root = root
  t1 = t1
  None = None
  Zero = Zero
  Parking = Parking
  Targets <- MCTargets
  Root = root
  Insns <- MCInsns
  CR0_FIXED0 <- MCFixed0of0
  CR0_FIXED1 <- MCFixed1of0
  CR4_FIXED0 <- MCFixed0of4
  CR4_FIXED1 <- MCFixed1of4
  LinuxCr0s <- MCLinuxCr0s
  LinuxCr4s <- MCLinuxCr4s
  Pats <- MCPats
  LinuxPat = "linux"
  ResetPat = "reset"
  Cr3 <- MCCr3
  Memory <- MCMemory
  OldPdptes <- MCOldPdptes
  Addresses <- MCAddresses
INVARIANTS
  TypeOK
  OwnTables
  EmulatesWhatGuestExecutes
PROPERTIES
  ImplementsProcessor
