CONSTANTS
  CPUs <- MCCPUs
  Changes <- MCChanges
SPECIFICATION FairSpec
\* A CPU that is back in Linux stays there: the image's life ends.
CHECK_DEADLOCK FALSE
INVARIANTS
  TypeOK
  HandedBack
  TakenOver
  NoException
PROPERTIES
  CpusReturn
