SPECIFICATION FairSpec
CONSTANTS
  c1 = c1
  c2 = c2
  CPUs <- MCCPUs
  Units = 2
  Records = 2
  Burst = 1
INVARIANTS
  TypeOK
  FaultNotForgotten
PROPERTIES
  FaultReported
