SPECIFICATION FairSpec
CONSTANTS
  c1 = c1
  c2 = c2
  CPUs <- MCCPUs
INVARIANTS
  TypeOK
  HandlerSafe
  NoLostEvent
PROPERTIES
  EventsHandled
