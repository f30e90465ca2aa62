\* A descriptor that cannot be emulated parks the CPU for good.
CHECK_DEADLOCK FALSE
SPECIFICATION FairSpec
CONSTANTS
  Units = 2
  QSize = 3
  Configs <- MCConfigs
  MaxRequests = 3
INVARIANTS
  TypeOK
  ServedOnce
  TablesInForce
  FaultEventsWhole
  HandedBack
PROPERTIES
  AllServed
  ShutdownEnds
