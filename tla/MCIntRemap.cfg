SPECIFICATION Spec
CONSTANTS
  c1 = c1
  c2 = c2
  d1 = d1
  d2 = d2
  d3 = d3
  chip = chip
  root = root
  other = other
  Limit = 4
  Units = 2
  CPUs = {c1}
  Devices = {d1, d2, d3}
  Chips = {chip}
  Vectors <- MCVectors
  Bus <- MCBus
  Targets = {root, other}
  Root = root
  Pages = 3
  Exclusive = TRUE
INVARIANTS
  TypeOK
  Isolation
  RegionsWhole
  PagesAccounted
