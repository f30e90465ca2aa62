SPECIFICATION Spec
CONSTANTS
  Units = 2
  QSize = 3
  Configs <- MCMixed
  MaxRequests = 3
INVARIANTS
  UniformIR
