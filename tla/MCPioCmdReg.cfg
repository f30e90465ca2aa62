SPECIFICATION Spec
CONSTANTS
  root = root
  t1 = t1
  t2 = t2
  Targets <- MCTargets
  Root = root
  Ports <- MCPorts
  CmdReg = 4
  PmTimer <- MCPmTimer
  Configs <- MCConfigs
  BitmapPages = 2
  Pages = 6
INVARIANTS
  CmdRegIntercepted
