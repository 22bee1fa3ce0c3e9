CONSTANTS
  Client = {p1, p2}
  Cpu = {c1, c2}
  PMC_COUNT = 1
  FFC_COUNT = 0
  CounterSize = 64
  VecLimit = 32
  Migrates = FALSE
  MaxTsc = 3
  Event = {1}
  Domain = {0}
  TestCount = {1}
  TestShape = {"both", "startOnly", "none"}
  MaxCalls = 1
SPECIFICATION Spec
SYMMETRY Symmetry
INVARIANT Isolated
CHECK_DEADLOCK FALSE
