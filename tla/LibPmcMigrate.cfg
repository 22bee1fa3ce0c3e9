CONSTANTS
  Client = {p1}
  Cpu = {c1, c2}
  PMC_COUNT = 1
  FFC_COUNT = 0
  CounterSize = 64
  VecLimit = 32
  Migrates = TRUE
  MaxTsc = 1
  Event = {1}
  Domain = {0}
  TestCount = {1}
  TestShape = {"both"}
  MaxCalls = 1
SPECIFICATION Spec
INVARIANT QuietMeansOff
CHECK_DEADLOCK FALSE
