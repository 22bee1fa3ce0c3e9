CONSTANTS
  Client = {p1}
  Cpu = {c1}
  PMC_COUNT = 2
  FFC_COUNT = 1
  CounterSize = 64
  VecLimit = 32
  Migrates = FALSE
  MaxTsc = 4
  Event = {0, 1}
  Domain = {0, 3}
  TestCount = {0, 2}
  TestShape = {"both"}
  MaxCalls = 1
SPECIFICATION Spec
INVARIANT ResultsBracketed
PROPERTY ImplementsSessions
CHECK_DEADLOCK FALSE
