CONSTANTS
  Client = {p1}
  Cpu = {c1, c2}
  PMC_COUNT = 1
  FFC_COUNT = 0
  CounterSize = 64
  VecLimit = 32
  Migrates = TRUE
  MaxTsc = 1
  Event = {1}
  Domain = {0}
  TestCount = {0, 2}
  TestShape = {"both", "startOnly", "none"}
  MaxCalls = 2
SPECIFICATION FairSpec
INVARIANTS UnstoppedIsStale NothingHeldAtReturn
PROPERTY RuntestReturns
CHECK_DEADLOCK FALSE
