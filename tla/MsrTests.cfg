CONSTANTS
  Cpu = {c1, c2}
  PMC_COUNT = 1
  FFC_COUNT = 1
  CounterSize = 64
  VecLimit = 32
  MaxTsc = 6
  MaxTscMoved = 2
  Program = {"test.0", "test.1", "test.2", "test.3", "test.4", "test.6"}
  Fd = 9
  LoopShift = 1
  Word = 128
  Migrates = TRUE
SPECIFICATION Spec
CONSTRAINT Bounded
INVARIANTS PrintsItsCounts AveragesAreTheFirstRound HaltedAtExit
CHECK_DEADLOCK FALSE
SYMMETRY SameCpus
