CONSTANTS
  Client = {p1, p2}
  Cpu = {c1, c2}
  Buf = {b1}
  PMC_COUNT = 1
  FFC_COUNT = 0
  CounterSize = 2
  VecLimit = 3
  MaxTsc = 1
  Migrates = TRUE
  Vectors <- MCVectors
SPECIFICATION Spec
SYMMETRY Symmetry
INVARIANTS ScriptsReusable NoUnloadDuringCall StaysInVector TscOrdered
PROPERTY AnswersByVector
CHECK_DEADLOCK FALSE
