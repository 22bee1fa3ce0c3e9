CONSTANTS
  Capacity = 6
  RecLen = {1, 2, 3}
  MaxRecords = 4
  MaxArgs = 3
  MaxEnv = 3
  AuxWords = 2
  Width = 4
  Ratios = {0, 16, 27, 42, 43, 255}
  Levels = {0, 1, 9, 10}
  Families = {5, 6, 14, 15}
  ExtFamilies = {0, 1, 255}
  Mappings = {m1, m2, m3}
  MaxLines = 3
  Texts <- SomeTexts
  Rots = {0, 1, 13, 25}
  N = 4
  Squares <- SomeSquares
  Entries <- Few
  Layouts <- SomeLayouts
  LineOffs = {0, 16}
  MaxBytes = 16
  IntHalf = 16
  RegHalf = 32
  Upper = 4
SPECIFICATION Behaviour
INVARIANTS WalksWholeList ShowsTheRegisters WritesRotation MatrixProducts ColoursBytes IdiomsExact
PROPERTY Terminates
CHECK_DEADLOCK FALSE
