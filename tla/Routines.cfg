CONSTANTS
  RedZone = 16
  Sites = {"entry", "preLine", "lineEnd", "baseline"}
  Times = {0, 1, 2}
  MaxSignals = 2
  Threads = {t1, t2}
  Objects = {o1, o2}
  MaxRequests = 2
  Bases = {1000, 5000}
  MaxCalls = 3
  XmmBytes = 4
  Byte = {0, 1, 2, 3}
  Header = 2
  MaxSym = 3
  Repeats = {1, 3, 5}
  Chunk = 4
  Lengths = {0, 1, 3, 4, 5, 8, 11}
  Behind = 5
  Captures <- SomeCaptures
  Hellos <- SomeHellos
  Garbage = {0, 3, 9}
  MaxBeyond = 8
  PMC_COUNT = 4
  FFC_COUNT = 3
  TestCounts = {0, 1, 2}
  CfgLens = {2, 6}
  Work = {1, 3}
  Overhead = 2
  MaxRuns = 2
  Versions = {"2012.11.15", "2012.11.20", "2012.12.02"}
  Kernels = {"avx", "sse", "line"}
  Lens = {128, 192}
  Addrs <- SomeAddrs
  Passed = {TRUE}
  Unset = Unset
SPECIFICATION Behaviour
INVARIANTS SurvivesCallbacks GreetsOnceOrThrows SplitsItsInput IoctlsValid LosesOnlyAfterFailure
  RowsOfTheirTests MeasuresItsTests
PROPERTIES RelocationsHold CompressorRight Returns
CHECK_DEADLOCK FALSE
