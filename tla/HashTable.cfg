CONSTANTS
  Key = {0, 5, 6, 10}
  Val = {v1, v2}
  HashOf <- MCHash
  Exponents = {0, 1, 25}
  Garbage = Garbage
  None = None
SPECIFICATION Spec
INVARIANTS ChainsExact OverflowOnlyWhenFull AllOrNothing
PROPERTIES EntriesStable ImplementsDictionary
CHECK_DEADLOCK FALSE
