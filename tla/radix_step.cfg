SPECIFICATION StepSpec
CONSTANTS
  N = 7
  MaxChar = 2
  Parts = 5
INVARIANTS
  TypesOK
  NothingLost
  CacheAgrees
PROPERTIES
  SlotsWrittenOnce
  DeliversBuckets
