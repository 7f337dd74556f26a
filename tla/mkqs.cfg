SPECIFICATION ParallelFairSpec
CONSTANTS
  Thread = {t1, t2}
  N = 4
  InsThreshold = 2
  MaxDepth = 2
  BlockSize = 2
  Procs = 2
INVARIANTS
  TypesOK
  OnePlace
  QueuesExact
  RecursesOnAll
  CopiedAreSorted
  StackInArea
  OutputComplete
PROPERTY MkqsEnds
