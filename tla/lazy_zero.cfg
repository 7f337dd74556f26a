SPECIFICATION Spec
CONSTANTS
  NumThreads = 2
  Total = 2
  MaxUpdates = 2
INVARIANT RestIsZero
