SPECIFICATION Spec
CONSTANTS
  NumThreads = 2
  Total = 3
  MaxUpdates = 3
INVARIANTS
  Conserved
