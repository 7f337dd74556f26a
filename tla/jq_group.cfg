SPECIFICATION FairSpec
CONSTANTS
  MaxThreads = 4
  NumQueues = 3
  Job = {j1, j2}
  NoJob = NoJob
INVARIANTS
  TypeOK
  IdleExact
  NoLostJob
  WorkHasOwner
PROPERTIES
  PoolSafety
  LoopsReturn
