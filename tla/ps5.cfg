SPECIFICATION FairSpec
CONSTANTS
  Thread = {t1, t2}
  Instances <- BothInstances
INVARIANTS
  TypeOK
  LcpAfterFinal
  SortComplete
  NoDangling
  WrittenOnce
  CountExact
  PopFrontOrder
PROPERTY SortFinishes
