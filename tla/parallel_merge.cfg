SPECIFICATION FairSpec
CONSTANTS
  Thread = {t1, t2}
  Instances <- Cases
  Base = 8
  Horizon = 5
  KeyChars = 2
  MERGE_BULK_SIZE = 2
  SHARE_WORK_THRESHOLD = 2
  SplittersPerThread = 3
  Tolerance = 1
INVARIANTS Tiled Ordered PrefixShared
PROPERTY MergeReturns
