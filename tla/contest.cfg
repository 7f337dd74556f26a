SPECIFICATION Spec
CONSTANTS
  MaxChar = 2
  KeyWidth = 2
  InssortThreshold = 3
  WideThreshold = 5
  SmallSort = 3
  TreeBits = 2
  OversampleFactor = 2
  Rollout = 2
  LcpBase = 2
  MergeBase = 4
  LoserTreeMin = 6
  LoserTreeWays = 3
  CachedBytes = 2
  BlockSize = 2
  SpareBlocks = 1
  MedianOf9 = 4
  MkqsThreshold = 5
  Pivots = 2
  PivotRun = 3
  SmallGroup = 3
  MbmStack = 2
  KeyBuffer = 2
  CacheCutoff = 3
  UnsetLcp = 99
  KeptLcp = 42
  Instances <- MCInstances
  is_lcp_func <- LcpSorters
  is_lcp_cache_func <- LcpCacheSorters
  m_run_func <- RunFunc
  m_run_lcp_func <- RunLcpFunc
  m_run_lcp_cache_func <- RunLcpCacheFunc
INVARIANTS
  OutputSorted
  LcpsExact
PROPERTIES
  ContestEnds
