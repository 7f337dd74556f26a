SPECIFICATION FairSpec
CONSTANTS
  Thread = {t1, t2}
  N = 4
  Strings <- SomeStrings
  MaxChar = 2
  InsThreshold = 2
  SeqThresholds = {2, 4}
  KeyWidths = {1, 2}
INVARIANTS
  TypeOK
  OneOwner
  SettledIsFinal
  DepthIsCommon
PROPERTY SortEnds
