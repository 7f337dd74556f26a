SPECIFICATION Spec
CONSTANTS
  Thread = {t1, t2}
  Instances <- LeastInstance
INVARIANT CreatorKeepsStep
