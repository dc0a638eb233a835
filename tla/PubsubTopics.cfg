CONSTANTS
  n1 = n1
  n2 = n2
  n3 = n3
  t1 = t1
  t2 = t2
  Nodes = {n1, n3}
  Topics = {t1, t2}
  SHARE_COUNT = 2
  fnv32 <- TwoBuckets
  MaxPush <- Repeats
  None = None
SYMMETRY AnyTopic
SPECIFICATION Spec
INVARIANTS WriteImpliesSubscribed OverlapOnlyAcrossTopics SenderOrder
\* The process may panic, and then stops.
CHECK_DEADLOCK FALSE
