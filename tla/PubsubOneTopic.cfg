CONSTANTS
  n1 = n1
  n2 = n2
  n3 = n3
  t1 = t1
  t2 = t2
  Nodes = {n1, n2}
  Topics = {t1}
  SHARE_COUNT = 2
  fnv32 <- TwoBuckets
  MaxPush <- OneEach
  None = None
SPECIFICATION FairSpec
\* The process stops when its clients have left.
CHECK_DEADLOCK FALSE
INVARIANTS TypeOK OneTopicIsSafe BucketOrder
PROPERTIES ImplementsBroker CallsReturn
