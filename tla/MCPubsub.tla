------------------------------ MODULE MCPubsub ------------------------------
EXTENDS Pubsub, TLC

CONSTANTS n1, n2, n3, t1, t2

\* n1 and n2 fall into the same bucket of two, n3 into the other.
TwoBuckets == [n \in Nodes |-> IF n = n3 THEN 7 ELSE 4]

\* n1 and n2 publish once each; or n1 publishes twice.
TwoSenders == [n \in Nodes |-> IF n = n3 THEN 0 ELSE 1]
OneEach == [n \in Nodes |-> 1]
Repeats == [n \in Nodes |-> IF n = n1 THEN 2 ELSE 1]

SameBucket == Permutations({n1, n2})
AnyTopic == Permutations({t1, t2})
=============================================================================
