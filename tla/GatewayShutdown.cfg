CONSTANTS
  Period = 2
  Burst = 1
  Requests = {r1}
  Clients = {"c"}
  Instances <- Shipped
SPECIFICATION Spec
INVARIANT NoRequestIsCutOff
\* The process may end, and then stops.
CHECK_DEADLOCK FALSE
