CONSTANTS
  Period = 2
  Burst = 1
  Requests = {r1, r2, r3, r4}
  Clients = {"c"}
  Instances <- FourInstances
SPECIFICATION Spec
INVARIANTS
  GatewayTypeOK
  FiltersRunInOrder
  OneAnswer
  RateBound
  RefusalIsFree
  
SYMMETRY AnyRequest
\* The requests end, and so does the process.
CHECK_DEADLOCK FALSE
