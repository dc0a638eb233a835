CONSTANTS
  s1 = s1
  s2 = s2
  heavy = heavy
  light = light
  Services = {s1, s2}
  KeyOrder <- FirstThenSecond
  WeightOf <- TwoAndOne
  AddrParses <- HeavyParses
  Values = {heavy, light}
  Requests = {r1, r2, r3}
  MaxChanges = 1
  Schemes = {"round_robin", "weight_round_robin", "consistent_hashing"}
  Half = 4
  FirstCounts <- Corners
  Length = 4
  MaxWeight = 3
  Addrs = {"a", "b"}
  Replicas = 2
  Places = 4
  MaxAdds = 3
  Asks <- FourAsks
  Rules <- ThreeRules
  Backends <- OneBackend
  MaxRules = 3
SPECIFICATION TargetsSpec
INVARIANTS TargetsTypeOK SharedEvenly Ledger WeightsAreKept PickIsSuccessor
PROPERTIES PanicIsOverflow OthersStay RulesDecide
SYMMETRY AnyRequest
