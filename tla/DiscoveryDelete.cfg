CONSTANTS
  s1 = s1
  s2 = s2
  Services = {s1, s2}
  KeyOrder <- FirstThenSecond
  Values = {v1}
  Requests = {}
  MaxChanges = 1
SPECIFICATION DiscoveryFairSpec
PROPERTY DeletedIsForgotten
