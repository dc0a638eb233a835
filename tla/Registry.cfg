CONSTANTS
  s1 = s1
  s2 = s2
  Value = v1
  Services = {s1}
  Others = {s2}
  KeyOrder <- SecondThenFirst
SPECIFICATION FairSpec
INVARIANT TypeOK
PROPERTIES LeaseCleansUp RegisteredIsKnown StaysUpIsListed CloseIsHeard
