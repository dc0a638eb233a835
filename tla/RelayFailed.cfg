CONSTANTS
  DataCap = 2
  DoneCap = 2
  MaxMsgs = 4
SPECIFICATION FairSpec
PROPERTY FailedCallReturns
CHECK_DEADLOCK FALSE
