CONSTANTS
  DataCap = 2
  DoneCap = 2
  MaxMsgs = 4
SPECIFICATION FairSpec
INVARIANTS TypeOK DeliveredInOrder OneOutcome NothingLost
PROPERTIES
  ImplementsExchange
  SuccessIsAnswered
  RelayReturns
  InvokerEndsOrIsStuck
\* A request ends: its two goroutines stop.
CHECK_DEADLOCK FALSE
