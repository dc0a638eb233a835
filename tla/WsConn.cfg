CONSTANT MaxBuffered = 2
SPECIFICATION FairSpec
INVARIANTS TypeOK ClosedOnce DoneMeansClosed
PROPERTIES SilentIsClosed GoroutinesEnd
\* A closed connection has nothing left to do.
CHECK_DEADLOCK FALSE
