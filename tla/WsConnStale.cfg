CONSTANT MaxBuffered = 2
SPECIFICATION Spec
PROPERTY ClosedOnlyWhenSilent
CHECK_DEADLOCK FALSE
