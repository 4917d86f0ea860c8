SPECIFICATION Spec
INVARIANTS ReturnedIsOver
PROPERTIES StopReturns IsGenerator
CHECK_DEADLOCK FALSE
