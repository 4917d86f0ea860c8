CONSTANTS
  Scenarios <- Congestion
  NumBg = 1
  MaxSignals = 0
SPECIFICATION Spec
INVARIANTS
  RampsRun
