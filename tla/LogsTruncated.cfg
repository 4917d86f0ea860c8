CONSTANTS
  Scenarios <- Cascade
  NumBg = 1
  MaxSignals = 0
SPECIFICATION Spec
PROPERTIES
  LogsAppendOnly
