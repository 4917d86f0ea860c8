CONSTANTS
  Scenarios <- Every
  NumBg = 2
  MaxSignals = 2
SPECIFICATION FairSpec
INVARIANTS
  InjectedFaultsLogged
  SelfRestoring
  SavedShutIsLastReset
  RestoredAtEnd
  EndRowIffCompleted
  FlowRowsIntact
  NoTrafficAfterSignal
PROPERTIES
  TaskLives
  Terminates
