CONSTANTS
  l1 = l1
  l2 = l2
  Loggers <- MCTwo
  NoLogger = NoLogger
  RowWidths <- MCWidths
  MaxRows = 2
SYMMETRY Symmetry
SPECIFICATION Spec
INVARIANTS
  TypeOK
  HeaderIntact
  OwnRowsInOrder
  CompleteIfOnlyNewestWrites
PROPERTIES
  AppendOnlyWhileSole
CHECK_DEADLOCK FALSE
