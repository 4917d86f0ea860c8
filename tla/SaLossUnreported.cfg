CONSTANTS
  Conns = {c1, c2}
  Garbled = garbled
  MaxTotal = 4
SPECIFICATION Spec
INVARIANTS
  EveryChangeReported
