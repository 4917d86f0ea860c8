CONSTANTS
  a1 = a1
  a2 = a2
  b1 = b1
  A = A
  B = B
  Conns = {a1, a2, b1}
  Garbled = Garbled
  MaxTotal = 3
  Names = {A, B}
  NameOf <- MCNameOf
  None = None
SPECIFICATION SpecObservers
INVARIANT RekeyReported
