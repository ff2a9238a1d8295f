CONSTANTS
  w1 = w1
  w2 = w2
  w3 = w3
  Writers = {w1, w2, w3}
  Ids = {1, 2, 3}
  Cuts = {"line", "half"}
  MaxLines = 5
  MaxCuts = 3
CHECK_DEADLOCK FALSE
SPECIFICATION Spec
SYMMETRY WriterSymmetry
INVARIANTS
  AcceptedIsReadable
PROPERTIES
  ImplementsLog
