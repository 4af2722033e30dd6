SPECIFICATION Spec
CONSTANTS
  Calls = {p1, p2, p3}
  LookAhead = 2
  MaxIndex = 4
  ConflictLimit = 2
  MaxGap = 2
SYMMETRY Symmetry
INVARIANTS ReceiveNeverReused
CHECK_DEADLOCK FALSE
