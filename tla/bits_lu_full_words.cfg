SPECIFICATION Spec
CONSTANTS
  W = 2
  NRow = 4
  NCol = 2
  F = {0, 1}
  Zero = 0
  One = 1
  Add <- GF2Add
  Mul <- GF2Mul
INVARIANTS
  Factorises
CHECK_DEADLOCK FALSE
