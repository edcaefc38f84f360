SPECIFICATION MCSpec
CONSTANTS
  W = 2
  NRow = 3
  NCol = 3
  F = {0, 1}
  Zero = 0
  One = 1
  Add <- GF2Add
  Mul <- GF2Mul
  Offsets = {0, 1, 2, 3}
  OctRows = 3
  OctCols = 3
  OctF = {0, 1, 2, 3}
  OctAdd <- GF4Add
  OctMul <- GF4Mul
  Exp <- GF4Exp
  Log <- GF4Log
  Contents <- SomeContents
  Alphas = {0, 1, 3}
  MaxCalls = 1
  N = 5
  V = {v1, v2}
INVARIANTS
  MemoryHoldsMatrix
  ZerosFound
  Permuted
  NeverVisitedTwice
PROPERTIES
  ImplementsLU
  Terminates
CHECK_DEADLOCK FALSE
