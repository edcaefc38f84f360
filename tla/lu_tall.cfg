SPECIFICATION SolveSpec
CONSTANTS
  NRow = 3
  NCol = 2
  F <- GF4
  Zero = 0
  One = 1
  Add <- GF4Add
  Mul <- GF4Mul
  Inv <- GF4Inv
  Leftovers = {3}
INVARIANTS
  TypeOK
  Factorisation
  FullRankKeepsColumns
  CodecRecovers
  FactorsStandForMatrix
CHECK_DEADLOCK FALSE
