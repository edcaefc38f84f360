SPECIFICATION MCSpec
CONSTANTS
  NRow = 3
  NCol = 4
  F <- GF2
  Zero = 0
  One = 1
  Add <- GF2Add
  Mul <- GF2Mul
  Inv <- GF2Inv
  Leftovers = {1}
  SysRows = 5
  SysCols = 3
  SysTop = 3
INVARIANTS
  SolvesInplace
  FactorsStandForMatrix
  SolvesInParts
  TopDetIsDeterminant
PROPERTIES
  ReturnsRank
  SettledFactorsTravel
CHECK_DEADLOCK FALSE
