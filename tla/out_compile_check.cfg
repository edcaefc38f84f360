SPECIFICATION Spec
CONSTANTS
  ParamSets <- MCParamSets
  Hdr = 52
  Word = 4
  BlockSizes = {2, 3, 4}
  SymNums = {0, 1, 2, 3}
  Begs = {0, 3}
  Adds = {1, 2}
  MaxRequested = 3
INVARIANTS
  RefusedOnlyIfTooSmall
CHECK_DEADLOCK FALSE
