SPECIFICATION Spec
CONSTANTS
  ParamSets <- MCParamSets
  MaxInt = 2147483647
  WorkHdr = 52
  ProgHdr = 40
  Word = 4
  FullRank <- MCFullRank
  BlockSizes = {0, 1, 2}
  Extras <- MCExtras
  Begs = {0, 2}
  Adds = {1, 3}
  MaxRequested = 4
INVARIANTS
  TypeOK
  InsideMemory
  SizesSuffice
  RightSymbols
PROPERTIES
  OnceDecodable
CHECK_DEADLOCK FALSE
