SPECIFICATION GenSpec
CONSTANTS
  ParamSets <- base_param_sets
  TupleBlocks = {1, 2, 10, 11, 19, 100, 101, 700, 5001, 20000, 56403}
  Sets <- SmallSets
  BlockSets <- SomeBlocks
  IDs <- SomeIDs
  Blocks = {1, 11, 18, 26, 56}
  Leftovers = {0, 85}
  nESIs = 3
  Values = {0, 1, 8, 9, 17, 18, 26}
  MaxEsi = 5
INVARIANTS
  SupportedUpToMaxK
  GeneratorsWellDefined
  RowHasDegree
  MatrixFollowsOutput
  SymbolsApart
  ProductsArePolynomials
  HdpcExact
  SameRow
  Distinct
PROPERTIES
  WalkEnds
CHECK_DEADLOCK FALSE
