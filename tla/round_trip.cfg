SPECIFICATION Spec
CONSTANTS
  ParamSets <- base_param_sets
  K = 8
  NExtra = 1
  Sources <- SomeSources
  IdLists <- SomeLists
  Fill = 170
INVARIANTS
  Systematic
  Decodes
