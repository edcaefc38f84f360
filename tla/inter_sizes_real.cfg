SPECIFICATION MCSpec
INVARIANTS
  EveryBlockHasProgramSize
CHECK_DEADLOCK FALSE
