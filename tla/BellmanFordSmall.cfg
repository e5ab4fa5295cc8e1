SPECIFICATION MCSpec
CONSTANTS
  N = 3
  Weight <- MCWeight
  MaxEdges = 4
  Inf = Inf
  Nil = Nil
  Panic = Panic
CHECK_DEADLOCK FALSE
INVARIANTS BF1Exact BF2Notices BF3Exact
