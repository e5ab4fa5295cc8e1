SPECIFICATION MCSpec
CONSTANTS
  N = 3
  Weight <- MCWeight
  MaxEdges = 4
  Inf = Inf
  Nil = Nil
  Panic = Panic
CHECK_DEADLOCK FALSE
INVARIANT LoopOrNil
