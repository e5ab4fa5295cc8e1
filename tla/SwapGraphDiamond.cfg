\* Two circles and a drained pool beside them, distances of plus or minus one.
CONSTANTS
  weth = weth
  a = a
  b = b
  c = c
  p1 = p1
  p2 = p2
  p3 = p3
  p4 = p4
  p5 = p5
  Token = {weth, a, b, c}
  Source = weth
  Pool = {p1, p2, p3, p4, p5}
  Ends <- DiamondEnds
  Weight <- UnitWeights
  Drainable = {p1, p5}
  Rounds = 2
  Hops = 4
  NegInf = NegInf
  Never = Never
  Far = Far
  NoEdge = NoEdge
SPECIFICATION MCSpec
INVARIANTS IInv Profitable ClosedWalk PoolsDistinct StopEarly MissedByLap PanicNeedsDrained
\* a nil dereference ends the process
CHECK_DEADLOCK FALSE
