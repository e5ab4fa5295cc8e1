\* A first start: the map is made lazily while handlers store.
CONSTANTS
  p1 = p1
  p2 = p2
  h1 = h1
  h2 = h2
  s1 = s1
  s2 = s2
  NoEntry = NoEntry
  Nobody = Nobody
  Pair = {p1}
  Position <- TwoPositions
  Handler = {h1}
  Scanner = {s1}
  Life = 0
  MadeAtStart = FALSE
  MaxTime = 1
SPECIFICATION Spec
PROPERTY NoFreshLoss
\* a fatal error ends the process
CHECK_DEADLOCK FALSE
