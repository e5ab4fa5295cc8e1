\* Two handlers and two scanners on a storage filled from the file.
CONSTANTS
  p1 = p1
  p2 = p2
  h1 = h1
  h2 = h2
  s1 = s1
  s2 = s2
  NoEntry = NoEntry
  Nobody = Nobody
  Pair = {p1, p2}
  Position <- TwoPositions
  Handler = {h1, h2}
  Scanner = {s1, s2}
  Life = 1
  MadeAtStart = TRUE
  MaxTime = 2
SPECIFICATION Spec
INVARIANTS IInv CrashNeedsExpiry
PROPERTIES NoFreshLoss SnapshotExact Implements
SYMMETRY Symmetry
\* a fatal error ends the process
CHECK_DEADLOCK FALSE
