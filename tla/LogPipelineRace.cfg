\* Two handlers, one busy pair, one block replaced by another.
CONSTANTS
  p1 = p1
  p2 = p2
  h1 = h1
  h2 = h2
  NoEntry = NoEntry
  NoFee = NoFee
  Pair = {p1}
  Position <- Positions2
  Handler = {h1, h2}
  Transaction <- OnePairTxs
  Answer <- MixedAnswers
  MaxBlock = 2
  MaxFork = 1
  MaxError = 0
  Life = 0
  MaxTime = 0
SPECIFICATION Spec
SYMMETRY Handlers
INVARIANTS IInv Converged
PROPERTY ForgetsOnlyByRace
\* the chain stops at MaxBlock
CHECK_DEADLOCK FALSE
