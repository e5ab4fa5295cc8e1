\* Two pairs, contracts that answer in any way, a subscription error.
CONSTANTS
  p1 = p1
  p2 = p2
  h1 = h1
  h2 = h2
  NoEntry = NoEntry
  NoFee = NoFee
  Pair = {p1, p2}
  Position <- Positions2
  Handler = {h1}
  Transaction <- TwoPairTxs
  Answer <- AllAnswers
  MaxBlock = 2
  MaxFork = 0
  MaxError = 1
  Life = 0
  MaxTime = 1
SPECIFICATION FairSpec
INVARIANTS FeeFromOwnSwap KnownTokens
PROPERTY LogsEnd
\* the chain stops at MaxBlock
CHECK_DEADLOCK FALSE
