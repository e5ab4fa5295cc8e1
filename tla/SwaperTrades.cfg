SPECIFICATION Spec
CONSTANTS
  W = W  T = T  U = U  p1 = p1  p2 = p2  p3 = p3  p4 = p4  p5 = p5  acc = acc  t1 = t1  t2 = t2
  Trader <- MCTrader
  Token <- MCToken
  WETH = W
  Pool <- MCPool
  Ends <- MCEnds
  Address <- MCAddress
  Account = acc
  Path <- MCPath
  Fee <- MCFee
  TrueFee <- MCTrueFee
  Base = 10
  DefaultFee = 3
  RoundFees <- MCRoundFees
  StableAbove = 4
  StableFee = 1
  StableGrowth = 10
  Precision = 250
  Input <- MCInput
  MaxInt = 5
  Byte = 16
  AmountBytes = 2
  AddressBytes = 1
  FeeBytes = 1
  Start <- MCStart
  Other <- MCOther
  MaxMoves = 1
SYMMETRY Symmetric
INVARIANTS IInv FailsOnlyOnPrice
PROPERTIES NeverLoses PutsInNoMore TakesAll LearnedCovers
