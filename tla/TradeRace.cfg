\* Two goroutines on one path, prices that move, a node that may not answer.
CONSTANTS
  p1 = p1
  t1 = t1
  t2 = t2
  Trader = {t1, t2}
  Path = {p1}
  Gas <- GasTable
  EthGas <- EthGasTable
  Amount = {5, 10, 20}
  Offer <- Offers
  GasPrice = {1, 4}
  EthPrice = {1, 2}
  Used = {4, 8}
  Share = 2
  Ether = 1000000
  Minute = 1
  Backoff = 2
  MaxTime = 4
  MaxNonce = 2
  NoDeal = NoDeal
SPECIFICATION Spec
INVARIANTS IInv OnePending
PROPERTIES RetriesSpaced RefusedForCause SendsOnlyPaying SendsOnlyModest
SYMMETRY Symmetry
\* the clock stops at MaxTime
CHECK_DEADLOCK FALSE
