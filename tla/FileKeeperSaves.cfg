\* Crashes, full disks and shutdowns.
CONSTANTS
  p1 = p1
  p2 = p2
  Minute = Minute
  Main = Main
  Pair = {p1, p2}
  Size <- TwoSizes
  Refused = {p2}
  MaxVersion = 2
  MaxStop = 1
SPECIFICATION FairSpec
INVARIANTS IInv ShutDownLast
PROPERTIES StartRestores Terminates
\* the process may stay down
CHECK_DEADLOCK FALSE
