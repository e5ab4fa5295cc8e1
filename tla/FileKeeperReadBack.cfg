\* A pair without tokens is saved.
CONSTANTS
  p1 = p1
  p2 = p2
  Minute = Minute
  Main = Main
  Pair = {p1, p2}
  Size <- TwoSizes
  Refused = {p2}
  MaxVersion = 1
  MaxStop = 1
SPECIFICATION Spec
PROPERTY ReadsBack
\* the process may stay down
CHECK_DEADLOCK FALSE
