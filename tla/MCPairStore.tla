---------------------------- MODULE MCPairStore ----------------------------
(* Instances of PairStore for TLC: two pairs, two positions a later log     *)
(* can have, entries that expire after one second.                          *)
EXTENDS PairStore, TLC

CONSTANTS p1, p2, h1, h2, s1, s2

Log(b, t, l) == [block |-> b, tx |-> t, log |-> l]

TwoPositions == {Log(1, 0, 1), Log(1, 1, 0)}
Symmetry == Permutations(Pair) \cup Permutations(Handler) \cup Permutations(Scanner)
=============================================================================
