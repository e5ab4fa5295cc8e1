------------------------------ MODULE MCTrade ------------------------------
(* Prices and offers for TLC: a trade may gain too little, just enough, or  *)
(* enough to pay the full gas price.                                        *)
EXTENDS Trade, TLC

CONSTANTS p1, t1, t2

Symmetry == Permutations(Trader)

GasTable    == [p \in Path |-> 4]
EthGasTable == [p \in Path |-> 4]

Offers == {[a \in Amount |-> 19], [a \in Amount |-> IF a = 20 THEN 0 ELSE 30]}
=============================================================================
