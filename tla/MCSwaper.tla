------------------------------- MODULE MCSwaper -------------------------------
(***************************************************************************)
(* Two pools of WETH and T, their tokens in opposite orders, and two that  *)
(* make a triangle with the first.  The prices are far enough apart for    *)
(* circles to pay at first, and not after one trade.  The fee of a fifth   *)
(* pool, which no trade uses, is learned from swaps of several sizes.      *)
(***************************************************************************)
EXTENDS Swaper, TLC

CONSTANTS W, T, U, p1, p2, p3, p4, p5, acc, t1, t2

MCTrader == {t1, t2}
MCToken  == {W, T, U}
MCPool   == {p1, p2, p3, p4, p5}
MCEnds   == p1 :> <<W, T>> @@ p2 :> <<T, W>> @@ p3 :> <<T, U>> @@ p4 :> <<U, W>> @@ p5 :> <<U, T>>
MCAddress == p1 :> 1 @@ p2 :> 2 @@ p3 :> 3 @@ p4 :> 14 @@ p5 :> 9
MCTrueFee == p1 :> 1 @@ p2 :> 1 @@ p3 :> 1 @@ p4 :> 3 @@ p5 :> 3
MCPath  == {<<p1, p2>>, <<p1, p3, p4>>}
Holds(w, t, u) == W :> w @@ T :> t @@ U :> u
MCStart == p1 :> Holds(20, 40, 0) @@ p2 :> Holds(40, 25, 0) @@ p3 :> Holds(0, 30, 32)
           @@ p4 :> Holds(41, 0, 20) @@ p5 :> Holds(0, 207, 20) @@ acc :> Holds(4, 0, 0)
MCFee   == p1 :> {1} @@ p2 :> {1} @@ p3 :> {1} @@ p4 :> {2, 3} @@ p5 :> {3}
MCInput == {2, 5, 6}
Symmetric == Permutations(MCTrader)
MCOther == [h \in MCPool \cup {acc} |-> IF h = p5 THEN {1, 4, 19} ELSE IF h \in {p1, acc} THEN {5} ELSE {}]
MCRoundFees == {5}
=============================================================================
