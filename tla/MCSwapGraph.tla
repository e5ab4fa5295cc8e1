---------------------------- MODULE MCSwapGraph ----------------------------
(***************************************************************************)
(* A graph for TLC: a circle through WETH of three pools, one beside it of *)
(* two, and a token c beside that.  Either the pool of c is empty, which   *)
(* leaves the circles alone, or its reserve of a is, and the first pool is *)
(* empty: then the only way to WETH is long enough for relaxation to end   *)
(* before -Inf gets there.                                                 *)
(***************************************************************************)
EXTENDS SwapGraph, TLC

CONSTANTS weth, a, b, c, p1, p2, p3, p4, p5

DiamondEnds ==
  p1 :> <<weth, a>> @@ p2 :> <<a, b>> @@ p3 :> <<b, a>> @@ p4 :> <<b, weth>> @@ p5 :> <<c, a>>

UnitWeights == {-1, 1}

Weights(p) == <<weight[<<p, "+">>], weight[<<p, "-">>]>>

Empty == <<Never, Never>>

Circles == Weights(p5) = Empty /\ Weights(p1) \in Weight \X Weight
Drained == Weights(p5) = <<NegInf, Never>> /\ Weights(p1) = Empty

MCSpec == Init /\ [][Next /\ (pc = "idle" => (Circles \/ Drained)')]_vars
=============================================================================
