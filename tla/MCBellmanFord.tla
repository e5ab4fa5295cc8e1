---------------------------- MODULE MCBellmanFord ----------------------------
(***************************************************************************)
(* All lists of up to MaxEdges edges, and all matrices; not both at once,  *)
(* as the two kinds of graph have nothing to do with each other.           *)
(***************************************************************************)
EXTENDS BellmanFord

MCWeight == {-3, 2}

OneKind == edges' = <<>> \/ matrices' = <<0, 0, {}, NoWeights>>

MCSpec == Init /\ [][Next /\ OneKind]_vars
=============================================================================
