---------------------------- MODULE MCFileKeeper ----------------------------
(* Pairs and lines for TLC.                                                 *)
EXTENDS FileKeeper

CONSTANTS p1, p2

(* Lines of different lengths: one save written over another can cut one.  *)
TwoSizes == [p \in Pair |-> IF p = p1 THEN 2 ELSE 1]
=============================================================================
