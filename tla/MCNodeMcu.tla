----------------------------- MODULE MCNodeMcu -----------------------------
(* Instances of NodeMcu for TLC: three connections, and all four switches. *)
EXTENDS NodeMcu, TLC

Symmetry == Permutations(Conns)
=============================================================================
