---------------------------- MODULE MCControlDb ----------------------------
(* Instances of ControlDb for TLC. *)
EXTENDS ControlDb, TLC

Symmetry == Permutations(Cmds) \cup Permutations(Models)
=============================================================================
