------------------------- MODULE MCPlantRegistration -------------------------
(* Instances of PlantRegistration for TLC. *)
EXTENDS PlantRegistration, TLC

Symmetry == Permutations(Reqs) \cup Permutations(Models)
=============================================================================
