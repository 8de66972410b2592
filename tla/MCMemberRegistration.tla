------------------------ MODULE MCMemberRegistration ------------------------
(* Instances of MemberRegistration for TLC. *)
EXTENDS MemberRegistration, TLC

Symmetry == Permutations(Reqs) \cup Permutations(Phones) \cup Permutations(Ids)
=============================================================================
