------------------------------ MODULE MCFleet -------------------------------
(* Instances of Fleet for TLC. *)
EXTENDS Fleet, TLC

Symmetry == Permutations(Specs) \cup Permutations(IDs) \cup Permutations(Tasks)
=============================================================================
