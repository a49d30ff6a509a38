---------------------------- MODULE MCExperiment ----------------------------
(* Instances of Experiment for TLC. *)
EXTENDS Experiment, TLC

Symmetry == Permutations(Specs) \cup Permutations(IDs)
=============================================================================
