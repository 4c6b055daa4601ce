------------------------------ MODULE MCTrunk ------------------------------
(* Instances of Trunk: the runs are interchangeable. *)
EXTENDS Trunk, TLC

Symmetry == Permutations(Runs)
=============================================================================
