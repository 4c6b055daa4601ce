----------------------------- MODULE MCMonitor -----------------------------
(* Instances of Monitor: the worlds are interchangeable. *)
EXTENDS Monitor, TLC

Symmetry == Permutations(Worlds)
=============================================================================
