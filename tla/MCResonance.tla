---------------------------- MODULE MCResonance ----------------------------
(* Instances of Resonance for TLC: the values are in the .cfg files.       *)
EXTENDS Resonance, TLC

\* Worlds, files and connections are only ever compared for equality.
Symmetry == Permutations(Worlds) \union Permutations(Files) \union Permutations(Conns)
=============================================================================
