--------------------------- MODULE MCSharedMemory ---------------------------
(* Instances of SharedMemory for TLC: the values are in the .cfg files. *)
EXTENDS SharedMemory, TLC

Symmetry == Permutations(Worlds) \union Permutations(Lists) \union Permutations(Hooks)
=============================================================================
