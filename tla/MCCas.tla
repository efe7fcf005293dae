-------------------------------- MODULE MCCas --------------------------------
(* Cas with small constants for TLC. *)
EXTENDS Cas, TLC

Symmetry == Permutations(Inode) \cup Permutations(Worker) \cup Permutations(SharedDest)
==============================================================================
