-------------------------- MODULE MCRuntimeHealth --------------------------
(* RuntimeHealth with workers and loads that may be exchanged for each other. *)
EXTENDS RuntimeHealth, TLC

Symmetry == Permutations(Workers) \cup Permutations(Loads)
=============================================================================
