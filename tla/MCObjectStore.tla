--------------------------- MODULE MCObjectStore ---------------------------
(* Finite instances of ObjectStore for TLC. *)
EXTENDS ObjectStore, TLC

Symmetry == Permutations(Tasks) \cup Permutations(Apps)
=============================================================================
