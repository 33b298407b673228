---------------------------- MODULE MCStreamLog ----------------------------
(* Finite instances of StreamLog for TLC. *)
EXTENDS StreamLog, TLC

Symmetry == Permutations(Tasks)
=============================================================================
