------------------------------ MODULE MCSharing ------------------------------
(* Finite instances of Sharing for TLC. *)
EXTENDS Sharing, TLC

Symmetry == Permutations(Invites)
=============================================================================
