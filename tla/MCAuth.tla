-------------------------------- MODULE MCAuth --------------------------------
(* Finite instances of Auth for TLC.                                         *)
EXTENDS Auth, TLC

CONSTANTS r1, r2, r3, r4, t1, t2, t3

Symmetry == Permutations(Requests) \cup Permutations(Tokens \ {FirstToken}) \cup Permutations(Links)
=============================================================================
