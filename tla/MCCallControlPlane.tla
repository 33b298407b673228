-------------------------- MODULE MCCallControlPlane --------------------------
(* Finite instances of CallControlPlane for TLC: the creator and two users  *)
(* of whom only one fits beside the creator on the P2P plane.               *)
EXTENDS CallControlPlane, TLC

CONSTANTS d1, d2, d3, ada, bob, cat

MCUserOf == d1 :> ada @@ d2 :> bob @@ d3 :> cat
=============================================================================
