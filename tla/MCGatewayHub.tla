---------------------------- MODULE MCGatewayHub ----------------------------
(* Finite instances of GatewayHub for TLC. *)
EXTENDS GatewayHub, TLC

CONSTANTS phone, laptop, other, ann, bob, acme, umbra

(* Two devices of one user, and a user of another tenant. *)
Devices == (phone :> ann) @@ (laptop :> ann) @@ (other :> bob)
TwoTenants == (ann :> acme) @@ (bob :> umbra)

Symmetry == Permutations(Conns)
=============================================================================
