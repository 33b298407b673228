---------------------------- MODULE MCStreamSync ----------------------------
(* Finite instances of StreamSync for TLC. *)
EXTENDS StreamSync
=============================================================================
