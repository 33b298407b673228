-------------------------------- MODULE MCBlobs --------------------------------
(* Finite instances of Blobs for TLC.                                        *)
EXTENDS Blobs
=============================================================================
