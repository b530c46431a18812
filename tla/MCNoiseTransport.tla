---------------------------- MODULE MCNoiseTransport ----------------------------
(* A small instance of NoiseTransport. *)
EXTENDS NoiseTransport
=============================================================================
