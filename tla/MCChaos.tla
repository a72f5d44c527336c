------------------------------ MODULE MCChaos ------------------------------
(* Instances of Chaos for TLC; the configurations give the constants. *)
EXTENDS Chaos
=============================================================================
