----------------------------- MODULE MCDispatch -----------------------------
(* Instances of Dispatch for TLC; the configurations give the constants. *)
EXTENDS Dispatch
=============================================================================
