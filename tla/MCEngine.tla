------------------------------ MODULE MCEngine ------------------------------
(* Instances of Engine for TLC. *)
EXTENDS Engine, TLC

\* The clock moves forward and backward (clock.go:31).
TwoInstants == 0..1
OneStep == {-1, 1}

\* Callers are only compared for equality; used where no liveness is checked.
CallerSymmetry == Permutations(Callers)
=============================================================================
