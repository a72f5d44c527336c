---------------------------- MODULE MCAdminState ----------------------------
(* Instances of AdminState, and so of Dispatch, for TLC. *)
EXTENDS AdminState, TLC

\* Events and configurations are only ever compared for equality and no
\* property singles one out, so they may be permuted.
Symmetry == Permutations(Events) \cup Permutations(Configs)
=============================================================================
