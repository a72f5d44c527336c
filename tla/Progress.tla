------------------------------ MODULE Progress ------------------------------
(***************************************************************************)
(* What is left to do, measured by a tuple of numbers, the ones that weigh *)
(* more first: a step brings the end nearer when it lowers one of them and *)
(* leaves those before it alone.                                           *)
(***************************************************************************)
EXTENDS Naturals, Sequences

Nearer(new, old) ==
  \E i \in DOMAIN old : /\ new[i] < old[i]
                        /\ \A j \in 1..(i - 1) : new[j] = old[j]

\* Numbers that can be lowered so often and no more.
Measures(n) == [1..n -> Nat]
=============================================================================
