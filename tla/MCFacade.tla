------------------------------ MODULE MCFacade ------------------------------
(* Instances of Facade for TLC. *)
EXTENDS Facade

CONSTANTS t1, t2

OneInstant == {0}

Everything == [target |-> t1, enabled |-> TRUE, wants |-> {}]
OnlyReceived == [target |-> t1, enabled |-> TRUE, wants |-> {"received"}]

NoField == [target |-> None, enabled |-> None, wants |-> None, resume |-> FALSE]
MoveTo(t) == [NoField EXCEPT !.target = t]
TurnOff == [NoField EXCEPT !.enabled = FALSE]

TwoKinds == {Everything, OnlyReceived}
OneKind == {Everything}

EveryWay == {MoveTo(t1), TurnOff, [MoveTo(t2) EXCEPT !.resume = TRUE]}
NoUpdate == {}

\* Callers and webhooks are only compared for equality.  (Charges are not
\* permuted: a sweep announces them in one fixed order.)
Symmetry == Permutations(Callers) \cup Permutations(Hooks)
=============================================================================
