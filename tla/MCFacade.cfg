\* Two requests, two webhooks that want all events or one, chaos: an event
\* reaches one queue before the other.
CONSTANTS
  Callers = {c1,c2}
  ChargeIds = {ch}
  Times <- OneInstant
  Hooks = {h1,h2}
  t1 = t1
  t2 = t2
  Targets = {t1, t2}
  Entries <- TwoKinds
  Updates <- NoUpdate
  None = None
  FailureThreshold = 1
  Persist = FALSE
  MaxReplays = 1
  MaxRestarts = 0
SPECIFICATION Spec
SYMMETRY Symmetry
INVARIANTS
  TypeOK
  EventsTellTheirTransition
  WantedEventsArrive
  ReplaysAreReplays
  OutOfOrderReverses
