\* Two transitions of one charge, announced in one order and recorded in the other.
CONSTANTS
  Callers = {c1,c2}
  ChargeIds = {ch}
  Times <- OneInstant
  Hooks = {h1}
  t1 = t1
  t2 = t2
  Targets = {t1, t2}
  Entries <- OneKind
  Updates <- NoUpdate
  None = None
  FailureThreshold = 1
  Persist = FALSE
  MaxReplays = 0
  MaxRestarts = 0
SPECIFICATION Spec
INVARIANTS
  LastEventIsLatest
