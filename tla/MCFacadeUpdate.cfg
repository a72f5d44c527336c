\* Updates of one webhook race each other, its creation, the handlers that
\* read the registry, and a restart, under fairness.
CONSTANTS
  Callers = {c1,c2}
  ChargeIds = {ch}
  Times <- OneInstant
  Hooks = {h1}
  t1 = t1
  t2 = t2
  Targets = {t1, t2}
  Entries <- OneKind
  Updates <- EveryWay
  None = None
  FailureThreshold = 1
  Persist = TRUE
  MaxReplays = 0
  MaxRestarts = 1
SPECIFICATION FairSpec
INVARIANTS
  StoresAgree
  WantedEventsArrive
PROPERTIES
  HandlersWindDown
  HandlersReturn
