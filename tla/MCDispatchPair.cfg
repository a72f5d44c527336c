\* Two endpoints that share the dispatcher's lock, wait group and context:
\* registering, reconfiguring, failing and closing in every order, with requests
\* that come late, under fairness.
CONSTANTS
  Endpoints = {ep1, ep2}
  Events = {e1}
  Configs = {c1}
  None = None
  FailureThreshold = 2
  MaxAccepted = 1
  MaxCallers = 1
  MaxFaults = 1
  MaxLate = 1
  MaxSynthetic = 0
SPECIFICATION FairSpec
INVARIANTS
  WaitGroupCountsLoops
PROPERTIES
  CloseTerminates
