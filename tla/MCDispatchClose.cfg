\* A second Close while the first one waits.
CONSTANTS
  Endpoints = {ep}
  Events = {e1}
  Configs = {c1}
  None = None
  FailureThreshold = 1
  MaxAccepted = 1
  MaxCallers = 1
  MaxFaults = 1
  MaxLate = 0
  MaxSynthetic = 0
SPECIFICATION Spec
INVARIANTS
  CloseWaitsForLoops
