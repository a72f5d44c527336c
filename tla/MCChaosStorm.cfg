\* Two storms, each below the threshold, on a healthy receiver.
CONSTANTS
  Endpoints = {ep}
  Events = {e1}
  Configs = {cfg}
  None = None
  Callers = {c1,c2}
  FailureThreshold = 2
  DefaultFailureThreshold = 2
  MaxScenarios = 2
  MaxAccepted = 3
  MaxSynthetic = 4
  MaxCallers = 2
  MaxFaults = 0
  MaxLate = 0
SPECIFICATION ChaosSpec
INVARIANTS
  StormNeverInterrupts
