\* Chaos requests that overlap each other and the rest, on a healthy receiver:
\* failures only make an interruption easier.  Under fairness.
CONSTANTS
  Endpoints = {ep}
  Events = {e1}
  Configs = {cfg}
  None = None
  Callers = {c1, c2}
  FailureThreshold = 2
  DefaultFailureThreshold = 2
  MaxScenarios = 2
  MaxAccepted = 3
  MaxSynthetic = 4
  MaxCallers = 1
  MaxFaults = 0
  MaxLate = 1
SPECIFICATION FairChaosSpec
INVARIANTS
  LoneStormEnds
  InterruptionIsOwed
PROPERTIES
  LoopsWindDown
  InterruptInterrupts
  EventsSettle
