\* One endpoint, deep: two events, enough failures to interrupt the queue
\* twice, requests taken up late, a caller and a client of the state endpoint
\* racing the loop.
CONSTANTS
  Endpoints = {ep}
  Events = {e1, e2}
  Configs = {c1}
  None = None
  FailureThreshold = 2
  MaxAccepted = 2
  MaxCallers = 1
  MaxFaults = 2
  MaxLate = 2
  MaxSynthetic = 1
SPECIFICATION AdminSpec
SYMMETRY Symmetry
INVARIANTS
  TypeOK
  ResponseAccountsForEvents
  ResponseExplainsFailures
  QueueConservation
  AttemptStaysValid
  InterruptedIffThreshold
  StreakMatchesLog
  LogShowsDeliveries
  ReceiverSeesQueueOrder
  NoLostWakeup
PROPERTIES
  RefinesDeliveryQueue
