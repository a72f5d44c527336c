\* A clock that leaves the years of four digits and comes back, with rows
\* written on both sides, on both machines.
CONSTANTS
  Precision = 8
  CustomerIds = {cus}
  ChargeIds = {pay}
  SubscriptionIds = {sub}
  Times <- Reached
  Starts <- Today
  Dues <- DueDates
  Days <- Asked
  Amounts <- Carried
  MaxDuration <- Longest
  MaxAmount <- Largest
  MaxRestarts = 1
SPECIFICATION Spec
INVARIANTS
  TypeOK
  SweepMissesNone
  StateAnswersInTime
  AmountsSurvive
PROPERTIES
  UnreadableStaysAsItIs
  UnreadableHoldsClock
