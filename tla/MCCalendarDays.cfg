\* More days than a time.Duration holds.
CONSTANTS
  Precision = 8
  CustomerIds = {cus}
  ChargeIds = {pay}
  SubscriptionIds = {sub}
  Times <- Reached
  Starts <- Today
  Dues <- DueDates
  Days <- Asked
  Amounts <- Carried
  MaxDuration <- Longest
  MaxAmount <- Largest
  MaxRestarts = 1
SPECIFICATION Spec
PROPERTIES
  AdvanceMovesForward
