\* Callers that race for the lock, one process after the other on the same
\* file, stopped at any statement; statements that fail.
CONSTANTS
  Callers = {c1, c2}
  None = None
  Times <- TwoInstants
  Durations <- OneStep
  Persist = TRUE
  MaxId = 2
  MaxFailures = 1
  MaxRestarts = 1
SPECIFICATION Spec
SYMMETRY CallerSymmetry
INVARIANTS
  TypeOK
  LegalTrails
  ReportMatchesDatabase
  NoConnectionLeak
  FreshUntilReopened
  NoDueChargeLeftBehind
PROPERTIES
  RefinesLedger
