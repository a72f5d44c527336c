\* A new process on an old file mints ids the file already holds.
CONSTANTS
  Callers = {c1}
  None = None
  Times <- TwoInstants
  Durations <- OneStep
  Persist = TRUE
  MaxId = 2
  MaxFailures = 0
  MaxRestarts = 1
SPECIFICATION Spec
INVARIANTS
  FreshIds
