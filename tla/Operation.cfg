SPECIFICATION ProcessSpec
CONSTANTS
  Restarts = {r1, r2}
  Uniques = {k1, k2}
  Signals = 1
  Failures = 2
  Starts = 2
  None = none
INVARIANTS
  RepliesAreGivenOnce
PROPERTIES
  RequestsAreHeeded
CHECK_DEADLOCK FALSE
