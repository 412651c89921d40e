CONSTANTS
  MfaRequests = {r1, r2}
  MaxSecrets = 2
  MaxBatches = 2
  MaxClock = 3
SPECIFICATION MfaSpec
SYMMETRY Symmetric
INVARIANTS EnrolmentSound FactorLogsInOnce
CHECK_DEADLOCK FALSE
