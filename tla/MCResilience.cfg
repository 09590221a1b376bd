CONSTANTS
  Caller = {c1, c2, c3}
  Rps = 1
  MaxRetries = 3
  InitialBackoff = 2
  MaxBackoff = 3
  Threshold = 2
SPECIFICATION FairSpec
INVARIANTS TypeOK ClosedBelowThreshold OpensInTime FailuresBounded ErrAfterAllAttempts
PROPERTIES TripsOnStreak RunReturns
CHECK_DEADLOCK FALSE
