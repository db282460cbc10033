\* Two workers, three calls, a threshold of two, one call cut short.
SPECIFICATION DispatcherSpec
CONSTANTS
  w1 = w1
  w2 = w2
  Worker = {w1, w2}
  Threshold = 2
  Rate = 2
  MaxTime = 3
  MaxCalls = 3
  MaxLosses = 1
SYMMETRY Workers
INVARIANTS FailuresAreActedOn LateAttemptsAreFew QuotaInOrder
CHECK_DEADLOCK FALSE
