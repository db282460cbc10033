\* Two workers, one of them slow to charge the time it has read.
SPECIFICATION DispatcherSpec
CONSTANTS
  w1 = w1
  w2 = w2
  Worker = {w1, w2}
  Threshold = 2
  Rate = 2
  MaxTime = 1
  MaxCalls = 4
  MaxLosses = 0
INVARIANT QuotaIsKept
CHECK_DEADLOCK FALSE
