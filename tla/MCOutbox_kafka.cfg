\* A row marked PUBLISHED whose message Kafka never gets.
SPECIFICATION Spec
CONSTANTS
  e1 = e1
  e2 = e2
  d1 = d1
  Event = {e1, e2}
  DirectEvent = {d1}
  Server = {s1}
  Depth <- MixedDepth
  Poison = {}
  BatchLimit = 1
  NListeners = 2
  MaxFailures = 1
  MaxCrashes = 1
CHECK_DEADLOCK FALSE
INVARIANT PublishedReachesKafka
