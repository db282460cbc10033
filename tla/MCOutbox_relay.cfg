\* Two processes, each with a relay: safety, the contract, and the outbox drains.
SPECIFICATION FairSpec
CONSTANTS
  e1 = e1
  e2 = e2
  d1 = d1
  Event = {e1, e2}
  DirectEvent = {d1}
  Server = {s1, s2}
  Depth <- MixedDepth
  Poison = {}
  BatchLimit = 1
  NListeners = 2
  MaxFailures = 1
  MaxCrashes = 1
PROPERTIES ContractSpec EventuallyPublished
CHECK_DEADLOCK FALSE
