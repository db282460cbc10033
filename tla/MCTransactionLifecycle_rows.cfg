\* Two threads, up to two rows, three requests, one crash.
SPECIFICATION Spec
CONSTANTS
  o1 = o1
  o2 = o2
  Operator = {o1, o2}
  NNodes = 2
  Edges <- OneEdge
  Skippable = {1, 2}
  Irreversible = {1}
  MaxRows = 2
  MaxRequests = 3
  MaxCrashes = 1
SYMMETRY Threads
INVARIANTS KeyMeansReversed AuditIsKept
PROPERTIES TerminalIsFinal ReversedOnce
CHECK_DEADLOCK FALSE
