\* Two reversals of one completed transaction.
SPECIFICATION Spec
CONSTANTS
  o1 = o1
  o2 = o2
  Operator = {o1, o2}
  NNodes = 2
  Edges <- OneEdge
  Skippable = {1, 2}
  Irreversible = {1}
  MaxRows = 1
  MaxRequests = 2
  MaxCrashes = 0
PROPERTY NeverDoubleReversed
CHECK_DEADLOCK FALSE
