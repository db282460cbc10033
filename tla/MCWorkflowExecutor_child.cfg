\* A sub-workflow after an approval gate.
SPECIFICATION Spec
CONSTANTS
  a = a
  b = b
  c = c
  d = d
  Node = {a, b, c, d}
  First = a
  Last = d
  Following <- InOrder
  Graphs <- OnlyChain
  Guarded <- LoopExit
  RuleEdge = {}
  Gate = {b}
  NeedsDocs = {}
  Skippable = {}
  Ruled = {}
  Emits = {}
  MayFail = {}
  Sub = {c}
  Isolated = {}
  Unhandled = {}
  ChildNode = child
  MaxRuns = 2
  MaxCrashes = 0
INVARIANTS CompletedRowIsOwn
CHECK_DEADLOCK FALSE
