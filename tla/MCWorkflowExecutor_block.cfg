\* A node whose rule blocks the payment and whose ledger check fails.
SPECIFICATION Spec
CONSTANTS
  a = a
  b = b
  c = c
  d = d
  Node = {a, b, c, d}
  First = a
  Last = d
  Following <- InOrder
  Graphs <- OnlyChain
  Guarded <- LoopExit
  RuleEdge = {}
  Gate = {}
  NeedsDocs = {}
  Skippable = {}
  Ruled = {b}
  Emits = {}
  MayFail = {b}
  Sub = {}
  Isolated = {}
  Unhandled = {}
  ChildNode = child
  MaxRuns = 1
  MaxCrashes = 0
INVARIANTS BlockIsObeyed
CHECK_DEADLOCK FALSE
