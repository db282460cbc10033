\* A fork, loops, a gate that waits for documents too, rules, sub-workflows,
\* crashes, three runs.
SPECIFICATION FairSpec
CONSTANTS
  a = a
  b = b
  c = c
  d = d
  Node = {a, b, c, d}
  First = a
  Last = d
  Following <- InOrder
  Graphs <- Shapes
  Guarded <- LoopExit
  RuleEdge = {}
  Gate = {b}
  NeedsDocs = {b}
  Skippable = {b}
  Ruled = {d}
  Emits = {a}
  MayFail = {a}
  Sub = {c}
  Isolated = {}
  Unhandled = {a}
  ChildNode = child
  MaxRuns = 3
  MaxCrashes = 1
INVARIANTS GateOpensOnRequest CompletionAnnounced ResumedRowCloses AcyclicRunsFinish
PROPERTY RunsEnd
CHECK_DEADLOCK FALSE
