\* Two transactions; the operator's sittings of the module.
SPECIFICATION Spec
CONSTANTS
  t1 = t1
  t2 = t2
  NoInst = NoInst
  Inst = {t1, t2}
  Mine = {}
  NNodes = 2
  Gate = {2}
  Skippable = {2}
  Irreversible = {1}
  OnFailRepair = {2}
  Capturing = {2}
  MaxRuns = 1
  Budgets <- Sittings
INVARIANTS ReadsOwnWrite ReasonUsedOnce
PROPERTIES ScreenCatchesUp BulkRunEnds
CHECK_DEADLOCK FALSE
