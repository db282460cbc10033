\* The second transaction is the user's own; one bulk run.
SPECIFICATION Spec
CONSTANTS
  t1 = t1
  t2 = t2
  NoInst = NoInst
  Inst = {t1, t2}
  Mine = {t2}
  NNodes = 2
  Gate = {2}
  Skippable = {2}
  Irreversible = {1}
  OnFailRepair = {2}
  Capturing = {2}
  MaxRuns = 1
  Budgets <- BulkSitting
INVARIANTS MakerNeverApproves
CHECK_DEADLOCK FALSE
