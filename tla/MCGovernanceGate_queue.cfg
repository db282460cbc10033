\* Three requests on two tasks and a record, each of which may fail.
SPECIFICATION Spec
CONSTANTS
  r1 = r1
  r2 = r2
  r3 = r3
  t1 = t1
  t2 = t2
  Request = {r1, r2, r3}
  Task = {t1, t2}
  Record = {rec}
  Nobody = nobody
SYMMETRY Alike
INVARIANTS ApprovedIsSigned OnlyRivalsOverturn LoneDecisionIsTold BulkIsAudited NoUpdateLost SavedOrQueued
CHECK_DEADLOCK FALSE
