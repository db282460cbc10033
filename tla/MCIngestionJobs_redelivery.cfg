\* As the other, with the smallest file.
SPECIFICATION Spec
CONSTANTS
  j1 = j1
  w1 = w1
  w2 = w2
  c1 = c1
  c2 = c2
  a1 = a1
  a2 = a2
  f1 = f1
  None = None
  Job = {j1}
  Convergence = {}
  Worker = {w1, w2}
  Clerk = {c1, c2}
  Archiver = {a1, a2}
  Flagger = {f1}
  MaxFiles = 2
  MaxUnits = 1
  MaxLosses = 1
PROPERTIES RedeliveryResumes
CHECK_DEADLOCK FALSE
