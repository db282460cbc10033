\* The designer's sittings of the module.
SPECIFICATION Spec
CONSTANTS
  pkg = pkg
  seeded = seeded
  plain = plain
  sub = sub
  h1 = h1
  h2 = h2
  t1 = t1
  t2 = t2
  None = None
  NoTarget = NoTarget
  Package = {pkg}
  Product = {seeded, plain}
  SubProduct = {sub}
  Hole = {h1, h2}
  Target = {t1, t2}
  Persisted = {11, 12, 13, 14}
  MaxStep = 2
  SeedOf <- Seeds
  TemplateCanvas <- Cloned
  Diagram <- Parsed
  DiagramStep = {21, 22}
  MaxPosts = 4
  Toured <- Tour
  Budgets <- Sittings
INVARIANTS CanvasHasSource SubOfProduct
PROPERTIES ReturnsToStep CallsEnd PickKept
CHECK_DEADLOCK FALSE
