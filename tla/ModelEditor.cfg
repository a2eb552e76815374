SPECIFICATION Spec
CONSTANTS
  a = a
  b = b
  t = t
  p1 = p1
  p2 = p2
  Imports <- MCImports
  NoModel = NoModel
  Paths = {p1, p2}
  NoPath = NoPath
  DiskFull = TRUE
  MaxModels = 3
INVARIANTS
  CrashesExplained
  NameIsChosen
  ShownUnlessEdited
PROPERTY LostByOpen
