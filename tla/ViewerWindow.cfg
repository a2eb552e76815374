SPECIFICATION Spec
CONSTANTS
  m0 = m0
  m3 = m3
  m2 = m2
  NoModel = NoModel
  Models <- MCModels
  Parts <- MCParts
  SizeT = 256
  MaxLoads = 4
INVARIANTS
  CurrentPartShown
  DrawingsBacked
  PrevTakesBackNext
PROPERTIES
  LostOnLoad
