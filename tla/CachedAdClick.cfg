SPECIFICATION Spec
CONSTANTS
  v1 = v1
  v2 = v2
  s1 = s1
  s2 = s2
  Viewers = {v1}
  Subsids <- MCSubsids
  NoData = NoData
  NoUrl = NoUrl
  TornUrl = TornUrl
  DiskFull = FALSE
  MaxLaunches = 2
  MaxClicks = 0
CHECK_DEADLOCK FALSE
INVARIANTS
  ClickOpensAdUrl
