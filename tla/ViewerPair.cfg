SPECIFICATION Spec
CONSTANTS
  v1 = v1
  v2 = v2
  s1 = s1
  s2 = s2
  Viewers <- MCViewers
  Subsids <- MCSubsids
  NoData = NoData
  NoUrl = NoUrl
  TornUrl = TornUrl
  DiskFull = TRUE
  MaxLaunches = 3
  MaxClicks = 0
SYMMETRY Symmetry
CHECK_DEADLOCK FALSE
INVARIANTS
  EntriesWhole
  DownloadedAdOpens
PROPERTIES
  TableNeverShrinks
