SPECIFICATION FairSpec
CONSTANTS
  v1 = v1
  v2 = v2
  s1 = s1
  s2 = s2
  Viewers = {v1}
  Subsids <- MCSubsids
  NoData = NoData
  NoUrl = NoUrl
  TornUrl = TornUrl
  DiskFull = FALSE
  MaxLaunches = 4
  MaxClicks = 1
CHECK_DEADLOCK FALSE
INVARIANTS
  TypeOK
  OneEntryEach
  CopyIsTable
PROPERTIES
  EntriesKept
  DownloadEnds
