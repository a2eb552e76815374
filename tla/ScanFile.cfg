SPECIFICATION FairSpec
CONSTANTS
  a = a
  b = b
  t1 = t1
  t2 = t2
  d1 = d1
  d2 = d2
  d3 = d3
  Models <- MCModels
  NoModel = NoModel
  HeaderSize = 2
  DiskFull = TRUE
  MaxSubsets = 4
PROPERTIES
  ImplementsModelFile
  LoadEnds
