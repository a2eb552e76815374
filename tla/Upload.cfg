SPECIFICATION FairSpec
CONSTANTS
  ali = ali
  d1 = d1
  k1 = k1
  k2 = k2
  Owners = {ali}
  Data = {d1}
  Hashes = {k1, k2}
  NoData = NoData
  NoKey = NoKey
  TypedIds = {1}
  MaxCalls = 2
  MaxItems = 2
INVARIANTS
  TypeOK
  BoxesTrue
  KeyShownIsLast
PROPERTIES
  CallsEnd
