SPECIFICATION FairSpec
CONSTANTS
  h1 = h1
  h2 = h2
  ali = ali
  sara = sara
  guest = guest
  d1 = d1
  d2 = d2
  k1 = k1
  k2 = k2
  k3 = k3
  Handlers <- MCHandlers
  Users = {ali}
  Owners = {ali}
  Data = {d1}
  Hashes = {k1, k2, k3}
  Rng <- MCRng
  Ticks = {1, 3}
  RandNext <- MCRandNext
  RandHash <- MCRandHash
  NoRng = NoRng
  NoKey = NoKey
  Ops = {"upload_model", "upload_ad", "create_subs"}
  ModelIds = {1}
  AdIds <- MCAdIds
  NChunks = 2
  DiskFull = TRUE
  MaxConns = 2
  MaxFiles = 2
  MaxSubs = 2
  MaxCrashes = 0
PROPERTIES
  RequestsAnswered
  ShutdownReturns
INVARIANTS KeysDistinct SubsAnswersTrue RowsResolve
