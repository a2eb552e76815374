SPECIFICATION Spec
CONSTANTS
  h1 = h1
  h2 = h2
  ali = ali
  sara = sara
  guest = guest
  d1 = d1
  d2 = d2
  k1 = k1
  k2 = k2
  k3 = k3
  Handlers <- MCHandlers
  Users = {ali}
  Owners = {ali}
  Data = {d1}
  Hashes = {k1, k2, k3}
  Rng <- MCRng
  Ticks = {1}
  RandNext <- MCRandNext
  RandHash <- MCRandHash
  NoRng = NoRng
  NoKey = NoKey
  Ops = {"upload_model", "upload_ad", "create_subs", "get"}
  ModelIds = {1}
  AdIds <- MCAdIds
  NChunks = 2
  DiskFull = FALSE
  MaxConns = 2
  MaxFiles = 2
  MaxSubs = 1
  MaxCrashes = 0
SYMMETRY Symmetry
INVARIANTS
  FetchedModelIsWhole
