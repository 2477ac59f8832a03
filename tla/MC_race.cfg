\* Two clients, two calls each, race on one bucket, with two files for one
\* object, while others delete the bucket; the clock stands still.
CONSTANTS
  c1 = c1  c2 = c2  b1 = b1  b2 = b2  o1 = o1  d1 = d1  d2 = d2
  NameLength <- MCNameLength
  SecretOf <- MCSecretOf
  DataSize <- MCDataSize
  SecondsPerDay = 2
  MinMultipartSize = 5
  ContentTypes <- DefaultType
  Clients = {c1, c2}
  Configs <- PlainConfig
  Buckets = {b1}
  Objects = {o1}
  Data = {d1, d2}
  RegionArgs = {""}
  Faults <- NoFaults
  Deletable = {b1}
  InitialLocations <- InUsEast
  MaxCalls = 2
  MaxTime = 0
SYMMETRY Symmetry
SPECIFICATION Spec
INVARIANTS CarriedOutOnce LastUploadWins
PROPERTY KeepsPromise
