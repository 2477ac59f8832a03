\* One client without a region asks for one.
CONSTANTS
  c1 = c1  c2 = c2  b1 = b1  b2 = b2  o1 = o1  d1 = d1  d2 = d2
  NameLength <- MCNameLength
  SecretOf <- MCSecretOf
  DataSize <- MCDataSize
  SecondsPerDay = 2
  MinMultipartSize = 5
  ContentTypes <- DefaultType
  Clients = {c1}
  Configs <- PlainConfig
  Buckets = {b1}
  Objects = {o1}
  Data = {d1}
  RegionArgs = {"", "us-east-1"}
  Faults <- NoFaults
  Deletable = {b1}
  InitialLocations = {}
  MaxCalls = 1
  MaxTime = 0
SPECIFICATION Spec
INVARIANT ConflictOnlyWithConstructor
