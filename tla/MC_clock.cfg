\* One client while the clock ticks: good credentials are not enough.
CONSTANTS
  c1 = c1  c2 = c2  b1 = b1  b2 = b2  o1 = o1  d1 = d1  d2 = d2
  NameLength <- MCNameLength
  SecretOf <- MCSecretOf
  DataSize <- MCDataSize
  SecondsPerDay = 2
  MinMultipartSize = 5
  ContentTypes <- DefaultType
  Clients = {c1}
  Configs <- PlainConfig
  Buckets = {b1}
  Objects = {o1}
  Data = {d1}
  RegionArgs = {""}
  Faults <- NoFaults
  Deletable = {b1}
  InitialLocations = {}
  MaxCalls = 1
  MaxTime = 1
SPECIFICATION Spec
INVARIANT GoodCredentialsSuffice
