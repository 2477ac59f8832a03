\* One client, constructed in every way, with every argument, against a store
\* that fails requests, while the clock ticks.
CONSTANTS
  c1 = c1  c2 = c2  b1 = b1  b2 = b2  o1 = o1  d1 = d1  d2 = d2
  NameLength <- MCNameLength
  SecretOf <- MCSecretOf
  DataSize <- MCDataSize
  SecondsPerDay = 2
  MinMultipartSize = 4
  ContentTypes <- SomeTypes
  Clients = {c1}
  Configs <- EveryConfig
  Buckets <- EveryBucket
  Objects = {o1}
  Data = {d1, d2}
  RegionArgs = {"", "us-east-1", "eu"}
  Faults <- TransientFaults
  Deletable = {b1}
  InitialLocations = {"eu"}
  MaxCalls = 2
  MaxTime = 1
SPECIFICATION Spec
INVARIANTS TypeOK BucketReportsAreTrue AuthenticUnlessClockMoved OneHomeRegion
