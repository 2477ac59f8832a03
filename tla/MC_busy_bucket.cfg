\* One client asks after a bucket that exists, and the store answers 409.
CONSTANTS
  c1 = c1  c2 = c2  b1 = b1  b2 = b2  o1 = o1  d1 = d1  d2 = d2
  NameLength <- MCNameLength
  SecretOf <- MCSecretOf
  DataSize <- MCDataSize
  SecondsPerDay = 2
  MinMultipartSize = 5
  ContentTypes <- DefaultType
  Clients = {c1}
  Configs <- PlainConfig
  Buckets = {b1}
  Objects = {o1}
  Data = {d1}
  RegionArgs = {""}
  Faults <- ConflictFault
  Deletable = {b1}
  InitialLocations <- InUsEast
  MaxCalls = 1
  MaxTime = 0
SPECIFICATION Spec
INVARIANT BucketReportsAreTrue
