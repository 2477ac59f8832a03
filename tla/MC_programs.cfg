\* Two programs that run, of which some lack a key or have a wrong one, against
\* a store that fails, while others delete the bucket.
CONSTANTS
  c1 = c1  c2 = c2    b1 = b1  o1 = o1  d1 = d1
  NameLength <- MCNameLength
  SecretOf <- MCSecretOf
  DataSize <- MCDataSize
  SecondsPerDay = 2
  MinMultipartSize = 5
  ContentTypes <- DefaultType
  Clients = {c1, c2}
  Configs <- Arguments
  Buckets = {b1}
  Objects = {o1}
  Data = {d1}
  RegionArgs = {""}
  Faults <- GatewayFaults
  Deletable = {b1}
  InitialLocations <- InUsEast
  MaxCalls = 3
  MaxTime = 0
  Bucket = b1
  Object = o1
  File = d1
SPECIFICATION MainFairSpec
INVARIANTS MainTypeOK SuccessMeansStored TraceTellsOutcomes FailsOnlyWhenOvertaken
PROPERTIES SomeoneUploads CallsEnd
