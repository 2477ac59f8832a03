\* A bucket of 60 characters, of which one is to be escaped, and two proxies.
CONSTANTS
  Glyphs <- MCGlyphs
  Special <- MCSpecial
  Buckets <- LongBucket
  Names <- OneName
  MaxHops = 2
SPECIFICATION Spec
INVARIANT LegalBucketsPass
