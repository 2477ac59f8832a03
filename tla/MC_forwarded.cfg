\* One proxy.
CONSTANTS
  Glyphs <- MCGlyphs
  Special <- MCSpecial
  Buckets <- PlainBucket
  Names <- SmallNames
  MaxHops = 1
SPECIFICATION Spec
INVARIANT ForwardedUnderItsName
