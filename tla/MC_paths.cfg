\* Every name of up to four texts, in buckets of which some are too long for
\* the first or the second proxy, sent directly or through up to three proxies.
CONSTANTS
  Glyphs <- MCGlyphs
  Special <- MCSpecial
  Buckets <- Lengths
  Names <- ShortNames
  MaxHops = 3
SPECIFICATION Spec
INVARIANTS StoredUnderItsName RefusedByRule
