\* Files of up to three bytes, of which there are two kinds, which others change
\* for ever, and a reader that runs.
CONSTANTS
  Bytes = {x, y}
  MaxLength = 3
  Inodes = {f1, f2}
  None = None
SPECIFICATION FairSpec
INVARIANTS TypeOK SnapshotUnlessRewritten FailsOnlyForCause
PROPERTY ReadEnds
