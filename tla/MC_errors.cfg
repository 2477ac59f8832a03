\* Every body of at most five tokens.  It stops when it is that long.
CONSTANTS
  Text = {"NoSuchBucket", "text"}
  MaxTokens = 5
SPECIFICATION Spec
CHECK_DEADLOCK FALSE
INVARIANT ExtractsFirstElement
PROPERTY CodeIsFinal
