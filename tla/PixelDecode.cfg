SPECIFICATION Spec
CONSTANTS
  None = None
  MaxDim = 2
  MaxLen = 16
INVARIANT
  DecodeMatchesSpec
CHECK_DEADLOCK FALSE
