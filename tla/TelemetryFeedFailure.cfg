SPECIFICATION StatusSpec
CONSTANTS
  None = None
  MaxMsgs = 2
INVARIANT
  FailureDistinguishable
CHECK_DEADLOCK FALSE
