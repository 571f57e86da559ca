SPECIFICATION Spec
CONSTANTS
  s1 = s1
  s2 = s2
  None = None
  Subs <- MCSubs
  MaxFramesChoices <- MCMaxFrames
  MaxCalls = 3
  MaxFrameNumber = 2
  QueueCap = 1
INVARIANTS
  TypeOK
  CapRespected
  InactiveOnlyWhenEnded
PROPERTIES
  NoYieldAfterClose
  CallReleasedAfterExit
  ImplementsSubscription
CHECK_DEADLOCK FALSE
