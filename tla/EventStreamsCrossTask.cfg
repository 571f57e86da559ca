SPECIFICATION SpecCrossTask
CONSTANTS
  p1 = p1
  d1 = d1
  None = None
  ParamSubs <- MCParamSubs
  DeviceSubs <- MCDeviceSubs
  MaxCalls = 3
  MaxEvents = 2
  QueueCap = 2
INVARIANT
  SnapshotFirst
CHECK_DEADLOCK FALSE
