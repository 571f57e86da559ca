SPECIFICATION Spec
CONSTANTS
  p1 = p1
  d1 = d1
  None = None
  ParamSubs <- MCParamSubs
  DeviceSubs <- MCDeviceSubs
  MaxCalls = 3
  MaxEvents = 2
  QueueCap = 2
INVARIANTS
  TypeOK
  SnapshotFirst
PROPERTIES
  ImplementsSubscription
CHECK_DEADLOCK FALSE
