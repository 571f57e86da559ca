SPECIFICATION Spec
CONSTANTS
  None = None
  DevKinds <- MCDevKinds
  Positions = {0, 1, 2}
  DetValues = {0, 3}
INVARIANT
  WidgetsShowDeviceState
CHECK_DEADLOCK FALSE
