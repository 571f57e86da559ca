SPECIFICATION Spec
CONSTANTS
  None = None
  v1 = v1
  v2 = v2
  MaxMsgs = 3
  WindowSize = 2
  DisplayInterval = 2
  MaxIterations = 6
  Starts = {1, 2}
  Stops = {2, 5}
  StepSizes = {0, 1, 2}
  Steps = 4
  DetId = "power_meter"
  Backend = "matplotlib"
  HasTqdm = TRUE
  Positions = {0, 1, 2}
  DetValues = {0, 3}
INVARIANTS
  DisplayMatchesPayload
  MonitorTypeOK
  WindowIsRecent
  SavedIsSweep
  PlotMatchesData
  ReturnedData
PROPERTIES
  StopsAfterInterrupt
CHECK_DEADLOCK FALSE
