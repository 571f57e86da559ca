SPECIFICATION Spec
CONSTANTS
  r1 = r1
  r2 = r2
  Readings <- MCReadings
  Steps = 4
  DetId = "position"
  Backend = "matplotlib"
  HasTqdm = TRUE
INVARIANT
  ReturnedData
CHECK_DEADLOCK FALSE
