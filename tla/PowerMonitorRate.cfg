SPECIFICATION Spec
CONSTANTS
  q1 = q1
  q2 = q2
  Powers <- MCPowers
  WindowSize = 2
  DisplayInterval = 2
  MaxIterations = 6
INVARIANT
  SampledAtRate
CHECK_DEADLOCK FALSE
