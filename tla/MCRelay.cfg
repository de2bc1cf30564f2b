SPECIFICATION MCSpec
CHECK_DEADLOCK FALSE
CONSTANTS
  Driver = {"d1", "d2"}
  Depth = 3
  Burst = 2
  MaxSegments = 2
  MaxData = 5
  Registration = {"r1", "r2"}
  First = "r1"
  GateDepth = 2
  GateData = 3
INVARIANT NoStall
PROPERTIES RelaysKeepOrder ParkedResumes GateDrains
