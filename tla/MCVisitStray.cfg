CONSTANTS
  kh = kh
  kg = kg
  kd = kd
  Key <- HostAndGuest
  Host = kh
  Visit = {v1, v2}
  This = v1
  None = None
  House = {hh, hg}
  HostHouse = hh
  Person = {kg}
  DeviceSets <- GuestOnly
  BodyTypes = {"join", "dropRequest"}
  Windows <- NoWindows
  MaxEvents = 3
  MaxStray = 1
  StrayShapes <- Shapes
  MaxTime = 0
  Redeliver = TRUE
SPECIFICATION Spec
CHECK_DEADLOCK FALSE
INVARIANT ChainLinked
INVARIANT ChainAgreement
PROPERTY AppendOnly
