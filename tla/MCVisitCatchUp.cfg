CONSTANTS
  kh = kh
  kg = kg
  kd = kd
  Key <- Keys
  Host = kh
  Visit = {v1}
  This = v1
  None = None
  House = {hh, hg}
  HostHouse = hh
  Person = {kg}
  DeviceSets <- GuestDevices
  BodyTypes = {"join", "leave", "attachment", "unknown", "dropRequest"}
  Windows <- NoWindows
  MaxEvents = 4
  MaxStray = 0
  StrayShapes <- NoShapes
  MaxTime = 0
  Redeliver = FALSE
SPECIFICATION FairSpec
CHECK_DEADLOCK FALSE
PROPERTY CatchUp
