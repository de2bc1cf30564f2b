CONSTANTS
  kh = kh
  kg = kg
  kd = kd
  Key <- Keys
  Host = kh
  Visit = {v1}
  This = v1
  None = None
  House = {hh, hg}
  HostHouse = hh
  Person = {kg}
  DeviceSets <- GuestOnly
  BodyTypes = {"join", "leave", "message", "reaction", "deviceAdd", "deviceRevoke", "dropRequest"}
  Windows <- ShortWindow
  MaxEvents = 4
  MaxStray = 0
  StrayShapes <- NoShapes
  MaxTime = 1
  Redeliver = FALSE
SPECIFICATION Spec
CHECK_DEADLOCK FALSE
INVARIANT TypeOK
INVARIANT HostPrefix
INVARIANT SameLogSameMembership
INVARIANT OnlyMembersSpeak
INVARIANT DropsChangeNoVerdict
PROPERTY DropsAreOwn
