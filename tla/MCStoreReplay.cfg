CONSTANTS
  kh = kh
  kg = kg
  Key <- HostAndGuest
  Host = kh
  Visit = {v1}
  This = v1
  None = None
  Person <- HostAndGuest
  BodyTypes = {"join", "leave", "message", "dropRequest"}
  Redelivered = {"message", "dropRequest"}
  NumTables = 2
  MaxEvents = 3
  MaxMinted = 4
SPECIFICATION Spec
CHECK_DEADLOCK FALSE
INVARIANT ReplaySucceeds
