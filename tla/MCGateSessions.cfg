CONSTANTS
  a = a
  b = b
  a1 = a1
  a2 = a2
  b1 = b1
  Key = {a, b}
  Conn = {a1, a2, b1}
  KeyOf <- Owner
  Sweeper = Sweeper
  None = None
  Capacity = 2
  MaxPerKey = 2
  MaxPending = 1
  MaxHeld = 1
  MaxSession = 2
SPECIFICATION Spec
CHECK_DEADLOCK FALSE
INVARIANT TableConsistent
PROPERTY TargetAgreed
SYMMETRY Symmetry
