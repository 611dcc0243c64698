SPECIFICATION LockedSpec
CONSTANTS
  p1 = p1 p2 = p2 p3 = p3
  i1 = i1 i2 = i2 i3 = i3 i4 = i4
  None = None
  Unread = Unread
  Procs = {p1, p2}
  Rotation = TRUE
  MaxLogins = 1
  MaxClock = 2
  Inodes = {i1, i2}
  Crashed = {}
  MayCrash = TRUE
  MaxFailures = 1
  MayStall = FALSE
  ReuseInodes = FALSE
CHECK_DEADLOCK FALSE
SYMMETRY Symmetry
PROPERTIES
  TokenSpec
