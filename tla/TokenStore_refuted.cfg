SPECIFICATION TokenSpec
CONSTANTS
  None = None
  Procs = {p1, p2}
  Rotation = FALSE
  MaxLogins = 2
  MaxClock = 3
CHECK_DEADLOCK FALSE
INVARIANT DeviceMatchesToken
PROPERTY HonouredTokensKept
