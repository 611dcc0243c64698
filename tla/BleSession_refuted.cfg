SPECIFICATION Spec
CONSTANTS
  None = None
  Calls = {c1, c2}
  Requests = {r1}
  Items = {i1}
  MaxConns = 2
CHECK_DEADLOCK FALSE
INVARIANTS
  AwaitedIsWaiter
  KeyFitsConnection
  NoOrphanRejected
