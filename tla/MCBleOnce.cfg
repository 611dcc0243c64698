SPECIFICATION OnceSpec
CONSTANTS
  c1 = c1 c2 = c2
  r1 = r1 r2 = r2 r3 = r3
  i1 = i1 i2 = i2
  None = None
  Calls = {c1}
  Requests = {r1, r2, r3}
  Items = {i1, i2}
  MaxConns = 1
  MaxFrames = 4
  MaxLength = 3
CHECK_DEADLOCK FALSE
INVARIANTS
  AwaitedIsWaiter WholeIsRead
PROPERTIES
  CallsSettle RequestsSettle
