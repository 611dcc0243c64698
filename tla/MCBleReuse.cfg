SPECIFICATION ReuseSpec
CONSTANTS
  c1 = c1 c2 = c2 c3 = c3
  r1 = r1 r2 = r2 r3 = r3
  i1 = i1 i2 = i2
  None = None
  Calls = {c1, c2}
  Requests = {r1, r2}
  Items = {i1, i2}
  MaxConns = 2
  Os2Calls = {c1, c2, c3}
  Os2Links = 3
CHECK_DEADLOCK FALSE
SYMMETRY Symmetry
INVARIANTS
  FailFast OwnResponse OwnerKeyAgrees
