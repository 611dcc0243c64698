SPECIFICATION Spec
CONSTANTS
  p1 = p1 p2 = p2 p3 = p3 p4 = p4
  i1 = i1 i2 = i2 i3 = i3 i4 = i4
  None = None
  Procs = {p1, p2, p3, p4}
  Crashed = {p4}
  Inodes = {i1, i2, i3, i4}
  MayCrash = FALSE
  MaxFailures = 0
  MayStall = FALSE
  ReuseInodes = FALSE
CHECK_DEADLOCK FALSE
SYMMETRY Symmetry
INVARIANT MutualExclusion
