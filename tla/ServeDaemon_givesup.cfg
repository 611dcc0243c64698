SPECIFICATION Spec
CONSTANTS
  None = None
  Links = {l1, l2}
  Clients = {c1, c2}
CHECK_DEADLOCK FALSE
INVARIANT NeverGivesUp
