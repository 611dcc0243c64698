SPECIFICATION Spec
CONSTANTS
  p1 = p1 p2 = p2
  a = a b = b n1 = n1 n2 = n2 l1 = l1 h1 = h1 r1 = r1 k1 = k1
  q1 = q1 q2 = q2
  None = None
  Procs = {p1, p2}
  Rotation = TRUE
  MaxLogins = 2
  MaxClock = 3
  Unset = Unset
  Broken = Broken
  Stores = {a, b}
  Names = {n1, n2}
  RemoteNames = {k1}
  Locks = {l1}
  Hub3s = {h1}
  Remotes = {r1}
  Unlucky = {a}
  MaxEntries = 2
  MaxUnsaved = 0
  Callers = {q1, q2}
  MaxRetries = 2
  Margin = 3
  Life = 5
  MaxTime = 6
CHECK_DEADLOCK FALSE
SYMMETRY Symmetry
INVARIANTS
  FresherIsLater SignedLive
PROPERTIES
  NoRollback RotationsAdvance OnlyAskedIsRemoved DefaultsExist
