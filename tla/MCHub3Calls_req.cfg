SPECIFICATION CallsSpec
CONSTANTS
  s1 = s1 s2 = s2
  c1 = c1
  f1 = f1 f2 = f2 f3 = f3
  kCmd = kCmd kPing = kPing
  None = None
  Sockets = {s1, s2}
  Callers = {c1}
  Frames = {f1, f2, f3}
  Keys = {kCmd, kPing}
  KeyOf <- MCKeyOf
  KeepaliveKey = kPing
  RetryThreshold = 3
  AutoReconnect = TRUE
  MaxOrphans = 0
  MaxRefreshes = 1
  a1 = a1 a2 = a2 b1 = b1
  Learners = {a1, a2}
  Listeners = {b1}
  t1 = t1 t2 = t2 t3 = t3 d1 = d1 d2 = d2
  Triggers = {t1, t2, t3}
  Targets = {d1, d2}
CHECK_DEADLOCK FALSE
SYMMETRY Symmetry
INVARIANTS
  WaitingIffPending ModeRestored
PROPERTIES
  CrossedOnlyByLeftovers AckIsOwn
