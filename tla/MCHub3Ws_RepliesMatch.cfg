SPECIFICATION Spec
CONSTANTS
  s1 = s1 s2 = s2 s3 = s3
  c1 = c1 c2 = c2 c3 = c3
  f1 = f1 f2 = f2 f3 = f3
  kCmd = kCmd kPing = kPing
  None = None
  Sockets = {s1, s2, s3}
  Callers = {c1}
  Frames = {f1, f2}
  Keys = {kCmd, kPing}
  KeyOf <- MCKeyOf
  KeepaliveKey = kPing
  RetryThreshold = 3
  AutoReconnect = TRUE
  MaxOrphans = 2
  MaxRefreshes = 2
CHECK_DEADLOCK FALSE
INVARIANT RepliesMatch
