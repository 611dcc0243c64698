SPECIFICATION Spec
CONSTANTS
  None = None
  Calls = {c1, c2, c3}
  MaxLinks = 3
CHECK_DEADLOCK FALSE
INVARIANTS CipherFits EachKeyAgrees
