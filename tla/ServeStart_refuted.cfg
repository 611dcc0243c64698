\* What does not hold of the start of sesame serve.
SPECIFICATION StartSpec
CONSTANTS
  Servers = {q1, q2}
  Nobody = Nobody
  Leftover = Old
CHECK_DEADLOCK FALSE
INVARIANTS RunningIsReachable
PROPERTIES OrphanEnds
