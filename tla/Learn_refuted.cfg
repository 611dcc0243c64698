SPECIFICATION LearnSpec
CONSTANTS
  Learners = {a1, a2}
  Listeners = {b1}
CHECK_DEADLOCK FALSE
INVARIANTS
  CloseRestores
  ListeningIsHeard
