SPECIFICATION ListSpec
CONSTANTS
  NoCall = NoCall
  Methods = {list, sync}
  Calls = {k1, k2, k3}
  Listing = {list, sync}
  Pages = 3
  Answers = {a1, a2}
  LateAnswers = FALSE
CHECK_DEADLOCK FALSE
INVARIANT ListsAreWhole
