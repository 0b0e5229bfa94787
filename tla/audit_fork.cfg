SPECIFICATION Spec
CONSTANTS
  Writer = {w1, w2}
  MaxNumber = 2
INVARIANTS
  EachFollowsTheOneBefore
CHECK_DEADLOCK FALSE
