CONSTANTS
  Request = {r1, r2, r3, r4, r5}
  Limit = 1
  Window = 2
  MaxTime = 4
  MaxFaults = 2
SPECIFICATION Spec
SYMMETRY Same
\* The clock stops at MaxTime and requests end.
CHECK_DEADLOCK FALSE
INVARIANTS TypeOK RetryAfterSuffices RefusedOnlyBeyondLimit AtMostTwiceLimit
