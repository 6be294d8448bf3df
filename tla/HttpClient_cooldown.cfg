CONSTANTS
  get1 = get1  get2 = get2  post = post
  Request = {get1, get2, post}
  Idempotent = {get1, get2}
  Threshold = 2
  Cooldown = 2
  Retries = 1
  Backoff = 1
  MaxTime = 3
SPECIFICATION Spec
SYMMETRY Same
\* The clock stops at MaxTime and requests end.
CHECK_DEADLOCK FALSE
INVARIANT StaysOpenForCooldown
