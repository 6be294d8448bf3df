CONSTANTS
  o1 = o1  o2 = o2  n1 = n1  n2 = n2  r1 = r1
  Old = {o1, o2}
  New = {n1, n2}
  OldVersion <- Running
  NewVersions <- Candidates
  Request = {r1}
  Replicas = 2
  MaxSurge = 1
  MaxUnavailable = 0
  PreStop = 2
  Grace = 4
  Lag = 1
  MaxOutages = 1
  MaxFaults = 1
SYMMETRY Interchangeable
CHECK_DEADLOCK FALSE
SPECIFICATION Spec
INVARIANTS NeverRefused  CleanShutdown
