CONSTANTS
  t1 = t1  t2 = t2  t3 = t3  u1 = u1  p = p  q = q
  Process = {p, q}
  Task = {t1, t2, t3, u1}
  Home <- Homes
  MaxFaults = 2
  MaxEvictions = 1
SPECIFICATION Spec
\* The calls end.
CHECK_DEADLOCK FALSE
INVARIANT TypeOK
PROPERTIES ComputesOncePerProcess EveryCallEnds
