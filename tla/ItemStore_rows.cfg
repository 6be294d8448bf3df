CONSTANTS
  a = a  b = b  x = x
  c1 = c1  g1 = g1  g2 = g2  pa = pa  pb = pb  px = px  d1 = d1  d2 = d2
  n1 = n1  n2 = n2  t1 = t1  t2 = t2
  Id = {a, b, x}
  Name = {n1, n2}
  Text = {t1, t2}
  Op <- Requests
  InitTable <- TwoRows
  NoRow = NoRow
  Nothing = Nothing
  Request = {c1, pa, pb, px, d1, d2, g2}
  MaxFaults = 1
SPECIFICATION Spec
\* The requests end.
CHECK_DEADLOCK FALSE
INVARIANTS TypeOK UniqueNames RefusedChangesNothing
PROPERTIES OneDeleteWins OmittedFieldsUntouched EveryRequestEnds
