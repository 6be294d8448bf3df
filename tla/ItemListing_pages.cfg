CONSTANTS
  s1 = s1  s2 = s2  c1 = c1
  alpha = alpha  beta = beta  gamma = gamma
  NoName = NoName
  Writer = {s1, s2, c1}
  Reader = {"r"}
  Seed <- Work
  Limit = 1
  ReadReplica = TRUE
  MaxEvents = 2
SYMMETRY Interchangeable
SPECIFICATION ListSpec
INVARIANTS SeedAllOrNothing PagingMissesNothing
