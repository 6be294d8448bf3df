CONSTANTS
  j1 = j1  j2 = j2  w1 = w1  w2 = w2  h1 = h1  h2 = h2  h3 = h3
  Job = {j1, j2}
  Worker = {w1, w2}
  Host = {h1, h2, h3}
  InitHost <- OwnHost
  Registered <- OldImage
  MaxAttempts = 2
  NoMessage = NoMessage
  MaxErrors = 1
  MaxSignals = 1
SPECIFICATION FairSpec
INVARIANTS TypeOK ExclusiveExecution NoOtherLoss AttemptsBacked NothingLeftBehind
PROPERTIES ImplementsLifecycle ComesToRest EveryJobSettles StopsOnTerm
