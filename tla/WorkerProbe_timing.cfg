\* Ticks of five seconds.
CONSTANTS
  Reply = 1
  Block = 1
  MaxBackoff = 6
  MaxHandler = 6
  MaxRecover = 10
  InitialDelay = 3
  Period = 2
  FailureThreshold = 3
  Stale = 6
  Grace = 12
SPECIFICATION Spec
INVARIANTS TypeOK WedgedIsReplaced NoJobInterrupted
PROPERTY OnlySlowTurnsAreStopped
