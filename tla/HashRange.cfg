SPECIFICATION Spec
CONSTANTS
  MaxNonce = 4
  CheckInterval = 2
INVARIANTS
  HashesAccounted
  StopReaction
PROPERTY ImplementsCall
CHECK_DEADLOCK FALSE
