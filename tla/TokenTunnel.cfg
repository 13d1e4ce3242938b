SPECIFICATION TokenFairSpec
CONSTANTS
  N = 1
  Users = {"u1"}
  PipeCap = 1
  MaxRetries = 2
  Faults = TRUE
  Deletes = TRUE
  AcceptFaults = FALSE
INVARIANT LateBounded
PROPERTY EveryoneServed
PROPERTY ProducerRests
