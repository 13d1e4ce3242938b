SPECIFICATION FairSpec
CONSTANTS
  N = 2
  Users = {"u1"}
  PipeCap = 1
  MaxRetries = 2
  Faults = FALSE
  AcceptFaults = TRUE
INVARIANT NoNeedlessDrop
INVARIANT AcceptedIsServed
PROPERTY KeepsForwarding
PROPERTY EveryoneServed
PROPERTY StopEndsLoops
