SPECIFICATION Spec
CONSTANTS
  N = 2
  Users = {}
  PipeCap = 1
  MaxRetries = 2
  Faults = FALSE
  AcceptFaults = FALSE
INVARIANT ReadyMeansForwarding
